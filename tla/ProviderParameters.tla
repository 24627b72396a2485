-------------------------- MODULE ProviderParameters --------------------------
(* What the providers accept: the bounds of the sampling parameters, those  *)
(* that exclude each other, and the settings of an embedding config.        *)
EXTENDS Naturals

CONSTANTS
  Unset,                  (* None                                           *)
  MinSize, MaxSize,       (* the chunk sizes that are allowed               *)
  EmbeddingModels         (* the embedding models of a provider             *)

(* A provider that no adapter is registered for may be named in a config.   *)
Unknown   == "unknown"
Providers == {"openai", "anthropic", Unknown}

(* Tenths: the bounds of the two parameters that have any.                  *)
Bounds ==
  [openai    |-> [temperature |-> 0 .. 20, top_p |-> 0 .. 10],
   anthropic |-> [temperature |-> 0 .. 10, top_p |-> 0 .. 10]]

Sampled == {"temperature", "top_p"}

ASSUME ProviderParametersAssumption ==
  /\ Unset \notin Nat
  /\ MinSize \in Nat \ {0} /\ MaxSize \in Nat

Exclusive(provider) == provider = "anthropic"

-------------------------------------------------------------------------------
(* When a config is saved.                                                  *)

(* validate_model_config_parameters                                         *)
ValidParameters(c) ==
  c.provider # Unknown =>
    /\ \A f \in Sampled : c[f] # Unset => c[f] \in Bounds[c.provider][f]
    /\ Exclusive(c.provider) => Unset \in {c.temperature, c.top_p}

(* EmbeddingConfigParams                                                    *)
ValidChunking(params) ==
  /\ params # Unset
  /\ params.size \in MinSize .. MaxSize
  /\ params.overlap < params.size
  /\ params.strategy = "fixed_size"

(* validate_embedding_config_params, validate_embedding_model_choice        *)
ValidEmbedding(c) ==
  c.type = "embedding" =>
    /\ ValidChunking(c.params)
    /\ c.provider # Unknown => c.model \in EmbeddingModels[c.provider]

Legal(c) == ValidParameters(c) /\ ValidEmbedding(c)

-------------------------------------------------------------------------------
(* When a model is asked: only what is in bounds is sent, and of            *)
(* parameters that exclude each other the first.                            *)

(* Faulty: the value as it was saved.                                       *)
ClampNothing(provider, f, v) == v

(* clamp_model_config_parameter; no lower bound is above zero.              *)
Clamp(provider, f, v) ==
  IF v \in Bounds[provider][f] THEN v
  ELSE CHOOSE m \in Bounds[provider][f] : \A k \in Bounds[provider][f] : k <= m

(* Faulty: everything.                                                      *)
ResolveNothing(provider, settings) == settings

(* resolve_provider_settings                                                *)
Resolve(provider, settings) ==
  IF Exclusive(provider) /\ settings.temperature # Unset
  THEN [settings EXCEPT !.top_p = Unset] ELSE settings

(* _apply_config_params                                                     *)
SettingsOf(c) ==
  Resolve(c.provider, [f \in Sampled |-> IF c[f] = Unset THEN Unset ELSE Clamp(c.provider, f, c[f])])
===============================================================================
