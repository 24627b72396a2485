--------------------------- MODULE MCConfigSettings ---------------------------
(* Two requests that overlap; parameters within and beyond the bounds of    *)
(* the stricter provider; params with a step and without.  And listings and *)
(* logs for the reports.                                                    *)
EXTENDS ConfigSettings, Reports

CONSTANTS w1, w2, gpt, small, old, new, embed, u1

MCEmbeddingModels == [openai |-> {small}, anthropic |-> {}]

MCParams ==
  {[size |-> 3, overlap |-> 1, strategy |-> "fixed_size"], [size |-> 2, overlap |-> 2, strategy |-> "fixed_size"]}

MCGiven ==
  [type |-> {"chat", "embedding"}, provider |-> Providers, model |-> {gpt, small},
   temperature |-> {5, 15}, top_p |-> {5}, params |-> MCParams]

To(f, v) == [NoPatch EXCEPT ![f] = v]
And(p, f, v) == [p EXCEPT ![f] = v]

(* Requests change one column, or two that have to change together.         *)
MCPatches ==
  {To("temperature", 15), To("temperature", 5), To("temperature", Unset), To("top_p", 5), To("top_p", Unset),
   To("provider", "openai"), To("provider", "anthropic"), To("provider", Unknown),
   To("type", "chat"), To("type", "embedding"), And(To("type", "embedding"), "model", small),
   To("model", gpt)} \cup {To("params", p) : p \in MCParams \cup {Unset}}

(* A chat config with or without params, or an embedding config.            *)
MCInit ==
  /\ Init
  /\ row.temperature = Unset /\ row.top_p \in {5, Unset}
  /\ row.provider \in {"openai", "anthropic"}
  /\ ReportsInit

(* Listings of two pages, of which the first may be the last.               *)
Live(id, created) == [id |-> id, created |-> created]

MCPages == {<<[data |-> a, more |-> more], [data |-> b, more |-> FALSE]>> :
  a \in SUBSET {Live(gpt, 1), Live(gpt, 2), Live(embed, 2)},
  b \in SUBSET {Live(old, 1), Live(new, 1), Live(new, 2)}, more \in BOOLEAN}

(* A model is listed once; embed is none the task looks at.                 *)
MCListings == {p \in MCPages : \A k \in 1 .. 2 : Cardinality(Ids(p[k].data)) = Cardinality(p[k].data)}

Logged(at, user, model, cost) ==
  [at |-> at, user |-> user, model |-> model, provider |-> "openai", project_id |-> "*", cost |-> cost]

MCLogs == SUBSET {Logged(0, u1, gpt, 1), Logged(1, Unset, gpt, 2), Logged(2, u1, new, 2), Logged(3, Unset, new, 0),
                  Logged(4, u1, gpt, 4)}

Symmetry == {[w \in Writers |-> w], [w \in Writers |-> IF w = w1 THEN w2 ELSE w1]}

(* A behaviour is about updates and their outcome, a report of costs, or    *)
(* checks of catalogs.                                                      *)
Untouched ==
  updates = 0 /\ cut = Nothing /\ row.type = "chat" /\ row.provider = "openai"
  /\ Unset = row.top_p /\ Unset = row.params

Unreported == report = NoReport /\ unchecked = Adapters /\ drift = NoDrift

MCNext ==
  \/ Unreported /\ Next /\ UNCHANGED <<checkVars, report>>
  \/ Untouched /\ Unreported /\ SummarizeCosts /\ UNCHANGED vars
  \/ Untouched /\ report = NoReport /\ CheckCatalogs /\ UNCHANGED vars

MCSpec == MCInit /\ [][MCNext]_<<vars, checkVars, report>>
===============================================================================
