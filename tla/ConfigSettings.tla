---------------------------- MODULE ConfigSettings ----------------------------
(* The settings of a model config: each update is validated against the row *)
(* it loaded and then writes the columns it changes into the row as it is   *)
(* by then.  Two valid updates may leave settings that no validation would  *)
(* have accepted, and whoever uses the row has to live with them.           *)
EXTENDS ProviderParameters, Chunking

CONSTANTS
  Writers,       (* the PUT requests                                        *)
  Given,         (* Given[f]: the values that requests have for a column    *)
  Omitted,       (* a column that is not in a request                       *)
  Patches,       (* what requests ask for                                   *)
  Lengths,       (* lengths of document bodies                              *)
  MaxUpdates     (* bound on the updates                                    *)

Columns == {"type", "provider", "model", "temperature", "top_p", "params"}

Row   == [type : Given["type"], provider : Given["provider"], model : Given["model"],
          temperature : Given["temperature"] \cup {Unset}, top_p : Given["top_p"] \cup {Unset},
          params : Given["params"] \cup {Unset}]
Patch == [type : Given["type"] \cup {Omitted}, provider : Given["provider"] \cup {Omitted},
          model : Given["model"] \cup {Omitted}, temperature : Given["temperature"] \cup {Unset, Omitted},
          top_p : Given["top_p"] \cup {Unset, Omitted}, params : Given["params"] \cup {Unset, Omitted}]

ASSUME ConfigSettingsAssumption ==
  /\ Given["type"] \subseteq {"chat", "embedding"} /\ Given["provider"] \subseteq Providers
  /\ Given["temperature"] \subseteq 0 .. 20 /\ Given["top_p"] \subseteq 0 .. 10
  /\ Given["params"] \subseteq [size : Nat, overlap : Nat, strategy : STRING]
  /\ Unset # Omitted /\ \A f \in Columns : Omitted \notin Given[f]
  /\ Patches \subseteq Patch
  /\ Lengths \subseteq Nat

VARIABLES
  row,           (* the row of the config                                   *)
  pc,
  loaded,        (* loaded[w]: the row as a request loaded it               *)
  patch,         (* patch[w]: what it asks for                              *)
  raced,         (* whether the row had changed when it was written last    *)
  updates,
  sent,          (* the settings of the last model request                  *)
  cut            (* what became of the last document cut into chunks        *)

vars == <<row, pc, loaded, patch, raced, updates, sent, cut>>

NoPatch == [f \in Columns |-> Omitted]
Nothing == [outcome |-> "none", windows |-> {}, length |-> 0]

(* The config was created: validated as a whole.                            *)
Init ==
  /\ row \in {c \in Row : Legal(c)}
  /\ pc = [w \in Writers |-> "idle"]
  /\ loaded = [w \in Writers |-> row]
  /\ patch = [w \in Writers |-> NoPatch]
  /\ raced = FALSE /\ updates = 0
  /\ sent = [provider |-> row.provider, settings |-> [f \in Sampled |-> Unset]]
  /\ cut = Nothing

Merged(old, new) == [f \in Columns |-> IF new[f] = Omitted THEN old[f] ELSE new[f]]

(* Only attributes that differ from the loaded row are written.             *)
Written(now, old, new) ==
  [f \in Columns |-> IF new[f] = Omitted \/ new[f] = old[f] THEN now[f] ELSE new[f]]

(* Faulty: looks at the request alone.                                      *)
AcceptsPatch(old, new) ==
  LET c == [f \in Columns |-> IF new[f] # Omitted THEN new[f]
                              ELSE IF f = "type" THEN "chat"
                              ELSE IF f = "provider" THEN Unknown ELSE Unset]
  IN Legal(c)

(* The columns that are not in the request are validated as loaded.         *)
Accepts(old, new) == Legal(Merged(old, new))

(* Anything else is answered with 422 and changes nothing.                  *)
BeginUpdate(w) ==
  /\ pc[w] = "idle" /\ updates < MaxUpdates
  /\ \E new \in Patches :
       /\ Accepts(row, new)
       /\ patch' = [patch EXCEPT ![w] = new]
  /\ pc' = [pc EXCEPT ![w] = "write"]
  /\ loaded' = [loaded EXCEPT ![w] = row]
  /\ updates' = updates + 1
  /\ UNCHANGED <<row, raced, sent, cut>>

(* The request ends with the row read anew.                                 *)
CommitUpdate(w) ==
  /\ pc[w] = "write"
  /\ row' = Written(row, loaded[w], patch[w])
  /\ raced' = (row # loaded[w])
  /\ pc' = [pc EXCEPT ![w] = "idle"]
  /\ loaded' = [loaded EXCEPT ![w] = row']
  /\ patch' = [patch EXCEPT ![w] = NoPatch]
  /\ UNCHANGED <<updates, sent, cut>>

(* A model request with the row as it is; there is no model without an      *)
(* adapter.                                                                 *)
Ask ==
  /\ row.provider # Unknown
  /\ sent' = [provider |-> row.provider, settings |-> SettingsOf(row)]
  /\ UNCHANGED <<row, pc, loaded, patch, raced, updates, cut>>

(* Faulty: trusts the row.                                                  *)
Trusted(params) == params # Unset

(* index_knowledge_document_task validates what it loaded once more.        *)
Checked(params) == ValidChunking(params)

Index ==
  /\ row.type = "embedding"
  /\ \E n \in Lengths :
       cut' = IF Checked(row.params)
              THEN [outcome |-> Cut(n, row.params).outcome, windows |-> Cut(n, row.params).windows, length |-> n]
              ELSE [outcome |-> "error", windows |-> {}, length |-> n]
  /\ UNCHANGED <<row, pc, loaded, patch, raced, updates, sent>>

Next ==
  \/ \E w \in Writers : BeginUpdate(w) \/ CommitUpdate(w)
  \/ Ask
  \/ Index

Spec == Init /\ [][Next]_vars

-------------------------------------------------------------------------------
(* Properties.                                                              *)

(* Settings that the validation would refuse are only ever left by an       *)
(* update that overlapped another one, and until the next that did not; and *)
(* even with such a row no request to a provider carries a parameter out of *)
(* its bounds or two that exclude each other.                               *)
SettingsLegal ==
  /\ ~raced => Legal(row)
  /\ sent.provider # Unknown => ValidParameters(
       [provider |-> sent.provider, temperature |-> sent.settings.temperature, top_p |-> sent.settings.top_p])

(* Whatever updates made of the params, cutting a document ends, and when   *)
(* it yields chunks they cover the body, none is empty or longer than the   *)
(* largest size, and there are not too many.                                *)
ChunksCover ==
  /\ cut.outcome # "endless"
  /\ cut.outcome = "chunks" =>
       /\ \A x \in 0 .. cut.length - 1 : \E win \in cut.windows : win[1] <= x /\ x < win[2]
       /\ \A win \in cut.windows :
            win[1] < win[2] /\ win[2] <= cut.length /\ win[2] - win[1] <= MaxSize
       /\ Cardinality(cut.windows) <= MaxChunks
===============================================================================
