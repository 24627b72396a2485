--------------------------- MODULE DocumentIndex ---------------------------
(***************************************************************************)
(* The promise of the knowledge base, with no task, worker or lock in it:  *)
(* the chunks of a document are the complete output of one indexing run,   *)
(* replaced as a whole ("replaced transactionally", docstring of           *)
(* index_knowledge_document_task) and removed with the document.           *)
(***************************************************************************)
EXTENDS KnowledgeChunks

VARIABLES
  life,   (* life[d]: "new" before its insert, "live", "gone" once deleted    *)
  index   (* index[d]: the chunks a search finds for d                        *)

vars == <<life, index>>

Init ==
  /\ life = [d \in Docs |-> "new"]
  /\ index = [d \in Docs |-> {}]

Create(d) ==
  /\ life[d] = "new"
  /\ life' = [life EXCEPT ![d] = "live"]
  /\ UNCHANGED index

Publish(d, j, c, k) ==
  /\ life[d] = "live"
  /\ index' = [index EXCEPT ![d] = Generation(j, d, c, k)]
  /\ UNCHANGED life

Remove(d) ==
  /\ life[d] = "live"
  /\ life' = [life EXCEPT ![d] = "gone"]
  /\ index' = [index EXCEPT ![d] = {}]

Next ==
  \E d \in Docs :
    \/ Create(d)
    \/ \E j \in Jobs, c \in Contents, k \in Configs : Publish(d, j, c, k)
    \/ Remove(d)

Spec == Init /\ [][Next]_vars
=============================================================================
