------------------------- MODULE MCKnowledgeIndex -------------------------
(***************************************************************************)
(* KnowledgeIndex for TLC.  Init leaves open what the program has not      *)
(* written yet (the body of a document not created, the task of a worker   *)
(* that has run none); no action reads it before writing it, so one choice *)
(* of these values stands for all of them.                                 *)
(***************************************************************************)
EXTENDS KnowledgeIndex

MCPieces == [c \in Contents |-> [k \in Configs |->
               CASE c = "empty" -> 0 [] c = "short" -> 1 [] c = "long" -> 2]]

MCInit ==
  /\ Init
  /\ default # NoConfig
  /\ content = [d \in Docs |-> CHOOSE c \in Contents : TRUE]
  /\ docOf = [j \in Jobs |-> CHOOSE d \in Docs : TRUE]
  /\ job = [w \in Workers |-> CHOOSE j \in Jobs : TRUE]
  /\ seen = [w \in Workers |-> CHOOSE s \in [content : Contents, config : Configs] : TRUE]

MCSpec == MCInit /\ [][Next]_vars
MCFairSpec == MCSpec /\ Fairness
=============================================================================
