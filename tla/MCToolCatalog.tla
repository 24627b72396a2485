---------------------------- MODULE MCToolCatalog ----------------------------
(***************************************************************************)
(* ToolCatalog for TLC.  One server is registered under the first of the   *)
(* server_ids; a second one is registered too or about to be created.  Two *)
(* payloads out of five create, rename, reconfigure and delete them beside *)
(* a reader.  Transactions are interchangeable: one order of their         *)
(* payloads stands for both.                                               *)
(* The query before a rename refuses the server_id of any live server, so  *)
(* two renames come to wait for each other only if two others move the     *)
(* servers under them: these four make an instance of their own, with a    *)
(* reader that asks for no server once they have ended.  Elsewhere the two *)
(* more transactions find no server and end first.  The columns of a row   *)
(* that is absent are fixed: no action reads them.                         *)
(***************************************************************************)
EXTENDS ToolCatalog, TLC

CONSTANTS r1, r2, r3, k1, k2, k3, a, b, t1, t2, t3, t4

Payload(op, r, s, c) == [op |-> op, row |-> r, sid |-> s, conf |-> c]

Payloads == <<
  Payload("create", r2, k1, a), Payload("update", r2, k1, Unset),
  Payload("update", r1, k2, Unset), Payload("update", r1, Unset, b),
  Payload("delete", r1, Unset, Unset)>>

Crossing == <<
  Payload("update", r1, k3, Unset), Payload("update", r2, k2, Unset),
  Payload("update", r2, k3, Unset), Payload("update", r1, k2, Unset)>>

NoServer == Payload("delete", r3, Unset, Unset)

MCRequests == {Payloads[n] : n \in 1 .. 5} \cup {Crossing[n] : n \in 1 .. 4} \cup {NoServer}

Servers(second) ==
  r1 :> [sid |-> k1, conf |-> a, state |-> "live"] @@
  r2 :> [sid |-> k2, conf |-> a, state |-> second] @@
  r3 :> [sid |-> k3, conf |-> a, state |-> "absent"]

MCInit ==
  /\ server \in {Servers("absent"), Servers("live")}
  /\ \/ \E m, n \in 1 .. 5 :
          m <= n /\ req = t1 :> Payloads[m] @@ t2 :> Payloads[n] @@ t3 :> NoServer @@ t4 :> NoServer
     \/ /\ Live(r2)
        /\ req = t1 :> Crossing[1] @@ t2 :> Crossing[2] @@ t3 :> Crossing[3] @@ t4 :> Crossing[4]
  /\ Init

Idle(t) == pc[t] = "idle" /\ req[t] = NoServer

MCNext ==
  /\ Next
  /\ Idle(t3) => pc'[t3] # "idle"
  /\ ~Idle(t3) /\ Idle(t4) => pc'[t4] # "idle"
  /\ req[t3] # NoServer =>
       UNCHANGED asked /\ ((\E t \in Txns : pc[t] \notin Ended) => UNCHANGED stage)

MCSpec == MCInit /\ [][MCNext]_vars
MCFairSpec == MCSpec /\ Fairness
=============================================================================
