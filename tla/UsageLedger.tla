----------------------------- MODULE UsageLedger -----------------------------
(* What the log of model requests promises to whoever reads costs from it:  *)
(* each request that a provider answered enters the costs of the user who   *)
(* made it once, at its price, or never.                                    *)
EXTENDS Naturals

CONSTANTS Requests, Users

VARIABLES
  made,       (* the requests that were answered, as charges                *)
  recorded,   (* those that have entered the costs                          *)
  missing,    (* those that never will                                      *)
  costs       (* costs[u]: the costs of a user so far                       *)

vars == <<made, recorded, missing, costs>>

Charges == [request : Requests, user : Users, cost : Nat]

Init ==
  /\ made = {} /\ recorded = {} /\ missing = {}
  /\ costs = [u \in Users |-> 0]

Answer(c) ==
  /\ \A d \in made : d.request # c.request
  /\ made' = made \cup {c}
  /\ UNCHANGED <<recorded, missing, costs>>

Enter(c) ==
  /\ recorded' = recorded \cup {c}
  /\ costs' = [costs EXCEPT ![c.user] = @ + c.cost]
  /\ UNCHANGED <<made, missing>>

Miss(c) ==
  /\ missing' = missing \cup {c}
  /\ UNCHANGED <<made, recorded, costs>>

Due == made \ (recorded \cup missing)

Next ==
  \/ \E c \in made' \ made : c \in Charges /\ Answer(c)
  \/ \E c \in Due : Enter(c) \/ Miss(c)

Spec == Init /\ [][Next]_vars
=============================================================================
