----------------------------- MODULE EventChannel ----------------------------
(* What a caller that asked for the events channel of a completion is       *)
(* promised: the domain events it receives are events its tools produced,   *)
(* each at most once and in the order they happened, and when the answer is *)
(* complete a marker after the last of them says how many were left out,    *)
(* unless none was.                                                         *)
EXTENDS Naturals, Sequences

VARIABLES
  offered,    (* the number of events the tools have produced               *)
  received,   (* the events the caller has, each the number of its          *)
              (* production, in the order they came                         *)
  markers,    (* the truncation markers the caller has                      *)
  state       (* "open", "complete", or "cut" when the caller went away     *)

vars == <<offered, received, markers, state>>

Init ==
  /\ offered = 0
  /\ received = <<>>
  /\ markers = <<>>
  /\ state = "open"

(* A tool produces an event: not once the marker has counted them.          *)
Offer ==
  /\ state # "complete" /\ markers = <<>>
  /\ offered' = offered + 1
  /\ UNCHANGED <<received, markers, state>>

(* The caller gets an event, later than all it has.                         *)
Deliver ==
  /\ state = "open" /\ markers = <<>>
  /\ \E n \in 1..offered :
       /\ \A i \in 1..Len(received) : received[i] < n
       /\ received' = Append(received, n)
  /\ UNCHANGED <<offered, markers, state>>

Mark ==
  /\ state = "open" /\ markers = <<>>
  /\ offered > Len(received)
  /\ markers' = <<[dropped |-> offered - Len(received), after |-> Len(received)]>>
  /\ UNCHANGED <<offered, received, state>>

Complete ==
  /\ state = "open"
  /\ markers # <<>> \/ offered = Len(received)
  /\ state' = "complete"
  /\ UNCHANGED <<offered, received, markers>>

Cut ==
  /\ state = "open"
  /\ state' = "cut"
  /\ UNCHANGED <<offered, received, markers>>

Next == Offer \/ Deliver \/ Mark \/ Complete \/ Cut

Spec == Init /\ [][Next]_vars
=============================================================================
