--------------------------- MODULE MCSystemPrompts ----------------------------
(* Two prompts, of which one may be there at the start, and one config.     *)
EXTENDS SystemPrompts, TLC

CONSTANTS p, q, n1, n2, blank, text, c

Ask(op) == [op |-> op, id |-> None, name |-> None, content |-> None, config |-> None]

MCRequests ==
  {[Ask("create") EXCEPT !.id = q, !.name = n2, !.content = blank],
   [Ask("update") EXCEPT !.id = p, !.name = n2],
   [Ask("update") EXCEPT !.id = p, !.content = text],
   [Ask("update") EXCEPT !.id = p, !.content = blank],
   [Ask("update") EXCEPT !.id = p, !.name = n1, !.content = text],
   [Ask("update") EXCEPT !.id = p, !.name = n2, !.content = text],
   [Ask("post") EXCEPT !.name = n1, !.content = text],
   [Ask("delete") EXCEPT !.id = p],
   [Ask("attach") EXCEPT !.id = p, !.config = c],
   [Ask("attach") EXCEPT !.id = q, !.config = c],
   [Ask("run") EXCEPT !.config = c],
   [Ask("show") EXCEPT !.name = n1]}

(* p has the name n1; q is not there.                                      *)
MCInit ==
  /\ Init
  /\ prompt[p].name = n1 /\ prompt[p].state = "live"
  /\ prompt[q].name = n2 /\ prompt[q].state = "absent"

MCSpec == MCInit /\ [][Next]_vars

MCSymmetry == Permutations(Txns)
=============================================================================
