------------------------ MODULE MCModelConfigRegistry -------------------------
(* Two configs of two types and an id for a third; payloads that supply one *)
(* of the fields, or the type and the default mark together.                *)
EXTENDS ModelConfigRegistry

CONSTANTS a, b, c, s1, s2, chat, embedding

NoFields(id) == [op |-> "update", id |-> id, slug |-> Unset, type |-> Unset, dflt |-> Unset]

MCUpdates ==
  UNION {{[NoFields(id) EXCEPT !.dflt = TRUE], [NoFields(id) EXCEPT !.dflt = FALSE],
          [NoFields(id) EXCEPT !.slug = s1]}
         \cup {[NoFields(id) EXCEPT !.type = k] : k \in Types}
         \cup {[NoFields(id) EXCEPT !.type = k, !.dflt = TRUE] : k \in Types} : id \in {a, b}}

MCCreates == [op : {"create"}, id : {c}, slug : Slugs, type : {chat}, dflt : BOOLEAN]
MCDeletes == {[NoFields(id) EXCEPT !.op = "delete"] : id \in {a, b}}

MCRequests == MCUpdates \cup MCCreates \cup MCDeletes

(* Requests that mark one of the two configs as default, and no others.     *)
MCMarks == {[NoFields(id) EXCEPT !.dflt = TRUE] : id \in {a, b}}

(* a has the slug s1 and b has s2; c is free.                               *)
MCInit ==
  /\ Init
  /\ row[a].slug = s1 /\ row[b].slug = s2 /\ row[a].state = "live" /\ row[b].state = "live"
  /\ row[c] = [slug |-> s1, type |-> chat, dflt |-> FALSE, state |-> "absent"]

MCSpec == MCInit /\ [][Next]_vars /\ Fairness
=============================================================================
