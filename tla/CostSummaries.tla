---------------------------- MODULE CostSummaries -----------------------------
(* The costs of logged requests, summed by a dimension over days.           *)
EXTENDS Naturals, FiniteSets, FiniteSetsExt

CONSTANTS
  TicksPerDay,
  NoDate         (* an end of the range that is left open                   *)

Dimensions == {"user", "provider", "model", "project_id"}

(* Faulty: the day that ends the range is left out.                         *)
FirstTickOf(day) == day * TicksPerDay

(* The first tick that is too late: that of the day after, UTC.             *)
Cutoff(day) == (day + 1) * TicksPerDay

(* The filters of cost_summary_query on created_at.                         *)
Within(log, start, end) ==
  {r \in log : /\ start # NoDate => r.at >= start * TicksPerDay
               /\ end # NoDate => r.at < Cutoff(end)}

Groups(log, dim) == {r[dim] : r \in log}

TotalOf(log, dim, group) == MapThenSumSet(LAMBDA r : r.cost, {r \in log : r[dim] = group})

(* group_by, order_by, limit: no group that is left out has a higher total. *)
Listed(found, dim, limit) ==
  {S \in SUBSET Groups(found, dim) :
     /\ Cardinality(S) = IF Cardinality(Groups(found, dim)) < limit THEN Cardinality(Groups(found, dim)) ELSE limit
     /\ \A g \in S, h \in Groups(found, dim) \ S : TotalOf(found, dim, g) >= TotalOf(found, dim, h)}

(* get_cost_summary                                                         *)
Summaries(log, dim, start, end, limit) ==
  LET found == Within(log, start, end)
  IN {[g \in S |-> TotalOf(found, dim, g)] : S \in Listed(found, dim, limit)}
===============================================================================
