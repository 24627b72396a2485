------------------------------- MODULE Reports --------------------------------
(* What operators are told: the drift of the providers' catalogs, and the   *)
(* costs of the requests.                                                   *)
EXTENDS ProviderCatalog, CostSummaries

CONSTANTS
  Adapters,      (* the providers of the registry                           *)
  Listings,      (* listings of a provider, as sequences of pages           *)
  Logs,          (* sets of logged requests                                 *)
  Days,
  Limits

(* Ticks and days are counted from an origin; a cost is a number of the     *)
(* smallest units of its column.                                            *)
ASSUME ReportsAssumption ==
  /\ Listings \subseteq Seq(Page) /\ NoModel \notin ModelIds
  /\ TicksPerDay \in Nat \ {0}
  /\ Days \subseteq Nat /\ Limits \subseteq Nat
  /\ \A log \in Logs : IsFiniteSet(log) /\ \A r \in log : r.at \in Nat /\ r.cost \in Nat

VARIABLES
  unchecked,     (* providers the weekly task has still to come to          *)
  failed,        (* those whose listing could not be fetched                *)
  checked,       (* those that were compared                                *)
  drift,         (* what was compared last, and what became of its events   *)
  report         (* the last report of costs                                *)

checkVars == <<unchecked, failed, checked, drift>>

NoDrift  == [pages |-> <<>>, curated |-> {}, unsent |-> {}, told |-> {}, swallowed |-> {}]
NoReport == [about |-> "nothing"]

Dates == Days \cup {NoDate}

ReportsInit ==
  /\ unchecked = Adapters /\ failed = {} /\ checked = {} /\ drift = NoDrift
  /\ report = NoReport

-------------------------------------------------------------------------------
(* check_provider_model_catalog_task: one provider after the other, each    *)
(* once the events of the one before it are published.                      *)

Reaches(p) == p \in unchecked /\ drift.unsent = {} /\ unchecked' = unchecked \ {p}

(* Only this provider is skipped.                                           *)
FetchFails(p) ==
  /\ Reaches(p)
  /\ failed' = failed \cup {p}
  /\ UNCHANGED <<checked, drift, report>>

Compare(p) ==
  /\ Reaches(p)
  /\ checked' = checked \cup {p}
  /\ \E pages \in Listings, curated \in SUBSET InScope :
       \E diff \in Diffs(curated, Fetched(pages)) :
         drift' = [pages |-> pages, curated |-> curated,
                   unsent |-> Published(diff), told |-> {}, swallowed |-> {}]
  /\ UNCHANGED <<failed, report>>

(* _publish, what is added first.  An event that cannot be published is     *)
(* swallowed, and the task goes on.                                         *)
Publish ==
  /\ \E e \in drift.unsent :
       /\ e.what = "removed" => \A o \in drift.unsent : o.what = "removed"
       /\ \/ drift' = [drift EXCEPT !.unsent = @ \ {e}, !.told = @ \cup {e}]
          \/ drift' = [drift EXCEPT !.unsent = @ \ {e}, !.swallowed = @ \cup {e}]
  /\ UNCHANGED <<unchecked, failed, checked, report>>

(* A week later, or when it is asked for.                                   *)
CheckAgain ==
  /\ unchecked = {} /\ drift.unsent = {}
  /\ unchecked' = Adapters /\ failed' = {} /\ checked' = {} /\ drift' = NoDrift
  /\ UNCHANGED report

CheckCatalogs == (\E p \in Adapters : FetchFails(p) \/ Compare(p)) \/ Publish \/ CheckAgain

-------------------------------------------------------------------------------
SummarizeCosts ==
  /\ \E log \in Logs, dim \in Dimensions, start, end \in Dates, limit \in Limits :
       \E items \in Summaries(log, dim, start, end, limit) :
         report' = [about |-> "costs", log |-> log, dim |-> dim, start |-> start, end |-> end,
                    limit |-> limit, items |-> items]
  /\ UNCHANGED checkVars

ReportsNext == CheckCatalogs \/ SummarizeCosts

ReportsSpec == ReportsInit /\ [][ReportsNext]_<<checkVars, report>>
-------------------------------------------------------------------------------
(* Properties.                                                              *)

(* No provider is left out of a check but for its own listing.  An event    *)
(* that reached its subscribers is right, whatever became of the other one: *)
(* what is added and removed is the difference to the models in scope of    *)
(* every page that was to be read; and it names a newer model if and only   *)
(* if there is one, newer than all that are curated and listed (of all the  *)
(* provider's families: PRD 0018 has them compared one by one).  And what   *)
(* the subscribers were not told of is what could not be published.         *)
DriftExact ==
  LET listed  == {m \in UNION {drift.pages[i].data : i \in DOMAIN drift.pages} :
                    /\ m.id \in InScope
                    /\ \E i \in DOMAIN drift.pages :
                         m \in drift.pages[i].data /\ \A j \in 1 .. i - 1 : drift.pages[j].more}
      arrived == {m \in listed : /\ m.id \notin drift.curated
                                 /\ \A k \in listed : k.id \in drift.curated => k.created < m.created}
      change  == [added |-> Ids(listed) \ drift.curated, removed |-> drift.curated \ Ids(listed)]
  IN /\ unchecked \cup failed \cup checked = Adapters
     /\ \A e \in drift.told :
          /\ e.ids = change[e.what]
          /\ e.what = "added" =>
               IF arrived = {} THEN e.newer = NoModel
               ELSE \E m \in arrived : e.newer = m.id /\ \A o \in arrived : o.created <= m.created
     /\ drift.unsent = {} => \A what \in {"added", "removed"} :
          change[what] # {} => \E e \in drift.told \cup drift.swallowed : e.what = what

(* Each request counts in the calendar day it was made, be it the first or  *)
(* the last of the range; and with no group left out for the limit the      *)
(* totals of the groups add up to the costs of those days, whichever        *)
(* dimension they are summed by.                                            *)
AddsUp(costs) ==
  LET day(r) == r.at \div TicksPerDay
      meant == {r \in costs.log : /\ costs.start # NoDate => day(r) >= costs.start
                                  /\ costs.end # NoDate => day(r) <= costs.end}
  IN /\ \A g \in DOMAIN costs.items : costs.items[g] = TotalOf(meant, costs.dim, g)
     /\ Cardinality(DOMAIN costs.items) < costs.limit =>
          MapThenSumSet(LAMBDA g : costs.items[g], DOMAIN costs.items)
            = MapThenSumSet(LAMBDA r : r.cost, meant)

CostsAddUp == report.about = "costs" => AddsUp(report)

(* What operators are told is right.                                        *)
ReportsExact == DriftExact /\ CostsAddUp
===============================================================================
