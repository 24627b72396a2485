------------------------------- MODULE UsageLog -------------------------------
(* The log of model requests: a message for each, which a worker            *)
(* acknowledges before it runs the task, and a row of completion_requests   *)
(* with its cost.  The broker takes a message once.                         *)
EXTENDS Naturals, FiniteSets, CompletionActors

CONSTANTS
  RequestLimit,  (* model requests a run may make (pydantic-ai)             *)
  TokenCounts,   (* what a model request may use                            *)
  MaxWaiting,    (* bound on the messages that wait                         *)
  MaxLosses      (* bound on the tasks that fail                            *)

ASSUME UsageLogAssumption ==
  RequestLimit \in Nat \ {0} /\ TokenCounts \subseteq Nat /\ MaxWaiting \in Nat /\ MaxLosses \in Nat

VARIABLES
  queue,         (* messages at the broker                                  *)
  rows,          (* the rows of completion_requests                         *)
  lost           (* messages whose task failed, which nothing records       *)

usageVars == <<queue, rows, lost>>

(* priced: genai_prices knows the model.                                    *)
Message == [run : Callers, attempt : 1 .. RequestLimit, user : Users,
            tokens : TokenCounts, priced : BOOLEAN]

(* Rows have ids of their own: copy tells those of one message apart.       *)
Logged  == [message : Message, cost : Nat, copy : Nat]

UsageInit == queue = {} /\ rows = {} /\ lost = {}

Enqueue(m) ==
  /\ Cardinality(queue) < MaxWaiting
  /\ queue' = queue \cup {m}
  /\ UNCHANGED <<rows, lost>>

(* estimate_cost, with a token for the unit: a price that is not known is 0. *)
Cost(m) == IF m.priced THEN m.tokens ELSE 0

RowsOf(m) == {row \in rows : row.message = m}

AddRow(m) == rows' = rows \cup {[message |-> m, cost |-> Cost(m), copy |-> Cardinality(RowsOf(m))]}

(* Faulty: a message is acknowledged when its task has ended, and delivered *)
(* again if the worker dies between the commit and that.                    *)
RecordThenAcknowledge(m) ==
  /\ m \in queue
  /\ AddRow(m)
  /\ queue' \in {queue, queue \ {m}}
  /\ UNCHANGED lost

Record(m) ==
  /\ m \in queue
  /\ AddRow(m)
  /\ queue' = queue \ {m}
  /\ UNCHANGED lost

(* The database fails or the worker dies: the task is not retried.          *)
LoseUsage(m) ==
  /\ m \in queue /\ Cardinality(lost) < MaxLosses
  /\ queue' = queue \ {m} /\ lost' = lost \cup {m}
  /\ UNCHANGED rows

UsageTypeOK == queue \subseteq Message /\ lost \subseteq Message /\ rows \subseteq Logged
=============================================================================
