--------------------------- MODULE CompletionEvents --------------------------
(* The events channel of one completion whose caller asked for it and whose *)
(* ModelConfig exposes it.  The model run (pydantic-ai, external) takes     *)
(* turns: it emits text, then calls tools in parallel, reports each result  *)
(* and takes the next turn.  A tool that succeeds hands its domain events   *)
(* to CompletionEventCollector.  When the answer is streamed, AgentRunner   *)
(* polls the collector after every agent event and the transport sends what *)
(* it yields; otherwise the whole answer, or the error, carries the events. *)
(*                                                                          *)
(* All of it runs on one event loop.  An agent event is handed over without *)
(* a buffer: the run does not go on until the runner has taken it, but      *)
(* tools that are running go on.                                            *)
EXTENDS Naturals, Sequences, SequencesExt

CONSTANTS
  Calls,      (* the tool calls of the completion                           *)
  Sizes,      (* serialized sizes of an event                               *)
  MaxBurst,   (* the most events the metadata of one result may hold        *)
  MaxEvents,  (* DEFAULT_MAX_EVENTS                                         *)
  MaxBytes    (* DEFAULT_MAX_EVENT_BYTES                                    *)

ASSUME EventsAssumption ==
  /\ Sizes \subseteq Nat \ {0}
  /\ MaxBurst \in Nat /\ MaxEvents \in Nat /\ MaxBytes \in Nat

VARIABLES
  streaming,  (* payload.stream                                             *)
  agent,      (* the model run: what it is doing, or how it ended           *)
  round,      (* the turn of the model run                                  *)
  call,       (* call[c]: where tool call c is                              *)
  slot,       (* the agent event the runner has not taken yet               *)
  recording,  (* sizes of the events the loop of record still has to see    *)
  offered,    (* the number of events given to record: a history variable   *)
  events,     (* _events                                                    *)
  bytes,      (* _bytes                                                     *)
  drained,    (* _drained                                                   *)
  suppressed, (* _suppressed                                                *)
  pc,         (* the point run_stream or the transport stands at            *)
  pending,    (* drained events not sent yet                                *)
  reply,      (* the turn of the text to send after them, or 0              *)
  mark,       (* the dropped_count to send after them, or 0                 *)
  received,   (* events the client has                                      *)
  replies,    (* text the client has: its turn and the events before it     *)
  markers     (* truncation markers the client has                          *)

runVars       == <<agent, round, call>>
collectorVars == <<recording, offered, events, bytes, suppressed>>
sendingVars   == <<pending, reply, mark>>
clientVars    == <<received, replies, markers>>
vars == <<streaming, runVars, slot, collectorVars, drained, pc, sendingVars, clientVars>>

(* An event: its place among all events recorded, the turn of the call that *)
(* produced it and its size.                                                *)
Event  == [at : Nat \ {0}, round : Nat \ {0}, size : Sizes]
Bursts == UNION {[1..n -> Sizes] : n \in 0..MaxBurst}

Init ==
  /\ streaming \in BOOLEAN
  /\ agent = "model"
  /\ round = 1
  /\ call = [c \in Calls |-> "free"]
  /\ slot = "empty"
  /\ recording = <<>>
  /\ offered = 0
  /\ events = <<>>
  /\ bytes = 0
  /\ drained = 0
  /\ suppressed = 0
  /\ pc = "wait"
  /\ pending = <<>>
  /\ reply = 0
  /\ mark = 0
  /\ received = <<>>
  /\ replies = {}
  /\ markers = <<>>
-----------------------------------------------------------------------------
(* CompletionEventCollector                                                *)

(* Faulty: one event more than the budget.                                 *)
ExhaustedOffByOne(size) ==
  Len(events) > MaxEvents \/ bytes + size > MaxBytes

Exhausted(size) == Len(events) >= MaxEvents \/ bytes + size > MaxBytes

NextEvent == [at |-> offered + 1, round |-> round, size |-> Head(recording)]

(* One event of the loop of record, which has no await: nothing else runs  *)
(* until it ends.                                                          *)
Retain ==
  /\ recording # <<>> /\ ~Exhausted(Head(recording))
  /\ events' = Append(events, NextEvent)
  /\ bytes' = bytes + Head(recording)
  /\ recording' = Tail(recording)
  /\ offered' = offered + 1
  /\ UNCHANGED <<streaming, runVars, slot, suppressed, drained, pc, sendingVars, clientVars>>

Suppress ==
  /\ recording # <<>> /\ Exhausted(Head(recording))
  /\ suppressed' = suppressed + 1
  /\ recording' = Tail(recording)
  /\ offered' = offered + 1
  /\ UNCHANGED <<streaming, runVars, slot, events, bytes, drained, pc, sendingVars, clientVars>>

Record == Retain \/ Suppress

Undrained == SubSeq(events, drained + 1, Len(events))
-----------------------------------------------------------------------------
(* The model run                                                           *)

(* An agent event goes to the runner, if one is watching.                  *)
Emit(e) == slot' = IF streaming THEN e ELSE "empty"

Say ==
  /\ agent = "model" /\ slot = "empty" /\ streaming
  /\ Emit("text")
  /\ UNCHANGED <<streaming, runVars, collectorVars, drained, pc, sendingVars, clientVars>>

CallTools(S) ==
  /\ agent = "model" /\ slot = "empty"
  /\ S # {} /\ \A c \in S : call[c] = "free"
  /\ call' = [c \in Calls |-> IF c \in S THEN "running" ELSE call[c]]
  /\ agent' = "tools"
  /\ UNCHANGED <<streaming, round, slot, collectorVars, drained, pc, sendingVars, clientVars>>

(* The call returns.  Its burst is empty when it failed, timed out, has    *)
(* invalid metadata or changed nothing.                                    *)
Return(c, burst) ==
  /\ call[c] = "running"
  /\ call' = [call EXCEPT ![c] = "returned"]
  /\ recording' = burst
  /\ UNCHANGED <<streaming, agent, round, slot, offered, events, bytes, suppressed,
                 drained, pc, sendingVars, clientVars>>

Report(c) ==
  /\ agent = "tools" /\ slot = "empty" /\ call[c] = "returned"
  /\ call' = [call EXCEPT ![c] = "reported"]
  /\ Emit("result")
  /\ UNCHANGED <<streaming, agent, round, collectorVars, drained, pc, sendingVars, clientVars>>

NextRound ==
  /\ agent = "tools" /\ slot = "empty"
  /\ \A c \in Calls : call[c] \notin {"running", "returned"}
  /\ agent' = "model"
  /\ round' = round + 1
  /\ UNCHANGED <<streaming, call, slot, collectorVars, drained, pc, sendingVars, clientVars>>

FinishRun ==
  /\ agent = "model" /\ slot = "empty"
  /\ agent' = "ended"
  /\ UNCHANGED <<streaming, round, call, slot, collectorVars, drained, pc, sendingVars, clientVars>>

(* Faulty: the calls that are running are left to run.                     *)
AbortLeavingCalls(end) ==
  /\ agent' = end
  /\ UNCHANGED <<streaming, round, call, slot, collectorVars, drained, sendingVars, clientVars>>

(* The run is over before its end: its calls are cancelled.                *)
Abort(end) ==
  /\ agent' = end
  /\ call' = [c \in Calls |-> IF call[c] = "running" THEN "cancelled" ELSE call[c]]
  /\ UNCHANGED <<streaming, round, slot, collectorVars, drained, sendingVars, clientVars>>

(* The provider fails, or a tool raises (its credential cannot be applied). *)
FailRun ==
  /\ agent \in {"model", "tools"} /\ slot = "empty"
  /\ Abort("failed")
  /\ UNCHANGED pc

AgentStep ==
  \/ Say \/ NextRound \/ FinishRun \/ FailRun
  \/ \E S \in SUBSET Calls : CallTools(S)
  \/ \E c \in Calls : Report(c) \/ \E burst \in Bursts : Return(c, burst)
-----------------------------------------------------------------------------
(* AgentRunner.run_stream and the transport                                *)

(* Faulty: takes the agent event without polling the collector.            *)
TakeUnpolled ==
  /\ streaming /\ pc = "wait" /\ slot # "empty"
  /\ reply' = IF slot = "text" THEN round ELSE 0
  /\ slot' = "empty"
  /\ pc' = "send"
  /\ UNCHANGED <<streaming, runVars, collectorVars, drained, pending, mark, clientVars>>

(* Faulty: drains again what it had drained.                               *)
TakeRedrained ==
  /\ streaming /\ pc = "wait" /\ slot # "empty"
  /\ pending' = events
  /\ drained' = Len(events)
  /\ reply' = IF slot = "text" THEN round ELSE 0
  /\ slot' = "empty"
  /\ pc' = "send"
  /\ UNCHANGED <<streaming, runVars, collectorVars, mark, clientVars>>

(* The next agent event: the events recorded since the last one are to be  *)
(* sent, then its text.                                                    *)
Take ==
  /\ streaming /\ pc = "wait" /\ slot # "empty"
  /\ pending' = Undrained
  /\ drained' = Len(events)
  /\ reply' = IF slot = "text" THEN round ELSE 0
  /\ slot' = "empty"
  /\ pc' = "send"
  /\ UNCHANGED <<streaming, runVars, collectorVars, mark, clientVars>>

SendEvent ==
  /\ pc \in {"send", "finish", "raise"} /\ pending # <<>>
  /\ received' = Append(received, Head(pending))
  /\ pending' = Tail(pending)
  /\ UNCHANGED <<streaming, runVars, slot, collectorVars, drained, pc, reply, mark, replies, markers>>

SendReply ==
  /\ pc = "send" /\ pending = <<>>
  /\ replies' = IF reply = 0 THEN replies
                ELSE replies \cup {[round |-> reply, after |-> Len(received)]}
  /\ reply' = 0
  /\ pc' = "wait"
  /\ UNCHANGED <<streaming, runVars, slot, collectorVars, drained, pending, mark, received, markers>>

(* Faulty: waits for the calls the run had started.                        *)
RunOverReported ==
  /\ agent \in {"ended", "failed"} /\ slot = "empty"
  /\ \A c \in Calls : call[c] \in {"free", "reported"}

RunOver == agent \in {"ended", "failed"} /\ slot = "empty"
LastPoint == IF agent = "ended" THEN "finish" ELSE "raise"

(* Faulty: on failure the events not drained yet are left.                 *)
TerminateUndrained ==
  /\ streaming /\ pc = "wait" /\ RunOver
  /\ pending' = IF agent = "ended" THEN Undrained ELSE <<>>
  /\ drained' = IF agent = "ended" THEN Len(events) ELSE drained
  /\ mark' = suppressed
  /\ pc' = LastPoint
  /\ UNCHANGED <<streaming, runVars, slot, collectorVars, reply, clientVars>>

(* Faulty: the first suppressed event is not counted.                      *)
TerminateUncounted ==
  /\ streaming /\ pc = "wait" /\ RunOver
  /\ pending' = Undrained
  /\ drained' = Len(events)
  /\ mark' = suppressed - 1
  /\ pc' = LastPoint
  /\ UNCHANGED <<streaming, runVars, slot, collectorVars, reply, clientVars>>

(* The run has ended or failed: _terminal_event_items.                     *)
Terminate ==
  /\ streaming /\ pc = "wait" /\ RunOver
  /\ pending' = Undrained
  /\ drained' = Len(events)
  /\ mark' = suppressed
  /\ pc' = LastPoint
  /\ UNCHANGED <<streaming, runVars, slot, collectorVars, reply, clientVars>>

(* Not streamed: the response, or CompletionRunError, is built from all    *)
(* events and the marker; sending them stands for writing its body.        *)
Answer ==
  /\ ~streaming /\ pc = "wait" /\ RunOver
  /\ pending' = events
  /\ mark' = suppressed
  /\ pc' = LastPoint
  /\ UNCHANGED <<streaming, runVars, slot, collectorVars, drained, reply, clientVars>>

SendMarker ==
  /\ pc \in {"finish", "raise"} /\ pending = <<>> /\ mark > 0
  /\ markers' = Append(markers, [dropped |-> mark, after |-> Len(received)])
  /\ mark' = 0
  /\ UNCHANGED <<streaming, runVars, slot, collectorVars, drained, pc, pending, reply, received, replies>>

(* [DONE], or the error of the run is raised again.                        *)
Close ==
  /\ pc \in {"finish", "raise"} /\ pending = <<>> /\ mark = 0
  /\ pc' = IF pc = "finish" THEN "done" ELSE "raised"
  /\ UNCHANGED <<streaming, runVars, slot, collectorVars, drained, sendingVars, clientVars>>

(* The client of a stream goes away: run_stream is left where it stands    *)
(* and does not drain (GeneratorExit is no Exception) ...                  *)
Disconnect ==
  /\ streaming /\ pc \in {"wait", "send", "finish", "raise"}
  /\ pc' = "closed"
  /\ UNCHANGED <<streaming, runVars, slot, collectorVars, drained, sendingVars, clientVars>>

(* ... and the run is cancelled as the generators are closed.              *)
CancelRun ==
  /\ pc = "closed" /\ agent \in {"model", "tools"}
  /\ Abort("cancelled")
  /\ UNCHANGED pc

RunnerStep ==
  Take \/ SendEvent \/ SendReply \/ Terminate \/ Answer \/ SendMarker \/ Close \/ CancelRun
-----------------------------------------------------------------------------
Next ==
  \/ Record
  \/ recording = <<>> /\ (AgentStep \/ RunnerStep \/ Disconnect)

Spec == Init /\ [][Next]_vars

(* The event loop runs what is ready, and a client reads what it is sent   *)
(* or goes away.  A tool call that returned is reported.  Nothing is said  *)
(* of how long a provider or a tool takes.                                 *)
Fairness ==
  /\ WF_vars(Record)
  /\ WF_vars(recording = <<>> /\ RunnerStep)
  /\ \A c \in Calls : WF_vars(recording = <<>> /\ Report(c))

FairSpec == Spec /\ Fairness
-----------------------------------------------------------------------------
(* Properties                                                              *)

Over == {"done", "raised", "closed"}

(* The variables hold what the collector, the run and the client can hold. *)
TypeOK ==
  /\ streaming \in BOOLEAN
  /\ agent \in {"model", "tools", "ended", "failed", "cancelled"}
  /\ round \in Nat \ {0}
  /\ call \in [Calls -> {"free", "running", "returned", "reported", "cancelled"}]
  /\ slot \in {"empty", "text", "result"}
  /\ recording \in Seq(Sizes)
  /\ events \in Seq(Event) /\ pending \in Seq(Event) /\ received \in Seq(Event)
  /\ offered \in Nat /\ bytes \in Nat /\ suppressed \in Nat
  /\ drained \in 0..Len(events)
  /\ pc \in {"wait", "send", "finish", "raise"} \cup Over
  /\ reply \in Nat /\ mark \in Nat
  /\ replies \subseteq [round : Nat \ {0}, after : Nat]
  /\ markers \in Seq([dropped : Nat \ {0}, after : Nat])

(* What a client receives stays within both budgets, whatever the sizes of *)
(* the events and the order they come in.                                  *)
WithinBudget ==
  /\ Len(received) <= MaxEvents
  /\ FoldSeq(LAMBDA e, n : e.size + n, 0, received) <= MaxBytes

(* What a client has received are the first retained events, each once and *)
(* in the order the tools returned them, however polls, sends and parallel *)
(* tool calls interleave.                                                  *)
DeliveredInOrder ==
  /\ Len(received) <= Len(events)
  /\ \A i \in 1..Len(received) : received[i] = events[i]
  /\ \A i, j \in 1..Len(events) : i < j => events[i].at < events[j].at

(* When the answer is over, on success or failure, every event a tool      *)
(* produced was sent or is counted by the one marker, after the last.      *)
Accounted ==
  pc \in {"done", "raised"} =>
    IF Len(received) = offered
    THEN markers = <<>>
    ELSE markers = <<[dropped |-> offered - Len(received), after |-> Len(received)]>>

(* Text the model wrote knowing a tool result comes after the events of    *)
(* that tool: a client that refreshes on an event does so before it reads  *)
(* that the change was made.                                               *)
EventsBeforeReply ==
  \A t \in replies : \A i \in 1..Len(events) : events[i].round < t.round => i <= t.after

(* Every retained event reaches the client of a stream that stays, even if *)
(* the model never answers again.                                          *)
EventsArrive ==
  \A i \in 1..MaxEvents :
    streaming /\ Len(events) >= i ~> Len(received) >= i \/ pc = "closed"

(* Once the run has ended or failed, the answer ends.                      *)
AnswerEnds == agent \in {"ended", "failed"} ~> pc \in Over

(* "Once a budget is exhausted, later events are suppressed": the retained *)
(* events are the first ones the tools produced.                           *)
FirstRetained == \A i \in 1..Len(events) : events[i].at = i

(* The collector, the runner and the transport keep what EventChannel      *)
(* promises.                                                               *)
Promise == INSTANCE EventChannel WITH
  received <- [i \in 1..Len(received) |-> received[i].at],
  state <- CASE pc \in {"done", "raised"} -> "complete"
             [] pc = "closed" -> "cut"
             [] OTHER -> "open"
ChannelKept == Promise!Spec
=============================================================================
