----------------------- MODULE CompletionEventsProofs ------------------------
(***************************************************************************)
(* Proofs about CompletionEvents for every set of tool calls, all sizes of *)
(* events and results, and all budgets.                                    *)
(***************************************************************************)
EXTENDS CompletionEvents, SumLemmas, SequenceTheorems, TLAPS

(***************************************************************************)
(* Type correctness.                                                       *)
(***************************************************************************)

LEMMA BurstType == ASSUME NEW b \in Bursts PROVE b \in Seq(Sizes)
<1>1. PICK n \in 0..MaxBurst : b \in [1..n -> Sizes]
  BY DEF Bursts
<1>2. n \in Nat
  BY <1>1, EventsAssumption
<1> QED
  BY <1>1, <1>2, SeqDef

LEMMA NextEventType ==
  ASSUME TypeOK, recording # <<>>
  PROVE  /\ NextEvent \in Event /\ Head(recording) \in Sizes /\ Head(recording) \in Nat
         /\ Tail(recording) \in Seq(Sizes)
<1>1. Head(recording) \in Sizes /\ Tail(recording) \in Seq(Sizes)
  BY HeadTailProperties DEF TypeOK
<1>2. Head(recording) \in Nat
  BY <1>1, EventsAssumption
<1>3. offered + 1 \in Nat \ {0} /\ round \in Nat \ {0}
  BY DEF TypeOK
<1> QED
  BY <1>1, <1>2, <1>3 DEF NextEvent, Event

LEMMA UndrainedType ==
  ASSUME TypeOK
  PROVE  /\ Undrained \in Seq(Event)
         /\ Len(Undrained) = Len(events) - drained
         /\ \A i \in 1 .. Len(Undrained) : Undrained[i] = events[drained + i]
<1>1. events \in Seq(Event) /\ drained \in 0 .. Len(events) /\ Len(events) \in Nat
  BY LenProperties DEF TypeOK
<1>2. \A i \in drained + 1 .. Len(events) : events[i] \in Event
  BY <1>1, ElementOfSeq
<1>3. /\ Undrained \in Seq(Event)
      /\ Len(Undrained) = IF drained + 1 <= Len(events) THEN Len(events) - (drained + 1) + 1 ELSE 0
      /\ \A i \in 1 .. Len(events) - (drained + 1) + 1 : Undrained[i] = events[drained + 1 + i - 1]
  BY <1>1, <1>2, SubSeqProperties DEF Undrained
<1>4. Len(Undrained) = Len(events) - drained
  BY <1>1, <1>3
<1>5. \A i \in 1 .. Len(Undrained) : Undrained[i] = events[drained + i]
  BY <1>1, <1>3, <1>4
<1> QED
  BY <1>3, <1>4, <1>5

LEMMA CollectorType ==
  ASSUME TypeOK, Record
  PROVE  TypeOK'
<1>1. CASE Retain
  <2>1. events' \in Seq(Event) /\ Len(events') = Len(events) + 1
    BY <1>1, NextEventType, AppendProperties DEF Retain, TypeOK
  <2>2. drained' \in 0 .. Len(events')
    BY <1>1, <2>1, LenProperties DEF Retain, TypeOK
  <2>3. recording' \in Seq(Sizes) /\ bytes' \in Nat /\ offered' \in Nat
    BY <1>1, NextEventType DEF Retain, TypeOK
  <2> QED
    BY <1>1, <2>1, <2>2, <2>3 DEF Retain, TypeOK, runVars, sendingVars, clientVars
<1>2. CASE Suppress
  BY <1>2, NextEventType DEF Suppress, TypeOK, runVars, sendingVars, clientVars
<1> QED
  BY <1>1, <1>2 DEF Record

LEMMA AgentType ==
  ASSUME TypeOK, AgentStep
  PROVE  TypeOK'
<1> USE DEF TypeOK, collectorVars, sendingVars, clientVars
<1>1. CASE Say
  BY <1>1 DEF Say, Emit, runVars
<1>2. CASE NextRound
  BY <1>2 DEF NextRound
<1>3. CASE FinishRun
  BY <1>3 DEF FinishRun
<1>4. CASE FailRun
  BY <1>4 DEF FailRun, Abort
<1>5. ASSUME NEW S \in SUBSET Calls, CallTools(S)
      PROVE  TypeOK'
  BY <1>5 DEF CallTools
<1>6. ASSUME NEW c \in Calls, Report(c)
      PROVE  TypeOK'
  BY <1>6 DEF Report, Emit
<1>7. ASSUME NEW c \in Calls, NEW b \in Bursts, Return(c, b)
      PROVE  TypeOK'
  BY <1>7, BurstType DEF Return
<1> QED
  BY <1>1, <1>2, <1>3, <1>4, <1>5, <1>6, <1>7 DEF AgentStep

LEMMA RunnerType ==
  ASSUME TypeOK, RunnerStep \/ Disconnect
  PROVE  TypeOK'
<1>0. Len(events) \in Nat /\ Len(received) \in Nat /\ \A n \in Nat : n \in 0 .. n
  BY LenProperties DEF TypeOK
<1>1. CASE Take
  BY <1>1, <1>0, UndrainedType DEF Take, TypeOK, runVars, collectorVars, clientVars
<1>2. CASE SendEvent
  <2>1. Head(pending) \in Event /\ Tail(pending) \in Seq(Event)
    BY <1>2, HeadTailProperties DEF SendEvent, TypeOK
  <2>2. received' \in Seq(Event)
    BY <1>2, <2>1, AppendProperties DEF SendEvent, TypeOK
  <2> QED
    BY <1>2, <2>1, <2>2 DEF SendEvent, TypeOK, runVars, collectorVars
<1>3. CASE SendReply
  BY <1>3, <1>0 DEF SendReply, TypeOK, runVars, collectorVars
<1>4. CASE Terminate
  BY <1>4, <1>0, UndrainedType DEF Terminate, LastPoint, TypeOK, runVars, collectorVars, clientVars
<1>5. CASE Answer
  BY <1>5 DEF Answer, LastPoint, TypeOK, runVars, collectorVars, clientVars
<1>6. CASE SendMarker
  <2>1. [dropped |-> mark, after |-> Len(received)] \in [dropped : Nat \ {0}, after : Nat]
    BY <1>6, <1>0 DEF SendMarker, TypeOK
  <2>2. markers' \in Seq([dropped : Nat \ {0}, after : Nat])
    BY <1>6, <2>1, AppendProperties DEF SendMarker, TypeOK
  <2> QED
    BY <1>6, <2>2 DEF SendMarker, TypeOK, runVars, collectorVars
<1>7. CASE Close \/ Disconnect
  BY <1>7 DEF Close, Disconnect, TypeOK, Over, runVars, collectorVars, sendingVars, clientVars
<1>8. CASE CancelRun
  BY <1>8 DEF CancelRun, Abort, TypeOK, collectorVars, sendingVars, clientVars
<1> QED
  BY <1>1, <1>2, <1>3, <1>4, <1>5, <1>6, <1>7, <1>8 DEF RunnerStep

(* The variables keep the types of what they stand for.                    *)
THEOREM TypeCorrect == Spec => []TypeOK
<1>1. Init => TypeOK
  <2> SUFFICES ASSUME Init PROVE TypeOK
    OBVIOUS
  <2>1. \A S : <<>> \in Seq(S)
    BY EmptySeq
  <2>2. drained \in 0 .. Len(events)
    BY EmptySeq DEF Init
  <2> QED
    BY <2>1, <2>2 DEF Init, TypeOK
<1>2. TypeOK /\ [Next]_vars => TypeOK'
  <2>1. TypeOK /\ UNCHANGED vars => TypeOK'
    BY DEF TypeOK, vars, runVars, collectorVars, sendingVars, clientVars
  <2> QED
    BY <2>1, CollectorType, AgentType, RunnerType DEF Next
<1> QED
  BY <1>1, <1>2, PTL DEF Spec

(***************************************************************************)
(* What the collector holds: the events are numbered as they came, none is *)
(* of a later turn than the present one, and each event it was given was   *)
(* retained or is counted.  Nothing else writes to it.                     *)
(***************************************************************************)

Collected ==
  /\ \A i \in 1 .. Len(events) : events[i].at <= offered /\ events[i].round <= round
  /\ \A i, j \in 1 .. Len(events) : i < j => events[i].at < events[j].at
  /\ Len(events) + suppressed = offered
  /\ Len(events) <= MaxEvents

LEMMA CollectorSteps ==
  ASSUME [Next]_vars
  PROVE  \/ Retain
         \/ Suppress
         \/ UNCHANGED collectorVars /\ NextRound
         \/ UNCHANGED <<events, offered, suppressed, bytes, round>>
BY DEF Next, vars, Record, AgentStep, RunnerStep, Say, CallTools, Return, Report, NextRound,
       FinishRun, FailRun, Abort, Take, SendEvent, SendReply, Terminate, Answer, SendMarker,
       Close, Disconnect, CancelRun, collectorVars, runVars

LEMMA RetainAppends ==
  ASSUME TypeOK, Retain
  PROVE  /\ Len(events') = Len(events) + 1 /\ Len(events) \in Nat
         /\ \A i \in 1 .. Len(events) : events'[i] = events[i]
         /\ events'[Len(events) + 1] = NextEvent
BY NextEventType, AppendProperties, LenProperties DEF Retain, TypeOK

LEMMA CollectedStep ==
  ASSUME TypeOK, Collected, [Next]_vars
  PROVE  Collected'
<1>0. /\ Len(events) \in Nat /\ offered \in Nat /\ round \in Nat
      /\ \A i \in 1 .. Len(events) : events[i].at \in Nat /\ events[i].round \in Nat
  <2>1. events \in Seq(Event) /\ offered \in Nat /\ round \in Nat
    BY DEF TypeOK
  <2>2. \A i \in 1 .. Len(events) : events[i] \in Event
    BY <2>1, ElementOfSeq
  <2>3. \A e \in Event : e.at \in Nat /\ e.round \in Nat
    BY DEF Event
  <2> QED
    BY <2>1, <2>2, <2>3, LenProperties
<1>1. CASE Retain
  <2>1. offered' = offered + 1 /\ round' = round /\ suppressed' = suppressed
    BY <1>1 DEF Retain, runVars
  <2>2. NextEvent.at = offered + 1 /\ NextEvent.round = round
    BY DEF NextEvent
  <2>3. Len(events) < MaxEvents
    BY <1>0, <1>1, EventsAssumption DEF Retain, Exhausted
  <2>4. \A i \in 1 .. Len(events') :
           \/ i \in 1 .. Len(events) /\ events'[i] = events[i]
           \/ i = Len(events) + 1 /\ events'[i] = NextEvent
    BY <1>0, <1>1, RetainAppends
  <2>5. ASSUME NEW i \in 1 .. Len(events')
        PROVE  events'[i].at <= offered' /\ events'[i].round <= round'
    <3>1. CASE i \in 1 .. Len(events) /\ events'[i] = events[i]
      <4>1. events[i].at <= offered /\ events[i].round <= round
        BY <3>1 DEF Collected
      <4> QED
        BY <1>0, <2>1, <3>1, <4>1
    <3>2. CASE events'[i] = NextEvent
      BY <1>0, <2>1, <2>2, <3>2
    <3> QED
      BY <2>4, <3>1, <3>2
  <2>6. ASSUME NEW i \in 1 .. Len(events'), NEW j \in 1 .. Len(events'), i < j
        PROVE  events'[i].at < events'[j].at
    <3>1. i \in 1 .. Len(events) /\ events'[i] = events[i]
      BY <1>0, <1>1, <2>4, <2>6, RetainAppends
    <3>2. CASE j \in 1 .. Len(events) /\ events'[j] = events[j]
      BY <2>6, <3>1, <3>2 DEF Collected
    <3>3. CASE events'[j] = NextEvent
      <4>1. events[i].at <= offered
        BY <3>1 DEF Collected
      <4> QED
        BY <1>0, <2>2, <3>1, <3>3, <4>1
    <3> QED
      BY <2>4, <3>2, <3>3
  <2>7. Len(events') + suppressed' = offered' /\ Len(events') <= MaxEvents
    BY <1>0, <1>1, <2>1, <2>3, RetainAppends, EventsAssumption DEF Collected, TypeOK
  <2> QED
    BY <2>5, <2>6, <2>7 DEF Collected
<1>2. CASE Suppress
  BY <1>0, <1>2 DEF Suppress, Collected, TypeOK, runVars
<1>3. CASE UNCHANGED collectorVars /\ NextRound
  <2>1. \A n \in Nat : n <= round => n <= round'
    BY <1>3 DEF NextRound, TypeOK
  <2> QED
    BY <1>0, <1>3, <2>1 DEF Collected, collectorVars
<1>4. CASE UNCHANGED <<events, offered, suppressed, bytes, round>>
  BY <1>4 DEF Collected
<1> QED
  BY <1>1, <1>2, <1>3, <1>4, CollectorSteps

(***************************************************************************)
(* Tools run and events are recorded only while the model run is calling   *)
(* tools, so nothing comes in once it is over; and an answer is brought to *)
(* its end, and a marker sent, only once it is.                            *)
(***************************************************************************)

Quiet ==
  /\ agent \in {"model", "ended", "failed"} =>
       recording = <<>> /\ \A c \in Calls : call[c] # "running"
  /\ pc \in {"finish", "raise", "done", "raised"} \/ markers # <<>> =>
       agent \in {"ended", "failed"}
  /\ ~streaming => pc \notin {"send", "closed"}
  /\ agent = "cancelled" => pc = "closed"

LEMMA QuietStep ==
  ASSUME TypeOK, Quiet, [Next]_vars
  PROVE  Quiet'
<1> USE DEF Quiet, TypeOK, runVars, collectorVars, sendingVars, clientVars
<1>1. CASE UNCHANGED vars
  BY <1>1 DEF vars
<1>2. CASE Record
  BY <1>2 DEF Record, Retain, Suppress
<1>3. CASE recording = <<>> /\ AgentStep
  <2>1. CASE Say \/ NextRound \/ FinishRun
    BY <1>3, <2>1 DEF Say, NextRound, FinishRun
  <2>2. CASE FailRun
    BY <1>3, <2>2 DEF FailRun, Abort
  <2>3. ASSUME NEW S \in SUBSET Calls, CallTools(S)
        PROVE  Quiet'
    BY <1>3, <2>3 DEF CallTools
  <2>4. ASSUME NEW c \in Calls, Report(c)
        PROVE  Quiet'
    BY <1>3, <2>4 DEF Report
  <2>5. ASSUME NEW c \in Calls, NEW b \in Bursts, Return(c, b)
        PROVE  Quiet'
    BY <1>3, <2>5 DEF Return
  <2> QED
    BY <1>3, <2>1, <2>2, <2>3, <2>4, <2>5 DEF AgentStep
<1>4. CASE recording = <<>> /\ (RunnerStep \/ Disconnect)
  <2>1. CASE Take \/ SendEvent \/ SendReply
    BY <1>4, <2>1 DEF Take, SendEvent, SendReply
  <2>2. CASE Terminate \/ Answer
    BY <1>4, <2>2 DEF Terminate, Answer, RunOver, LastPoint
  <2>3. CASE SendMarker \/ Close \/ Disconnect
    BY <1>4, <2>3 DEF SendMarker, Close, Disconnect
  <2>4. CASE CancelRun
    BY <1>4, <2>4 DEF CancelRun, Abort
  <2> QED
    BY <1>4, <2>1, <2>2, <2>3, <2>4 DEF RunnerStep
<1> QED
  BY <1>1, <1>2, <1>3, <1>4 DEF Next

(***************************************************************************)
(* What was handed to the runner, sent or still to be sent, are the first  *)
(* retained events.                                                        *)
(***************************************************************************)

Handed == IF streaming THEN drained ELSE IF pc = "wait" THEN 0 ELSE Len(events)

InLine ==
  /\ Len(received) + Len(pending) = Handed
  /\ \A i \in 1 .. Len(received) : received[i] = events[i]
  /\ \A i \in 1 .. Len(pending) : pending[i] = events[Len(received) + i]
  /\ pc = "wait" => pending = <<>>

LEMMA LineSteps ==
  ASSUME [Next]_vars
  PROVE  \/ Retain \/ Take \/ SendEvent \/ SendReply \/ Terminate \/ Answer \/ Close \/ Disconnect
         \/ UNCHANGED <<streaming, received, pending, drained, events, pc>>
BY DEF Next, vars, Record, AgentStep, RunnerStep, Suppress, Say, CallTools, Return, Report,
       NextRound, FinishRun, FailRun, Abort, SendMarker, CancelRun, collectorVars, runVars,
       sendingVars, clientVars

LEMMA HandedType ==
  ASSUME TypeOK
  PROVE  /\ Handed \in 0 .. Len(events) /\ Len(events) \in Nat
         /\ Len(received) \in Nat /\ Len(pending) \in Nat
BY LenProperties DEF TypeOK, Handed

(* Retain changes neither what was handed over nor the events before it.   *)
LEMMA RetainLine ==
  ASSUME TypeOK, Quiet, InLine, Retain
  PROVE  InLine'
<1>1. UNCHANGED <<streaming, drained, pc, pending, received>>
  BY DEF Retain, sendingVars, clientVars
<1>2. pc = "wait" \/ streaming
  BY DEF Retain, Quiet, TypeOK, Over
<1>3. Handed' = Handed
  BY <1>1, <1>2 DEF Handed
<1>4. \A i \in 1 .. Len(events) : events'[i] = events[i]
  BY RetainAppends
<1>5. \A i \in 1 .. Len(received) : i \in 1 .. Len(events)
  BY HandedType DEF InLine
<1>6. \A i \in 1 .. Len(pending) : Len(received) + i \in 1 .. Len(events)
  BY HandedType DEF InLine
<1> QED
  BY <1>1, <1>3, <1>4, <1>5, <1>6 DEF InLine

(* A drain hands over all the rest.                                        *)
LEMMA DrainLine ==
  ASSUME TypeOK, InLine, streaming, pc = "wait",
         UNCHANGED <<streaming, received, events>>,
         pending' = Undrained, drained' = Len(events), pc' # "wait"
  PROVE  InLine' /\ Handed' = Len(events')
<1>1. Len(received) = drained
  <2>1. pending = <<>> /\ Handed = drained
    BY DEF InLine, Handed
  <2> QED
    BY <2>1, HandedType, EmptySeq DEF InLine
<1>2. Handed' = Len(events)
  BY DEF Handed
<1>3. Len(pending') = Len(events) - drained
  BY UndrainedType
<1>4. \A i \in 1 .. Len(pending') : pending'[i] = events[Len(received) + i]
  BY <1>1, UndrainedType
<1>5. Len(received') + Len(pending') = Handed'
  BY <1>1, <1>2, <1>3, HandedType
<1> QED
  BY <1>2, <1>4, <1>5 DEF InLine

LEMMA SendLine ==
  ASSUME TypeOK, InLine, SendEvent
  PROVE  /\ InLine'
         /\ Len(received') = Len(received) + 1
         /\ received' = Append(received, events[Len(received) + 1])
         /\ Len(received) + 1 \in 1 .. Len(events)
<1>0. pending \in Seq(Event) /\ received \in Seq(Event) /\ pending # <<>>
  BY DEF SendEvent, TypeOK
<1>1. /\ Head(pending) \in Event
      /\ Len(Tail(pending)) = Len(pending) - 1
      /\ \A i \in 1 .. Len(Tail(pending)) : Tail(pending)[i] = pending[i + 1]
  BY <1>0, HeadTailProperties
<1>2. Len(pending) \in Nat \ {0}
  BY <1>0, EmptySeq
<1>3. Head(pending) = pending[1]
  BY <1>0
<1>4. pending[1] = events[Len(received) + 1]
  BY <1>2 DEF InLine
<1>5. /\ received' = Append(received, Head(pending)) /\ pending' = Tail(pending)
      /\ UNCHANGED <<streaming, events, drained, pc>> /\ pc # "wait"
  BY DEF SendEvent, collectorVars
<1>6. /\ Len(received') = Len(received) + 1
      /\ \A i \in 1 .. Len(received) : received'[i] = received[i]
      /\ received'[Len(received) + 1] = Head(pending)
  BY <1>0, <1>1, <1>5, AppendProperties
<1>7. Len(received) + 1 \in 1 .. Len(events)
  BY <1>2, HandedType DEF InLine
<1>8. Handed' = Handed
  BY <1>5 DEF Handed
<1>9. Len(received') + Len(pending') = Handed'
  BY <1>1, <1>2, <1>5, <1>6, <1>8, HandedType DEF InLine
<1>10. ASSUME NEW i \in 1 .. Len(received')
       PROVE  received'[i] = events'[i]
  <2>1. CASE i \in 1 .. Len(received)
    BY <1>5, <1>6, <2>1 DEF InLine
  <2>2. CASE i = Len(received) + 1
    BY <1>3, <1>4, <1>5, <1>6, <2>2
  <2> QED
    BY <1>6, <2>1, <2>2, HandedType
<1>11. ASSUME NEW i \in 1 .. Len(pending')
       PROVE  pending'[i] = events'[Len(received') + i]
  <2>1. i + 1 \in 1 .. Len(pending) /\ i \in 1 .. Len(Tail(pending))
    BY <1>1, <1>2, <1>5
  <2>2. pending'[i] = pending[i + 1]
    BY <1>1, <1>5, <2>1
  <2>3. pending[i + 1] = events[Len(received) + (i + 1)]
    BY <2>1 DEF InLine
  <2>4. Len(received) + (i + 1) = Len(received') + i
    BY <1>6, HandedType
  <2> QED
    BY <1>5, <2>2, <2>3, <2>4
<1> QED
  BY <1>3, <1>4, <1>5, <1>6, <1>7, <1>9, <1>10, <1>11 DEF InLine

LEMMA LineStep ==
  ASSUME TypeOK, Quiet, InLine, [Next]_vars
  PROVE  InLine'
<1> USE DEF runVars, collectorVars, clientVars, sendingVars
<1>1. CASE Take
  BY <1>1, DrainLine DEF Take
<1>2. CASE Terminate
  BY <1>2, DrainLine DEF Terminate, LastPoint
<1>3. CASE SendReply
  BY <1>3 DEF SendReply, InLine, Handed, Quiet
<1>4. CASE Answer
  <2>1. received = <<>> /\ pending = <<>> /\ Len(received) = 0
    <3>1. Handed = 0 /\ pending = <<>>
      BY <1>4 DEF Answer, InLine, Handed
    <3>2. Len(received) = 0
      BY <3>1, HandedType DEF InLine
    <3>3. received \in Seq(Event)
      BY DEF TypeOK
    <3> QED
      BY <3>1, <3>2, <3>3, EmptySeq
  <2>2. /\ pending' = events /\ UNCHANGED <<received, events, streaming>> /\ ~streaming
        /\ pc' # "wait"
    BY <1>4 DEF Answer, LastPoint
  <2>3. Handed' = Len(events)
    BY <2>2 DEF Handed
  <2>4. \A i \in 1 .. Len(events) : Len(received) + i = i
    BY <2>1
  <2> QED
    BY <2>1, <2>2, <2>3, <2>4, HandedType DEF InLine
<1>5. CASE Close \/ Disconnect
  <2>1. UNCHANGED <<streaming, received, pending, drained, events>> /\ pc' # "wait"
    BY <1>5 DEF Close, Disconnect
  <2>2. streaming \/ pc # "wait"
    BY <1>5 DEF Close, Disconnect
  <2>3. Handed' = Handed
    BY <2>1, <2>2 DEF Handed
  <2> QED
    BY <2>1, <2>3 DEF InLine
<1>6. CASE UNCHANGED <<streaming, received, pending, drained, events, pc>>
  BY <1>6 DEF InLine, Handed
<1> QED
  BY <1>1, <1>2, <1>3, <1>4, <1>5, <1>6, RetainLine, SendLine, LineSteps

(***************************************************************************)
(* The end of an answer: all retained events were handed over, and the     *)
(* marker is still to be sent or was sent after the last of them.          *)
(***************************************************************************)

FullMarker == <<[dropped |-> suppressed, after |-> Len(received)]>>

Ending ==
  /\ pc \in {"wait", "send"} => mark = 0 /\ markers = <<>>
  /\ pc \in {"finish", "raise"} =>
       /\ Handed = Len(events)
       /\ \/ mark = suppressed /\ markers = <<>>
          \/ mark = 0 /\ suppressed > 0 /\ pending = <<>> /\ markers = FullMarker
  /\ pc \in {"done", "raised"} =>
       /\ Handed = Len(events) /\ pending = <<>>
       /\ \/ suppressed = 0 /\ markers = <<>>
          \/ suppressed > 0 /\ markers = FullMarker

LEMMA EndingSteps ==
  ASSUME TypeOK, Quiet, [Next]_vars
  PROVE  \/ pc \in {"wait", "send", "closed"} /\ pc' = pc /\ UNCHANGED <<mark, markers>>
         \/ SendEvent \/ Take \/ SendReply \/ Terminate \/ Answer \/ SendMarker \/ Close \/ Disconnect
         \/ UNCHANGED <<pc, mark, markers, pending, received, suppressed, events, drained, streaming>>
<1> USE DEF vars, Quiet, TypeOK, runVars, collectorVars, sendingVars, clientVars
<1>1. CASE Record
  BY <1>1 DEF Record, Retain, Suppress, Over
<1>2. CASE AgentStep
  BY <1>2 DEF AgentStep, Say, CallTools, Return, Report, NextRound, FinishRun, FailRun, Abort
<1>3. CASE CancelRun
  BY <1>3 DEF CancelRun, Abort
<1> QED
  BY <1>1, <1>2, <1>3 DEF Next, RunnerStep

LEMMA EndingStep ==
  ASSUME TypeOK, Quiet, InLine, Ending, [Next]_vars
  PROVE  Ending'
<1> USE DEF runVars, collectorVars, clientVars, sendingVars
<1>1. CASE pc \in {"wait", "send", "closed"} /\ pc' = pc /\ UNCHANGED <<mark, markers>>
  BY <1>1 DEF Ending
<1>2. CASE Take \/ SendReply
  BY <1>2 DEF Take, SendReply, Ending
<1>3. CASE SendEvent
  <2>1. Handed' = Handed /\ pending # <<>>
    BY <1>3 DEF SendEvent, Handed
  <2> QED
    BY <1>3, <2>1 DEF SendEvent, Ending
<1>4. CASE Terminate
  <2>1. Handed' = Len(events') /\ pc' \in {"finish", "raise"}
    BY <1>4, DrainLine DEF Terminate, LastPoint
  <2> QED
    BY <1>4, <2>1 DEF Terminate, Ending
<1>5. CASE Answer
  <2>1. Handed' = Len(events') /\ pc' \in {"finish", "raise"}
    BY <1>5 DEF Answer, LastPoint, Handed
  <2> QED
    BY <1>5, <2>1 DEF Answer, Ending
<1>6. CASE SendMarker
  <2>1. Handed' = Handed
    BY <1>6 DEF SendMarker, Handed
  <2>2. mark = suppressed /\ markers = <<>> /\ mark > 0
    BY <1>6 DEF SendMarker, Ending
  <2>3. Append(<<>>, [dropped |-> mark, after |-> Len(received)]) =
          <<[dropped |-> mark, after |-> Len(received)]>>
    OBVIOUS
  <2>4. markers' = FullMarker'
    BY <1>6, <2>2, <2>3 DEF SendMarker, FullMarker
  <2> QED
    BY <1>6, <2>1, <2>2, <2>4 DEF SendMarker, Ending
<1>7. CASE Close
  <2>1. Handed' = Handed /\ pc \in {"finish", "raise"} /\ pc' \in {"done", "raised"}
    BY <1>7 DEF Close, Handed
  <2>2. UNCHANGED <<pending, markers, suppressed, events, received>> /\ pending = <<>> /\ mark = 0
    BY <1>7 DEF Close
  <2>3. FullMarker' = FullMarker
    BY <2>2 DEF FullMarker
  <2>4. \/ suppressed = 0 /\ markers = <<>>
        \/ suppressed > 0 /\ markers = FullMarker
    BY <2>1, <2>2 DEF Ending
  <2>5. Handed' = Len(events')
    BY <2>1, <2>2 DEF Ending
  <2> QED
    BY <2>1, <2>2, <2>3, <2>4, <2>5 DEF Ending
<1>8. CASE Disconnect
  BY <1>8 DEF Disconnect, Ending
<1>9. CASE UNCHANGED <<pc, mark, markers, pending, received, suppressed, events, drained, streaming>>
  BY <1>9 DEF Ending, FullMarker, Handed
<1> QED
  BY <1>1, <1>2, <1>3, <1>4, <1>5, <1>6, <1>7, <1>8, <1>9, EndingSteps

(***************************************************************************)
(* The invariant, and what it implies.                                     *)
(***************************************************************************)

IInv == TypeOK /\ Collected /\ Quiet /\ InLine /\ Ending

LEMMA InvariantHolds == Spec => []IInv
<1>1. Init => Collected /\ Quiet /\ InLine /\ Ending
  <2> SUFFICES ASSUME Init PROVE Collected /\ Quiet /\ InLine /\ Ending
    OBVIOUS
  <2>1. Len(events) = 0 /\ Len(received) = 0 /\ Len(pending) = 0
    BY DEF Init
  <2>2. Collected
    BY <2>1, EventsAssumption DEF Init, Collected
  <2>3. Quiet /\ Ending
    BY <2>1 DEF Init, Quiet, Ending
  <2>4. InLine
    BY <2>1 DEF Init, InLine, Handed
  <2> QED
    BY <2>2, <2>3, <2>4
<1>2. TypeOK /\ Collected /\ Quiet /\ InLine /\ Ending /\ [Next]_vars
        => Collected' /\ Quiet' /\ InLine' /\ Ending'
  BY CollectedStep, QuietStep, LineStep, EndingStep
<1> QED
  BY <1>1, <1>2, TypeCorrect, PTL DEF Spec, IInv

(* The client receives the first retained events, each once and in the     *)
(* order the tools returned them.                                          *)
THEOREM InOrder == Spec => []DeliveredInOrder
<1>1. IInv => DeliveredInOrder
  BY HandedType DEF IInv, DeliveredInOrder, InLine, Collected
<1> QED
  BY <1>1, InvariantHolds, PTL

(* An answer that is over accounts for every event a tool produced.        *)
THEOREM AccountedHolds == Spec => []Accounted
<1>1. IInv => Accounted
  <2> SUFFICES ASSUME IInv, pc \in {"done", "raised"}
               PROVE  IF Len(received) = offered THEN markers = <<>>
                      ELSE markers = <<[dropped |-> offered - Len(received), after |-> Len(received)]>>
    BY DEF Accounted
  <2>1. Len(received) = Len(events) /\ Len(events) \in Nat
    BY HandedType, EmptySeq DEF IInv, Ending, InLine
  <2>2. Len(events) + suppressed = offered /\ suppressed \in Nat /\ offered \in Nat
    BY DEF IInv, Collected, TypeOK
  <2>3. offered - Len(received) = suppressed
    BY <2>1, <2>2
  <2> QED
    BY <2>1, <2>2, <2>3 DEF IInv, Ending, FullMarker
<1> QED
  BY <1>1, InvariantHolds, PTL

(***************************************************************************)
(* Both budgets.  The collector counts what the events it holds weigh, so  *)
(* that a client, which has some of the first of them, has no more.        *)
(***************************************************************************)

SizeOf(s) == FoldSeq(LAMBDA e, n : e.size + n, 0, s)

SizesOf(s) == [i \in DOMAIN s |-> s[i].size]

SizeTotals(h, s) ==
  h = [T \in SUBSET DOMAIN s |->
         IF T = {} THEN 0 ELSE s[CHOOSE i \in T : TRUE].size + h[T \ {CHOOSE i \in T : TRUE}]]

(* The fold that WithinBudget is stated with is the sum of the sizes.      *)
LEMMA SizeFold ==
  ASSUME NEW s
  PROVE  SizeOf(s) = (CHOOSE h : SizeTotals(h, s))[DOMAIN s]
BY DEF SizeOf, SizeTotals, FoldSeq, FoldFunction, FoldFunctionOnSet, MapThenFoldSet

LEMMA SizeTotalsAre ==
  ASSUME NEW s, NEW h
  PROVE  SizeTotals(h, s) <=> Totals(h, SizesOf(s), DOMAIN s)
<1>1. \A T \in SUBSET DOMAIN s : T # {} => SizesOf(s)[First(T)] = s[First(T)].size
  BY FirstIn DEF SizesOf
<1> QED
  BY <1>1 DEF SizeTotals, Totals, TotalAt, First

LEMMA SizeIsTotal ==
  ASSUME NEW s \in Seq(Event)
  PROVE  SizeOf(s) = Total(SizesOf(s), 1 .. Len(s))
<1>0. DOMAIN s = 1 .. Len(s) /\ IsFiniteSet(DOMAIN s)
  BY LenProperties, FS_Interval
<1>1. \E h : SizeTotals(h, s)
  BY <1>0, TotalsExist, SizeTotalsAre
<1>2. Totals(CHOOSE h : SizeTotals(h, s), SizesOf(s), DOMAIN s)
  BY <1>1, SizeTotalsAre
<1>3. SizeOf(s) = Total(SizesOf(s), DOMAIN s)
  BY <1>0, <1>2, SizeFold, TotalOfSubset
<1> QED
  BY <1>0, <1>3

LEMMA SizesType ==
  ASSUME NEW s \in Seq(Event)
  PROVE  /\ DOMAIN s = 1 .. Len(s) /\ Len(s) \in Nat /\ IsFiniteSet(1 .. Len(s))
         /\ \A i \in 1 .. Len(s) : SizesOf(s)[i] = s[i].size /\ SizesOf(s)[i] \in Nat
<1>1. DOMAIN s = 1 .. Len(s) /\ Len(s) \in Nat
  BY LenProperties
<1>2. \A i \in 1 .. Len(s) : s[i] \in Event
  BY ElementOfSeq
<1>3. \A e \in Event : e.size \in Nat
  BY EventsAssumption DEF Event
<1> QED
  BY <1>1, <1>2, <1>3, FS_Interval DEF SizesOf

Weighed == bytes = Total(SizesOf(events), 1 .. Len(events)) /\ bytes <= MaxBytes

(* What an appended event adds to the sum is its size.                     *)
LEMMA SizeAppend ==
  ASSUME NEW s \in Seq(Event), NEW e \in Event
  PROVE  Total(SizesOf(Append(s, e)), 1 .. Len(Append(s, e))) = e.size + Total(SizesOf(s), 1 .. Len(s))
<1> DEFINE n == Len(s)
           t == Append(s, e)
<1>1. t \in Seq(Event) /\ Len(t) = n + 1 /\ t[n + 1] = e /\ \A i \in 1 .. n : t[i] = s[i]
  BY AppendProperties
<1> HIDE DEF t
<1>2. n \in Nat /\ IsFiniteSet(1 .. n) /\ 1 .. n + 1 = (1 .. n) \cup {n + 1} /\ n + 1 \notin 1 .. n
  BY SizesType
<1>3. /\ \A i \in 1 .. n + 1 : SizesOf(t)[i] \in Nat
      /\ SizesOf(t)[n + 1] = e.size
      /\ \A i \in 1 .. n : SizesOf(t)[i] = SizesOf(s)[i]
  BY <1>1, <1>2, SizesType
<1> HIDE DEF n
<1>4. Total(SizesOf(t), (1 .. n) \cup {n + 1}) = SizesOf(t)[n + 1] + Total(SizesOf(t), 1 .. n)
  BY <1>2, <1>3, TotalAdd
<1>5. Total(SizesOf(t), 1 .. n) = Total(SizesOf(s), 1 .. n)
  BY <1>2, <1>3, TotalSame
<1> QED
  BY <1>1, <1>2, <1>3, <1>4, <1>5 DEF n, t

LEMMA WeighedStep ==
  ASSUME TypeOK, Weighed, [Next]_vars
  PROVE  Weighed'
<1>1. CASE Retain
  <2>1. /\ events' = Append(events, NextEvent) /\ bytes' = bytes + Head(recording)
        /\ bytes + Head(recording) <= MaxBytes
    BY <1>1, NextEventType, EventsAssumption DEF Retain, Exhausted, TypeOK
  <2>2. NextEvent \in Event /\ NextEvent.size = Head(recording) /\ Head(recording) \in Nat
    BY <1>1, NextEventType DEF Retain, NextEvent
  <2>3. Total(SizesOf(events'), 1 .. Len(events')) = Head(recording) + Total(SizesOf(events), 1 .. Len(events))
    BY <2>1, <2>2, SizeAppend DEF TypeOK
  <2> QED
    BY <2>1, <2>2, <2>3 DEF Weighed, TypeOK
<1>2. CASE UNCHANGED <<events, bytes>>
  BY <1>2 DEF Weighed
<1>3. Retain \/ UNCHANGED <<events, bytes>>
  BY CollectorSteps DEF Suppress, collectorVars
<1> QED
  BY <1>1, <1>2, <1>3

(* No client receives more events, or more bytes of them, than the budgets *)
(* allow, whatever the sizes of the events and the order they come in.     *)
THEOREM WithinBudgetHolds == Spec => []WithinBudget
<1>1. Init => Weighed
  <2> SUFFICES ASSUME Init PROVE Weighed
    OBVIOUS
  <2>1. events = <<>> /\ Len(events) = 0 /\ bytes = 0
    BY DEF Init
  <2>2. 1 .. Len(events) = {}
    BY <2>1
  <2>3. Total(SizesOf(events), {}) = 0
    BY FS_EmptySet, TotalStep
  <2> QED
    BY <2>1, <2>2, <2>3, EventsAssumption DEF Weighed
<1>2. TypeOK /\ Weighed /\ [Next]_vars => Weighed'
  BY WeighedStep
<1>3. IInv /\ Weighed => WithinBudget
  <2> SUFFICES ASSUME IInv, Weighed PROVE WithinBudget
    OBVIOUS
  <2> DEFINE m == Len(received)
             n == Len(events)
  <2>1. received \in Seq(Event) /\ events \in Seq(Event) /\ m \in Nat /\ n \in Nat
    BY HandedType DEF IInv, TypeOK
  <2>2. m <= n /\ n <= MaxEvents /\ \A i \in 1 .. m : received[i] = events[i]
    BY HandedType DEF IInv, InLine, Collected
  <2>3. 1 .. m \in SUBSET (1 .. n) /\ IsFiniteSet(1 .. m) /\ IsFiniteSet(1 .. n)
    BY <2>1, <2>2, FS_Interval
  <2>4. \A i \in 1 .. m : SizesOf(received)[i] = SizesOf(events)[i]
    BY <2>1, <2>2, <2>3, SizesType
  <2>5. \A i \in 1 .. n : SizesOf(events)[i] \in Nat
    BY <2>1, SizesType
  <2>6. m <= MaxEvents
    BY <2>1, <2>2, EventsAssumption
  <2>7. SizeOf(received) = Total(SizesOf(received), 1 .. m)
    BY <2>1, SizeIsTotal
  <2> HIDE DEF m, n
  <2>8. Total(SizesOf(received), 1 .. m) = Total(SizesOf(events), 1 .. m)
    BY <2>3, <2>4, TotalSame
  <2>9. Total(SizesOf(events), 1 .. m) <= Total(SizesOf(events), 1 .. n)
    BY <2>3, <2>5, TotalMonotone
  <2>10. Total(SizesOf(events), 1 .. m) \in Nat /\ Total(SizesOf(events), 1 .. n) \in Nat
    BY <2>3, <2>5, TotalType
  <2>11. SizeOf(received) <= MaxBytes
    BY <2>7, <2>8, <2>9, <2>10, EventsAssumption DEF Weighed, n
  <2> QED
    BY <2>6, <2>11 DEF WithinBudget, SizeOf, m
<1> QED
  BY <1>1, <1>2, <1>3, InvariantHolds, PTL DEF Spec, IInv

(***************************************************************************)
(* The retained events are the first ones, as the collector's docstring    *)
(* has it, where a budget that is exhausted for one event is exhausted for *)
(* all: when events are of one size, or so small that MaxEvents of them    *)
(* fit.  Without that it is false.                                         *)
(***************************************************************************)

Fit(size) == (\A s \in Sizes : s <= size) /\ MaxEvents * size <= MaxBytes

ExhaustedForAll == (\A s, t \in Sizes : s = t) \/ \E size \in Nat : Fit(size)

Gapless ==
  /\ \A size \in Nat : Fit(size) => bytes <= Len(events) * size
  /\ suppressed > 0 => \A s \in Sizes : Exhausted(s)
  /\ FirstRetained

LEMMA RetainFits ==
  ASSUME TypeOK, Retain, NEW size \in Nat, Fit(size), bytes <= Len(events) * size
  PROVE  bytes' <= Len(events') * size
<1>1. Head(recording) \in Nat /\ Head(recording) <= size
  BY NextEventType DEF Retain, Fit
<1>2. bytes' = bytes + Head(recording) /\ bytes \in Nat
  BY DEF Retain, TypeOK
<1>3. Len(events) \in Nat /\ Len(events') = Len(events) + 1
  BY RetainAppends
<1>4. (Len(events) + 1) * size = Len(events) * size + size /\ Len(events) * size \in Nat
  BY <1>3
<1> QED
  BY <1>1, <1>2, <1>3, <1>4

LEMMA ExhaustedStays ==
  ASSUME TypeOK, ExhaustedForAll, NEW r \in Sizes, Exhausted(r),
         \A size \in Nat : Fit(size) => bytes <= Len(events) * size
  PROVE  \A s \in Sizes : Exhausted(s)
<1> TAKE s \in Sizes
<1>0. r \in Nat /\ s \in Nat /\ bytes \in Nat /\ Len(events) \in Nat
  BY EventsAssumption, LenProperties DEF TypeOK
<1>1. CASE r = s
  BY <1>1
<1>2. CASE \E size \in Nat : Fit(size)
  <2>1. PICK size \in Nat : Fit(size)
    BY <1>2
  <2>2. bytes <= Len(events) * size /\ r <= size /\ MaxEvents * size <= MaxBytes
    BY <2>1 DEF Fit
  <2>3. ASSUME Len(events) < MaxEvents
        PROVE  (Len(events) + 1) * size <= MaxEvents * size
    BY <1>0, <2>3, EventsAssumption
  <2>4. (Len(events) + 1) * size = Len(events) * size + size
    BY <1>0
  <2>5. Len(events) * size \in Nat /\ (Len(events) + 1) * size \in Nat /\ MaxEvents * size \in Nat
    BY <1>0, EventsAssumption
  <2>6. Len(events) >= MaxEvents
    BY <1>0, <2>2, <2>3, <2>4, <2>5, EventsAssumption DEF Exhausted
  <2> QED
    BY <2>6 DEF Exhausted
<1> QED
  BY <1>1, <1>2 DEF ExhaustedForAll

LEMMA GaplessStep ==
  ASSUME ExhaustedForAll, TypeOK, Collected, Gapless, [Next]_vars
  PROVE  Gapless'
<1>1. CASE Retain
  <2>1. Head(recording) \in Sizes /\ ~Exhausted(Head(recording)) /\ recording # <<>>
    BY <1>1, NextEventType DEF Retain
  <2>2. suppressed = 0 /\ suppressed' = 0
    BY <1>1, <2>1 DEF Gapless, Retain, TypeOK
  <2>3. \A size \in Nat : Fit(size) => bytes' <= Len(events') * size
    BY <1>1, RetainFits DEF Gapless
  <2>4. offered = Len(events) /\ NextEvent.at = Len(events) + 1
    BY <2>2, LenProperties DEF Collected, NextEvent, TypeOK
  <2>5. FirstRetained'
    BY <1>1, <2>4, RetainAppends DEF Gapless, FirstRetained
  <2> QED
    BY <2>2, <2>3, <2>5 DEF Gapless
<1>2. CASE Suppress
  <2>1. UNCHANGED <<events, bytes>> /\ Head(recording) \in Sizes /\ Exhausted(Head(recording))
    BY <1>2, NextEventType DEF Suppress
  <2>2. \A s \in Sizes : Exhausted(s)
    BY <2>1, ExhaustedStays DEF Gapless
  <2> QED
    BY <2>1, <2>2 DEF Gapless, Exhausted, FirstRetained
<1>3. CASE UNCHANGED <<events, bytes, suppressed>>
  BY <1>3 DEF Gapless, Exhausted, FirstRetained
<1>4. Retain \/ Suppress \/ UNCHANGED <<events, bytes, suppressed>>
  BY CollectorSteps DEF collectorVars
<1> QED
  BY <1>1, <1>2, <1>3, <1>4

(* Where a budget is exhausted for all events at once, the retained events *)
(* are the first ones the tools produced, and a client reads a prefix of   *)
(* the changes before the marker.                                          *)
THEOREM FirstRetainedHolds ==
  ASSUME ExhaustedForAll
  PROVE  Spec => []FirstRetained
<1>1. Init => Gapless
  <2> SUFFICES ASSUME Init PROVE Gapless
    OBVIOUS
  <2>1. Len(events) = 0 /\ bytes = 0 /\ suppressed = 0
    BY DEF Init
  <2> QED
    BY <2>1 DEF Gapless, FirstRetained
<1>2. IInv /\ Gapless /\ [Next]_vars => Gapless'
  BY GaplessStep DEF IInv
<1>3. Gapless => FirstRetained
  BY DEF Gapless
<1> QED
  BY <1>1, <1>2, <1>3, InvariantHolds, PTL DEF Spec

(***************************************************************************)
(* Text follows the events of the turns before it: when the runner takes   *)
(* text, all events of earlier turns have been recorded and are drained.   *)
(***************************************************************************)

Ordered ==
  /\ reply <= round
  /\ \A i \in 1 .. Len(events) : events[i].round < reply => i <= drained
  /\ \A t \in replies : t.round <= round

LEMMA OrderedSteps ==
  ASSUME [Next]_vars
  PROVE  \/ Retain \/ Take \/ SendReply \/ Terminate
         \/ NextRound /\ UNCHANGED <<reply, events, drained, replies>>
         \/ UNCHANGED <<round, reply, events, drained, replies>>
BY DEF Next, vars, Record, AgentStep, RunnerStep, Suppress, Say, CallTools, Return, Report,
       NextRound, FinishRun, FailRun, Abort, SendEvent, Answer, SendMarker, Close, Disconnect,
       CancelRun, collectorVars, runVars, sendingVars, clientVars

LEMMA OrderedStep ==
  ASSUME TypeOK, Quiet, InLine, Ordered, EventsBeforeReply, [Next]_vars
  PROVE  Ordered' /\ EventsBeforeReply'
<1>0. /\ round \in Nat \ {0} /\ reply \in Nat /\ Len(events) \in Nat /\ drained \in Nat
      /\ drained <= Len(events)
  BY HandedType DEF TypeOK
<1>1. CASE Retain
  <2>1. UNCHANGED <<round, reply, drained, replies>>
    BY <1>1 DEF Retain, runVars, sendingVars, clientVars
  <2>2. ASSUME NEW r \in Nat, r <= round, NEW i \in 1 .. Len(events'), events'[i].round < r
        PROVE  i \in 1 .. Len(events) /\ events[i].round < r
    <3>1. CASE i \in 1 .. Len(events)
      BY <1>1, <2>2, <3>1, RetainAppends
    <3>2. CASE i = Len(events) + 1
      BY <1>0, <1>1, <2>2, <3>2, RetainAppends DEF NextEvent
    <3> QED
      BY <1>0, <1>1, <3>1, <3>2, RetainAppends
  <2>3. Ordered'
    BY <1>0, <2>1, <2>2 DEF Ordered
  <2>4. \A t \in replies : t.round \in Nat
    BY DEF TypeOK
  <2>5. EventsBeforeReply'
    BY <2>1, <2>2, <2>4 DEF Ordered, EventsBeforeReply
  <2> QED
    BY <2>3, <2>5
<1>2. CASE Take
  BY <1>0, <1>2 DEF Take, Ordered, EventsBeforeReply, runVars, collectorVars, clientVars
<1>3. CASE SendReply
  <2>1. /\ streaming /\ pending = <<>> /\ reply' = 0
        /\ UNCHANGED <<round, events, drained>>
        /\ replies' = IF reply = 0 THEN replies
                      ELSE replies \cup {[round |-> reply, after |-> Len(received)]}
    BY <1>3 DEF SendReply, Quiet, runVars, collectorVars
  <2>2. Len(received) = drained
    BY <1>0, <2>1, HandedType, EmptySeq DEF InLine, Handed
  <2>3. \A i \in 1 .. Len(events) : events[i].round \in Nat
    <3>1. events \in Seq(Event)
      BY DEF TypeOK
    <3>2. \A i \in 1 .. Len(events) : events[i] \in Event
      BY <3>1, ElementOfSeq
    <3> QED
      BY <3>2 DEF Event
  <2>4. Ordered'
    BY <1>0, <2>1, <2>3 DEF Ordered
  <2> QED
    BY <2>1, <2>2, <2>4 DEF Ordered, EventsBeforeReply
<1>4. CASE Terminate
  BY <1>0, <1>4 DEF Terminate, Ordered, EventsBeforeReply, runVars, collectorVars, clientVars
<1>5. CASE NextRound /\ UNCHANGED <<reply, events, drained, replies>>
  <2>1. \A t \in replies : t.round \in Nat
    BY DEF TypeOK
  <2> QED
    BY <1>0, <1>5, <2>1 DEF NextRound, Ordered, EventsBeforeReply
<1>6. CASE UNCHANGED <<round, reply, events, drained, replies>>
  BY <1>6 DEF Ordered, EventsBeforeReply
<1> QED
  BY <1>1, <1>2, <1>3, <1>4, <1>5, <1>6, OrderedSteps

(* Text written with knowledge of a tool result comes after the events of  *)
(* that tool.                                                              *)
THEOREM BeforeReply == Spec => []EventsBeforeReply
<1>1. Init => Ordered /\ EventsBeforeReply
  <2> SUFFICES ASSUME Init PROVE Ordered /\ EventsBeforeReply
    OBVIOUS
  <2>1. Len(events) = 0
    BY DEF Init
  <2> QED
    BY <2>1 DEF Init, Ordered, EventsBeforeReply
<1>2. IInv /\ Ordered /\ EventsBeforeReply /\ [Next]_vars => Ordered' /\ EventsBeforeReply'
  BY OrderedStep DEF IInv
<1> QED
  BY <1>1, <1>2, InvariantHolds, PTL DEF Spec

(***************************************************************************)
(* The refinement of EventChannel.                                         *)
(***************************************************************************)

Ordinals == [i \in 1 .. Len(received) |-> received[i].at]
State == CASE pc \in {"done", "raised"} -> "complete"
           [] pc = "closed" -> "cut"
           [] OTHER -> "open"

LEMMA StateIs ==
  /\ pc \in {"wait", "send", "finish", "raise"} => State = "open"
  /\ pc \in {"done", "raised"} => State = "complete"
  /\ pc = "closed" => State = "cut"
BY DEF State

LEMMA OrdinalsType ==
  ASSUME TypeOK
  PROVE  Ordinals \in Seq(Nat) /\ Len(Ordinals) = Len(received)
<1>1. Len(received) \in Nat /\ received \in Seq(Event)
  BY HandedType DEF TypeOK
<1>2. \A i \in 1 .. Len(received) : received[i] \in Event
  BY <1>1, ElementOfSeq
<1>3. Ordinals \in [1 .. Len(received) -> Nat]
  BY <1>2 DEF Ordinals, Event
<1>4. Ordinals \in Seq(Nat)
  BY <1>1, <1>3, SeqDef
<1>5. DOMAIN Ordinals = 1 .. Len(Ordinals) /\ Len(Ordinals) \in Nat
  BY <1>4, LenProperties
<1>6. DOMAIN Ordinals = 1 .. Len(received)
  BY <1>3
<1> QED
  BY <1>1, <1>4, <1>5, <1>6

LEMMA RecordRefines ==
  ASSUME IInv, Record
  PROVE  Promise!Offer
<1>1. offered' = offered + 1 /\ UNCHANGED <<received, markers, pc>> /\ recording # <<>>
  BY DEF Record, Retain, Suppress, clientVars
<1>2. markers = <<>> /\ pc \notin {"done", "raised"}
  BY <1>1 DEF IInv, Quiet
<1> QED
  BY <1>1, <1>2 DEF Promise!Offer, State

LEMMA SendRefines ==
  ASSUME IInv, SendEvent
  PROVE  Promise!Deliver
<1> DEFINE k == Len(received) + 1
           n == events[k].at
<1>1. /\ received' = Append(received, events[k]) /\ k \in 1 .. Len(events)
      /\ Len(received') = k /\ Len(received) \in Nat
  BY SendLine, HandedType DEF IInv
<1>2. events[k] \in Event /\ received \in Seq(Event)
  BY <1>1, ElementOfSeq DEF IInv, TypeOK
<1>3. n \in 1 .. offered
  BY <1>1, <1>2 DEF IInv, Collected, Event, TypeOK
<1>4. \A i \in 1 .. Len(Ordinals) : Ordinals[i] < n
  <2> SUFFICES ASSUME NEW i \in 1 .. Len(received) PROVE received[i].at < n
    BY OrdinalsType DEF IInv, Ordinals
  <2>1. i \in 1 .. Len(events) /\ i < k /\ received[i] = events[i]
    BY <1>1, HandedType DEF IInv, InLine
  <2> QED
    BY <1>1, <2>1 DEF IInv, Collected
<1>5. Ordinals' = Append(Ordinals, n)
  <2>1. /\ \A i \in 1 .. Len(received) : received'[i] = received[i]
        /\ received'[k] = events[k]
    BY <1>1, <1>2, AppendProperties
  <2>2. TypeOK'
    BY RunnerType DEF IInv, RunnerStep
  <2>3. Ordinals' \in Seq(Nat) /\ Len(Ordinals') = k
    <3>1. TypeOK => Ordinals \in Seq(Nat) /\ Len(Ordinals) = Len(received)
      BY OrdinalsType
    <3>2. (TypeOK => Ordinals \in Seq(Nat) /\ Len(Ordinals) = Len(received))'
      BY OrdinalsType, PTL
    <3> QED
      BY <1>1, <2>2, <3>2
  <2>4. /\ Ordinals \in Seq(Nat) /\ Len(Ordinals) = Len(received) /\ n \in Nat
    BY <1>3, OrdinalsType DEF IInv, TypeOK
  <2>5. /\ Append(Ordinals, n) \in Seq(Nat) /\ Len(Append(Ordinals, n)) = k
        /\ \A i \in 1 .. Len(received) : Append(Ordinals, n)[i] = Ordinals[i]
        /\ Append(Ordinals, n)[k] = n
    BY <2>4, AppendProperties
  <2>6. ASSUME NEW i \in 1 .. k
        PROVE  Ordinals'[i] = Append(Ordinals, n)[i]
    <3>1. Ordinals'[i] = received'[i].at
      BY <1>1, <2>6 DEF Ordinals
    <3>2. CASE i = k
      BY <2>1, <2>5, <3>1, <3>2
    <3>3. CASE i \in 1 .. Len(received)
      BY <2>1, <2>5, <3>1, <3>3 DEF Ordinals
    <3> QED
      <4>1. i = k \/ i \in 1 .. Len(received)
        BY <1>1 DEF k
      <4> QED
        BY <3>2, <3>3, <4>1
  <2> QED
    BY <2>3, <2>5, <2>6, SeqEqual
<1>6. pending # <<>> /\ pc \in {"send", "finish", "raise"} /\ UNCHANGED <<offered, markers, pc>>
  BY DEF SendEvent, collectorVars
<1>7. markers = <<>>
  BY <1>6 DEF IInv, Ending
<1>8. State = "open" /\ State' = "open"
  BY <1>6 DEF State
<1> QED
  BY <1>3, <1>4, <1>5, <1>6, <1>7, <1>8 DEF Promise!Deliver, Ordinals, State

LEMMA MarkRefines ==
  ASSUME IInv, SendMarker
  PROVE  Promise!Mark
<1>1. /\ pc \in {"finish", "raise"} /\ pending = <<>> /\ mark > 0
      /\ markers' = Append(markers, [dropped |-> mark, after |-> Len(received)])
      /\ UNCHANGED <<offered, received, pc>>
  BY DEF SendMarker, collectorVars
<1>2. mark = suppressed /\ markers = <<>> /\ Handed = Len(events)
  BY <1>1 DEF IInv, Ending
<1>3. Len(received) = Len(events)
  BY <1>1, <1>2, HandedType, EmptySeq DEF IInv, InLine
<1>4. offered - Len(received) = mark /\ offered > Len(received)
  BY <1>1, <1>2, <1>3, HandedType DEF IInv, Collected, TypeOK
<1>5. State = "open" /\ State' = State
  BY <1>1 DEF State
<1>6. Append(<<>>, [dropped |-> mark, after |-> Len(received)]) =
        <<[dropped |-> mark, after |-> Len(received)]>>
  OBVIOUS
<1>7. markers' = <<[dropped |-> offered - Len(received), after |-> Len(received)]>>
  BY <1>1, <1>2, <1>4, <1>6
<1>8. Len(Ordinals) = Len(received) /\ Ordinals' = Ordinals
  BY <1>1, OrdinalsType DEF IInv, Ordinals
<1> QED
  BY <1>1, <1>2, <1>4, <1>5, <1>7, <1>8 DEF Promise!Mark, Ordinals, State

LEMMA CloseRefines ==
  ASSUME IInv, Close
  PROVE  Promise!Complete
<1>1. /\ pc \in {"finish", "raise"} /\ pc' \in {"done", "raised"}
      /\ pending = <<>> /\ mark = 0 /\ UNCHANGED <<offered, received, markers>>
  BY DEF Close, collectorVars, clientVars
<1>2. State = "open" /\ State' = "complete"
  BY <1>1 DEF State
<1>3. Handed = Len(events) /\ (suppressed = 0 \/ markers = FullMarker)
  BY <1>1 DEF IInv, Ending
<1>4. Len(received) = Len(events)
  BY <1>1, <1>3, HandedType, EmptySeq DEF IInv, InLine
<1>5. markers # <<>> \/ offered = Len(received)
  <2>1. suppressed = 0 => offered = Len(received)
    BY <1>4, HandedType DEF IInv, Collected, TypeOK
  <2>2. FullMarker # <<>>
    BY DEF FullMarker
  <2> QED
    BY <1>3, <2>1, <2>2
<1>6. Len(Ordinals) = Len(received) /\ Ordinals' = Ordinals
  BY <1>1, OrdinalsType DEF IInv, Ordinals
<1> QED
  BY <1>1, <1>2, <1>5, <1>6 DEF Promise!Complete, Ordinals, State

LEMMA ClientSteps ==
  ASSUME [Next]_vars
  PROVE  \/ Record \/ SendEvent \/ SendMarker \/ Close \/ Disconnect
         \/ UNCHANGED <<offered, received, markers>> /\
            (pc' = pc \/ (pc \in {"wait", "send"} /\ pc' \in {"wait", "send", "finish", "raise"}))
BY DEF Next, vars, AgentStep, RunnerStep, Say, CallTools, Return, Report, NextRound, FinishRun,
       FailRun, Abort, Take, SendReply, Terminate, LastPoint, Answer, CancelRun, collectorVars,
       runVars, sendingVars, clientVars

(* The collector, the runner and the transport together implement          *)
(* EventChannel.                                                           *)
THEOREM ChannelRefinement == Spec => ChannelKept
<1>1. Init => Promise!Init
  <2> SUFFICES ASSUME Init PROVE Promise!Init
    OBVIOUS
  <2>1. Len(received) = 0
    BY DEF Init
  <2>2. Ordinals = <<>>
    BY <2>1 DEF Ordinals
  <2>3. State = "open"
    BY DEF Init, State
  <2> QED
    BY <2>2, <2>3 DEF Init, Promise!Init, Ordinals, State
<1>2. IInv /\ [Next]_vars => [Promise!Next]_(Promise!vars)
  <2> SUFFICES ASSUME IInv, [Next]_vars PROVE [Promise!Next]_(Promise!vars)
    OBVIOUS
  <2>1. CASE Record \/ SendEvent \/ SendMarker \/ Close
    BY <2>1, RecordRefines, SendRefines, MarkRefines, CloseRefines DEF Promise!Next
  <2>2. CASE Disconnect
    <3>1. pc \in {"wait", "send", "finish", "raise"} /\ pc' = "closed"
          /\ UNCHANGED <<offered, received, markers>>
      BY <2>2 DEF Disconnect, collectorVars, clientVars
    <3>2. State = "open" /\ State' = "cut" /\ Ordinals' = Ordinals
      BY <3>1 DEF State, Ordinals
    <3>3. Promise!Cut
      BY <3>1, <3>2 DEF Promise!Cut, State, Ordinals
    <3> QED
      BY <3>3 DEF Promise!Next
  <2>3. CASE UNCHANGED <<offered, received, markers>> /\
             (pc' = pc \/ (pc \in {"wait", "send"} /\ pc' \in {"wait", "send", "finish", "raise"}))
    <3>1. State' = State /\ Ordinals' = Ordinals
      BY <2>3 DEF State, Ordinals
    <3> QED
      BY <2>3, <3>1 DEF Promise!vars, State, Ordinals
  <2> QED
    BY <2>1, <2>2, <2>3, ClientSteps
<1> QED
  BY <1>1, <1>2, InvariantHolds, PTL DEF Spec, ChannelKept, Promise!Spec
=============================================================================
