----------------------- MODULE KnowledgeIndexProofs ------------------------
(***************************************************************************)
(* Proofs about KnowledgeIndex for every set of documents, bodies, configs *)
(* and tasks and every number of workers; from the section that says so on,*)
(* for behaviours in which no two runs for one document are at a time      *)
(* where the code does not expect it.                                      *)
(***************************************************************************)
EXTENDS KnowledgeIndex, TLAPS

(***************************************************************************)
(* Type correctness: TypeOK is inductive by itself.                        *)
(***************************************************************************)

LEMMA GenerationType ==
  ASSUME NEW j \in Jobs, NEW d \in Docs, NEW c \in Contents, NEW k \in Configs
  PROVE  Generation(j, d, c, k) \subseteq Chunk
<1>1. Pieces[c][k] \in Nat
  BY ChunksAssumption
<1>2. ASSUME NEW n \in Nat
      PROVE  \A i \in 0 .. n - 1 : i \in Nat
  OBVIOUS
<1>3. \A i \in 0 .. Pieces[c][k] - 1 : i \in Nat
  BY <1>1, <1>2
<1>4. ASSUME NEW r \in Generation(j, d, c, k)
      PROVE  r \in Chunk
  <2>1. PICK i \in 0 .. Pieces[c][k] - 1 :
          r = [job |-> j, doc |-> d, content |-> c, config |-> k, index |-> i]
    BY <1>4 DEF Generation
  <2>2. i \in Nat
    BY <1>3, <2>1
  <2> QED
    BY <2>1, <2>2 DEF Chunk
<1> QED
  BY <1>4

LEMMA OutputType ==
  ASSUME TypeOK, NEW w \in Workers
  PROVE  Output(w) \subseteq Chunk
<1>1. /\ job[w] \in Jobs /\ Target(w) \in Docs
      /\ seen[w].content \in Contents /\ seen[w].config \in Configs
  BY DEF TypeOK, Target
<1> QED
  BY <1>1, GenerationType DEF Output

LEMMA FinishType ==
  ASSUME TypeOK, NEW w \in Workers, NEW o \in JobStatus, Finish(w, o), rows' \subseteq Chunk
  PROVE  TypeOK'
BY DEF TypeOK, Finish, docVars, JobStatus, Point

(* The variables keep the types of what they stand for.                    *)
THEOREM TypeCorrect == Spec => []TypeOK
<1>1. Init => TypeOK
  BY DEF Init, TypeOK, JobStatus, Point
<1>2. TypeOK /\ [Next]_vars => TypeOK'
  <2> SUFFICES ASSUME TypeOK, [Next]_vars PROVE TypeOK'
    OBVIOUS
  <2>1. CASE UNCHANGED vars
    BY <2>1 DEF TypeOK, vars, docVars, workVars
  <2>2. CASE Requests
    <3>1. ASSUME NEW d \in Docs, NEW c \in Contents, NEW j \in Jobs, Create(d, c, j) \/ Update(d, c, j)
          PROVE  TypeOK'
      BY <3>1 DEF TypeOK, Create, Update, Write, workVars, JobStatus
    <3>2. ASSUME NEW d \in Docs, BeginDelete(d) \/ FinishDelete(d) \/ RollbackDelete(d)
          PROVE  TypeOK'
      BY <3>2 DEF TypeOK, BeginDelete, FinishDelete, RollbackDelete, RowsOf, workVars
    <3>3. ASSUME NEW j \in Jobs, Enqueue(j) \/ LoseEnqueue(j)
          PROVE  TypeOK'
      BY <3>3 DEF TypeOK, Enqueue, LoseEnqueue, docVars, workVars, JobStatus
    <3>4. ASSUME NEW k \in Configs \cup {NoConfig}, SetDefault(k)
          PROVE  TypeOK'
      BY <3>4 DEF TypeOK, SetDefault, docVars, workVars
    <3> QED
      BY <2>2, <3>1, <3>2, <3>3, <3>4 DEF Requests
  <2>3. ASSUME NEW w \in Workers, NEW j \in Jobs, Start(w, j)
        PROVE  TypeOK'
    BY <2>3 DEF TypeOK, Start, docVars, JobStatus, Point
  <2>4. ASSUME NEW w \in Workers, Run(w)
        PROVE  TypeOK'
    <3>1. CASE Load(w)
      BY <3>1 DEF TypeOK, Load, Target, docVars, Point
    <3>2. CASE Embed(w)
      BY <3>2 DEF TypeOK, Embed, docVars, Point
    <3>3. CASE Reload(w)
      BY <3>3 DEF TypeOK, Reload, Target, RowsOf, docVars, Point
    <3>6. CASE DeleteChunks(w)
      BY <3>6 DEF TypeOK, DeleteChunks, docVars, Point
    <3>4. CASE Commit(w)
      BY <3>4, OutputType, FinishType DEF Commit, TypeOK, JobStatus
    <3>5. CASE RaiseNoConfig(w) \/ SkipDeleted(w) \/ ForeignKeyViolation(w)
      BY <3>5, FinishType DEF RaiseNoConfig, SkipDeleted, ForeignKeyViolation, TypeOK, JobStatus
    <3> QED
      BY <2>4, <3>1, <3>2, <3>3, <3>4, <3>5, <3>6 DEF Run
  <2>5. ASSUME NEW w \in Workers, Fail(w)
        PROVE  TypeOK'
    BY <2>5, FinishType DEF Fail, TypeOK, JobStatus
  <2>6. ASSUME NEW w \in Workers, NEW d \in Docs, BreakDeadlock(w, d)
        PROVE  TypeOK'
    <3>1. CASE RollbackDelete(d)
      BY <3>1 DEF TypeOK, RollbackDelete, workVars
    <3>2. CASE Finish(w, "failed") /\ UNCHANGED rows
      BY <3>2, FinishType DEF TypeOK, JobStatus
    <3> QED
      BY <2>6, <3>1, <3>2 DEF BreakDeadlock
  <2> QED
    BY <2>1, <2>2, <2>3, <2>4, <2>5, <2>6 DEF Next, Tasks
<1> QED
  BY <1>1, <1>2, PTL DEF Spec

(***************************************************************************)
(* What a step may do to the chunk table: nothing, remove the chunks of a  *)
(* document with the document, or replace the rows a task holds by its     *)
(* output.  Every safety property below rests on this case distinction.    *)
(***************************************************************************)

LEMMA RowSteps ==
  ASSUME [Next]_vars
  PROVE  \/ UNCHANGED rows
         \/ \E d \in Docs : FinishDelete(d)
         \/ \E w \in Workers : Commit(w)
BY DEF Next, Requests, Tasks, Run, vars, docVars, workVars, Create, Update, Write,
       BeginDelete, RollbackDelete, Enqueue, LoseEnqueue, SetDefault, Start, Load,
       RaiseNoConfig, SkipDeleted, Embed, Reload, DeleteChunks, ForeignKeyViolation,
       Fail, BreakDeadlock

(* A document that is live stops being so only in FinishDelete.            *)
LEMMA LifeSteps ==
  ASSUME TypeOK, [Next]_vars, NEW d \in Docs, doc[d] = "live"
  PROVE  doc'[d] = "live" \/ FinishDelete(d)
<1>1. ASSUME NEW e \in Docs, NEW c \in Contents, NEW j \in Jobs, Create(e, c, j)
      PROVE  doc'[d] = "live"
  BY <1>1 DEF TypeOK, Create
<1>2. ASSUME NEW e \in Docs, FinishDelete(e), e # d
      PROVE  doc'[d] = "live"
  BY <1>2 DEF TypeOK, FinishDelete
<1>3. CASE UNCHANGED doc
  BY <1>3
<1> QED
  BY <1>1, <1>2, <1>3
  DEF Next, Requests, Tasks, Run, vars, docVars, workVars, Update, Write, BeginDelete,
      RollbackDelete, Enqueue, LoseEnqueue, SetDefault, Start, Load, RaiseNoConfig,
      SkipDeleted, Embed, Reload, DeleteChunks, Commit, ForeignKeyViolation, Fail,
      Finish, BreakDeadlock

LEMMA OutputRows ==
  ASSUME NEW w, NEW r \in Output(w)
  PROVE  r.doc = Target(w)
<1>1. PICK i : r = [job |-> job[w], doc |-> Target(w), content |-> seen[w].content,
                    config |-> seen[w].config, index |-> i]
  BY DEF Output, Generation
<1> QED
  BY <1>1

(***************************************************************************)
(* No chunk outlives its document: the foreign key check of the inserts    *)
(* happens in the step that makes them visible, and the cascade takes what *)
(* is there when the document goes.                                        *)
(***************************************************************************)
THEOREM NoOrphans == Spec => []NoOrphanChunks
<1>1. Init => NoOrphanChunks
  BY DEF Init, NoOrphanChunks
<1>2. TypeOK /\ NoOrphanChunks /\ [Next]_vars => NoOrphanChunks'
  <2> SUFFICES ASSUME TypeOK, NoOrphanChunks, [Next]_vars, NEW r \in rows'
               PROVE  doc'[r.doc] = "live"
    BY DEF NoOrphanChunks
  <2>1. CASE UNCHANGED rows
    <3>1. r \in rows /\ r.doc \in Docs /\ doc[r.doc] = "live"
      BY <2>1 DEF NoOrphanChunks, TypeOK, Chunk
    <3>2. CASE FinishDelete(r.doc)
      BY <2>1, <3>1, <3>2 DEF FinishDelete, RowsOf
    <3> QED
      BY <3>1, <3>2, LifeSteps
  <2>2. ASSUME NEW d \in Docs, FinishDelete(d)
        PROVE  doc'[r.doc] = "live"
    <3>1. r \in rows /\ r.doc # d /\ doc[r.doc] = "live" /\ r.doc \in Docs
      BY <2>2 DEF FinishDelete, RowsOf, NoOrphanChunks, TypeOK, Chunk
    <3> QED
      BY <2>2, <3>1 DEF FinishDelete, TypeOK
  <2>3. ASSUME NEW w \in Workers, Commit(w)
        PROVE  doc'[r.doc] = "live"
    <3>1. UNCHANGED doc
      BY <2>3 DEF Commit, Finish, docVars
    <3>2. CASE r \in rows
      BY <3>1, <3>2 DEF NoOrphanChunks
    <3>3. CASE r \in Output(w)
      BY <2>3, <3>1, <3>3, OutputRows DEF Commit
    <3> QED
      BY <2>3, <3>2, <3>3 DEF Commit
  <2> QED
    BY <2>1, <2>2, <2>3, RowSteps
<1> QED
  BY <1>1, <1>2, TypeCorrect, PTL DEF Spec

(***************************************************************************)
(* Chunks come and go by whole generations.  WholeGenerations alone is not *)
(* inductive: a commit removes what the worker's DELETE saw, so that set   *)
(* too must contain a generation or none of it (VictimsWhole), and a row   *)
(* must belong to the generation its columns name (RowsNumbered).          *)
(***************************************************************************)

RowsNumbered == \A r \in rows : r \in Siblings(r)
VictimsWhole == \A w \in Workers : \A v \in victims[w] : Siblings(v) \subseteq victims[w]
WholeInv     == WholeGenerations /\ RowsNumbered /\ VictimsWhole

LEMMA GenerationMember ==
  ASSUME NEW j, NEW d, NEW c, NEW k, NEW r \in Generation(j, d, c, k)
  PROVE  Siblings(r) = Generation(j, d, c, k) /\ r.doc = d /\ r.job = j
<1>1. PICK i : r = [job |-> j, doc |-> d, content |-> c, config |-> k, index |-> i]
  BY DEF Generation
<1>2. r.job = j /\ r.doc = d /\ r.content = c /\ r.config = k
  BY <1>1
<1> QED
  BY <1>2 DEF Siblings

LEMMA VictimSteps ==
  ASSUME TypeOK, [Next]_vars, NEW w \in Workers
  PROVE  \/ victims'[w] = victims[w]
         \/ victims'[w] = {}
         \/ victims'[w] = RowsOf(Target(w))
         \/ victims'[w] = victims[w] \cap rows
<1>1. ASSUME NEW v \in Workers, NEW o, Finish(v, o)
      PROVE  victims'[w] = victims[w] \/ victims'[w] = {}
  BY <1>1 DEF Finish, TypeOK
<1>2. ASSUME NEW v \in Workers, Reload(v)
      PROVE  victims'[w] = victims[w] \/ victims'[w] = RowsOf(Target(w))
  BY <1>2 DEF Reload, TypeOK
<1>3. ASSUME NEW v \in Workers, DeleteChunks(v)
      PROVE  victims'[w] = victims[w] \/ victims'[w] = victims[w] \cap rows
  BY <1>3 DEF DeleteChunks, TypeOK
<1>4. CASE UNCHANGED victims
  BY <1>4
<1> QED
  BY <1>1, <1>2, <1>3, <1>4
  DEF Next, Requests, Tasks, Run, vars, workVars, Create, Update, Write, BeginDelete,
      FinishDelete, RollbackDelete, Enqueue, LoseEnqueue, SetDefault, Start, Load,
      RaiseNoConfig, SkipDeleted, Embed, Commit, ForeignKeyViolation, Fail, BreakDeadlock

LEMMA WholeStep == TypeOK /\ WholeInv /\ [Next]_vars => WholeInv'
<1> SUFFICES ASSUME TypeOK, WholeInv, [Next]_vars PROVE WholeInv'
  OBVIOUS
<1>1. (WholeGenerations /\ RowsNumbered)'
  <2>1. CASE UNCHANGED rows
    BY <2>1 DEF WholeInv, WholeGenerations, RowsNumbered
  <2>2. ASSUME NEW d \in Docs, FinishDelete(d)
        PROVE  (WholeGenerations /\ RowsNumbered)'
    <3>1. rows' = {r \in rows : r.doc # d}
      BY <2>2 DEF FinishDelete, RowsOf
    <3>2. \A r \in rows : \A s \in Siblings(r) : s.doc = r.doc
      BY GenerationMember DEF Siblings
    <3> QED
      BY <3>1, <3>2 DEF WholeInv, WholeGenerations, RowsNumbered
  <2>3. ASSUME NEW w \in Workers, Commit(w)
        PROVE  (WholeGenerations /\ RowsNumbered)'
    <3>1. rows' = (rows \ victims[w]) \cup Output(w)
      BY <2>3 DEF Commit
    <3>2. ASSUME NEW r \in Output(w)
          PROVE  Siblings(r) = Output(w)
      BY <3>2, GenerationMember DEF Output
    <3>3. ASSUME NEW r \in rows, r \notin victims[w], NEW s \in Siblings(r)
          PROVE  s \in rows /\ s \notin victims[w]
      <4>1. s \in rows
        BY DEF WholeInv, WholeGenerations
      <4>2. Siblings(s) = Siblings(r)
        BY <3>3, GenerationMember DEF Siblings
      <4>3. r \in Siblings(s)
        BY <4>2 DEF WholeInv, RowsNumbered
      <4> QED
        BY <3>3, <4>1, <4>3 DEF WholeInv, VictimsWhole
    <3> QED
      BY <3>1, <3>2, <3>3 DEF WholeInv, WholeGenerations, RowsNumbered
  <2> QED
    BY <2>1, <2>2, <2>3, RowSteps
<1>2. VictimsWhole'
  <2> SUFFICES ASSUME NEW w \in Workers, NEW v \in victims'[w]
               PROVE  Siblings(v) \subseteq victims'[w]
    BY DEF VictimsWhole, Siblings
  <2>1. CASE victims'[w] = victims[w]
    BY <2>1 DEF WholeInv, VictimsWhole
  <2>2. CASE victims'[w] = RowsOf(Target(w))
    <3>1. \A s \in Siblings(v) : s.doc = v.doc
      BY GenerationMember DEF Siblings
    <3> QED
      BY <2>2, <3>1 DEF RowsOf, WholeInv, WholeGenerations
  <2>3. CASE victims'[w] = victims[w] \cap rows
    BY <2>3 DEF WholeInv, VictimsWhole, WholeGenerations
  <2> QED
    BY <2>1, <2>2, <2>3, VictimSteps
<1> QED
  BY <1>1, <1>2 DEF WholeInv

(* Whatever overlaps or fails, the chunks of a run are all there or gone.  *)
THEOREM Whole == Spec => []WholeGenerations
<1>1. Init => WholeInv
  BY DEF Init, WholeInv, WholeGenerations, RowsNumbered, VictimsWhole
<1>2. WholeInv => WholeGenerations
  BY DEF WholeInv
<1> QED
  BY <1>1, <1>2, WholeStep, TypeCorrect, PTL DEF Spec

(***************************************************************************)
(* A busy worker runs a task of its own, and the rows its DELETE saw       *)
(* belong to the document of that task.                                    *)
(***************************************************************************)

Running ==
  /\ \A w \in Workers : pc[w] # "idle" => status[job[w]] = "running"
  /\ \A v, w \in Workers : v # w /\ pc[v] # "idle" /\ pc[w] # "idle" => job[v] # job[w]

VictimsOwn ==
  \A w \in Workers :
    /\ victims[w] # {} => pc[w] \in {"delete", "insert"}
    /\ \A r \in victims[w] : r.doc = Target(w)

(* A running task keeps its document: only an unused task gets one.        *)
LEMMA TargetSteps ==
  ASSUME TypeOK, Running, [Next]_vars, NEW w \in Workers, pc[w] # "idle"
  PROVE  job'[w] = job[w] /\ Target(w)' = Target(w)
<1>1. ASSUME NEW v \in Workers, NEW j \in Jobs, Start(v, j)
      PROVE  job'[w] = job[w] /\ Target(w)' = Target(w)
  BY <1>1 DEF Start, TypeOK, Target
<1>2. ASSUME NEW d \in Docs, NEW c \in Contents, NEW j \in Jobs, Write(d, c, j)
      PROVE  job'[w] = job[w] /\ Target(w)' = Target(w)
  BY <1>2 DEF Write, TypeOK, Target, Running, workVars
<1>3. CASE UNCHANGED <<job, docOf>>
  BY <1>3 DEF Target
<1> QED
  BY <1>1, <1>2, <1>3
  DEF Next, Requests, Tasks, Run, vars, workVars, Create, Update, BeginDelete,
      FinishDelete, RollbackDelete, Enqueue, LoseEnqueue, SetDefault, Load, Finish,
      RaiseNoConfig, SkipDeleted, Embed, Reload, DeleteChunks, Commit,
      ForeignKeyViolation, Fail, BreakDeadlock

LEMMA RunningStep ==
  ASSUME TypeOK, Running, [Next]_vars
  PROVE  Running'
<1>1. ASSUME NEW d \in Docs, NEW c \in Contents, NEW j \in Jobs, Write(d, c, j)
      PROVE  Running'
  BY <1>1 DEF Write, TypeOK, Running, workVars
<1>2. ASSUME NEW j \in Jobs, Enqueue(j) \/ LoseEnqueue(j)
      PROVE  Running'
  BY <1>2 DEF Enqueue, LoseEnqueue, TypeOK, Running, workVars
<1>3. ASSUME NEW w \in Workers, NEW j \in Jobs, Start(w, j)
      PROVE  Running'
  BY <1>3 DEF Start, TypeOK, Running
<1>4. ASSUME NEW w \in Workers, NEW o, pc[w] # "idle", Finish(w, o)
      PROVE  Running'
  BY <1>4 DEF Finish, TypeOK, Running
<1>5. ASSUME NEW w \in Workers, Load(w) \/ Embed(w) \/ Reload(w) \/ DeleteChunks(w)
      PROVE  Running'
  BY <1>5 DEF Load, Embed, Reload, DeleteChunks, TypeOK, Running
<1>6. CASE UNCHANGED <<status, workVars>>
  BY <1>6 DEF Running, workVars
<1> QED
  BY <1>1, <1>2, <1>3, <1>4, <1>5, <1>6
  DEF Next, Requests, Tasks, Run, vars, Create, Update, BeginDelete, FinishDelete,
      RollbackDelete, SetDefault, RaiseNoConfig, SkipDeleted, Commit,
      ForeignKeyViolation, Fail, BreakDeadlock, Deadlocked, HoldsChunksOf

(* How a worker comes to wait for, and to hold, the rows it deletes.       *)
LEMMA PointSteps ==
  ASSUME TypeOK, [Next]_vars, NEW w \in Workers, pc'[w] \in {"delete", "insert"}
  PROVE  \/ UNCHANGED <<pc[w], victims[w]>>
         \/ Reload(w)
         \/ DeleteChunks(w)
<1>1. ASSUME NEW v \in Workers, NEW o, Finish(v, o)
      PROVE  UNCHANGED <<pc[w], victims[w]>>
  BY <1>1 DEF Finish, TypeOK
<1>2. ASSUME NEW v \in Workers, (\E j \in Jobs : Start(v, j)) \/ Load(v) \/ Embed(v)
      PROVE  UNCHANGED <<pc[w], victims[w]>>
  BY <1>2 DEF Start, Load, Embed, TypeOK
<1>3. ASSUME NEW v \in Workers, Reload(v) \/ DeleteChunks(v), v # w
      PROVE  UNCHANGED <<pc[w], victims[w]>>
  BY <1>3 DEF Reload, DeleteChunks, TypeOK
<1>4. CASE UNCHANGED <<pc, victims>>
  BY <1>4
<1> QED
  BY <1>1, <1>2, <1>3, <1>4
  DEF Next, Requests, Tasks, Run, vars, workVars, Create, Update, Write, BeginDelete,
      FinishDelete, RollbackDelete, Enqueue, LoseEnqueue, SetDefault, RaiseNoConfig,
      SkipDeleted, Commit, ForeignKeyViolation, Fail, BreakDeadlock

LEMMA VictimsOwnStep ==
  ASSUME TypeOK, Running, VictimsOwn, [Next]_vars
  PROVE  VictimsOwn'
<1> SUFFICES ASSUME NEW w \in Workers, victims'[w] # {}
             PROVE  pc'[w] \in {"delete", "insert"} /\ \A r \in victims'[w] : r.doc = Target(w)'
  BY DEF VictimsOwn
<1>1. CASE Reload(w) \/ DeleteChunks(w)
  <2>1. pc[w] # "idle"
    BY <1>1 DEF Reload, DeleteChunks
  <2>2. Target(w)' = Target(w)
    BY <2>1, TargetSteps
  <2> QED
    BY <1>1, <2>2 DEF Reload, DeleteChunks, VictimsOwn, RowsOf, TypeOK
<1>2. CASE pc'[w] = pc[w] /\ victims'[w] = victims[w]
  <2>1. Target(w)' = Target(w)
    BY <1>2, TargetSteps DEF VictimsOwn
  <2> QED
    BY <1>2, <2>1 DEF VictimsOwn
<1>3. \/ Reload(w) \/ DeleteChunks(w)
      \/ pc'[w] = pc[w] /\ victims'[w] = victims[w]
  <2>1. ASSUME NEW v \in Workers, NEW o, Finish(v, o)
        PROVE  pc'[w] = pc[w] /\ victims'[w] = victims[w]
    BY <2>1 DEF Finish, TypeOK
  <2>2. ASSUME NEW v \in Workers, (\E j \in Jobs : Start(v, j)) \/ Load(v) \/ Embed(v)
        PROVE  pc'[w] = pc[w] /\ victims'[w] = victims[w]
    BY <2>2 DEF Start, Load, Embed, TypeOK, VictimsOwn
  <2>3. ASSUME NEW v \in Workers, Reload(v) \/ DeleteChunks(v), v # w
        PROVE  pc'[w] = pc[w] /\ victims'[w] = victims[w]
    BY <2>3 DEF Reload, DeleteChunks, TypeOK
  <2>4. \/ \E v \in Workers : \E o : Finish(v, o)
        \/ \E v \in Workers : (\E j \in Jobs : Start(v, j)) \/ Load(v) \/ Embed(v)
        \/ \E v \in Workers : Reload(v) \/ DeleteChunks(v)
        \/ UNCHANGED <<pc, victims>>
    BY DEF Next, Requests, Tasks, Run, vars, workVars, Create, Update, Write, BeginDelete,
           FinishDelete, RollbackDelete, Enqueue, LoseEnqueue, SetDefault, RaiseNoConfig,
           SkipDeleted, Commit, ForeignKeyViolation, Fail, BreakDeadlock
  <2> QED
    BY <2>1, <2>2, <2>3, <2>4
<1> QED
  BY <1>1, <1>2, <1>3

(***************************************************************************)
(* The index of a live document changes only when one of its tasks         *)
(* succeeds.                                                               *)
(***************************************************************************)

LEMMA IndexStep ==
  ASSUME TypeOK, Running, VictimsOwn, [Next]_vars,
         NEW d \in Docs, RowsOf(d)' # RowsOf(d), doc'[d] = "live"
  PROVE  \E j \in Jobs : Succeeds(j) /\ docOf[j] = d
<1>1. ASSUME NEW e \in Docs, FinishDelete(e)
      PROVE  FALSE
  <2>1. e # d
    BY <1>1 DEF FinishDelete, TypeOK
  <2> QED
    BY <1>1, <2>1 DEF FinishDelete, RowsOf
<1>2. ASSUME NEW w \in Workers, Commit(w)
      PROVE  \E j \in Jobs : Succeeds(j) /\ docOf[j] = d
  <2>1. job[w] \in Jobs /\ status[job[w]] = "running" /\ status'[job[w]] = "done"
    BY <1>2 DEF Commit, Finish, TypeOK, Running
  <2>2. Target(w) = d
    BY <1>2, OutputRows DEF Commit, RowsOf, VictimsOwn
  <2> QED
    BY <2>1, <2>2 DEF Succeeds, Target
<1> QED
  BY <1>1, <1>2, RowSteps DEF RowsOf

(* No failure, abort, rollback or other document touches a usable index.   *)
THEOREM IndexKeptHolds == Spec => IndexKept
<1>1. Init => Running /\ VictimsOwn
  BY DEF Init, Running, VictimsOwn
<1>2. TypeOK /\ Running /\ VictimsOwn /\ [Next]_vars => Running' /\ VictimsOwn'
  BY RunningStep, VictimsOwnStep
<1>3. TypeOK /\ Running /\ VictimsOwn /\ [Next]_vars
        => [\A d \in Docs : RowsOf(d)' # RowsOf(d) /\ doc'[d] = "live" =>
              \E j \in Jobs : Succeeds(j) /\ docOf[j] = d]_vars
  BY IndexStep
<1> QED
  BY <1>1, <1>2, <1>3, TypeCorrect, PTL DEF Spec, IndexKept

(***************************************************************************)
(* From here on two runs for one document do not overlap: not between the  *)
(* DELETE and the commit (WritesApart), or not at all (RunsApart), although*)
(* runs for different documents do.  With one worker neither happens.      *)
(* (Where they overlap, TLC shows OneGeneration violated.)  Then what the  *)
(* DELETE of a run finds is all there is when it commits.                  *)
(***************************************************************************)

Apart(points) ==
  \A v, w \in Workers :
    v # w /\ pc[v] \in points /\ pc[w] \in points => Target(v) # Target(w)

WritesApart == Apart({"delete", "insert"})
RunsApart   == Apart(Point \ {"idle"})
OneWorker   == \A v, w \in Workers : v = w

LEMMA ApartIfOne == OneWorker => WritesApart /\ RunsApart
BY DEF OneWorker, WritesApart, RunsApart, Apart

LEMMA RunsThenWrites == RunsApart => WritesApart
BY DEF WritesApart, RunsApart, Apart, Point

SeesAll   == \A w \in Workers :
               /\ pc[w] = "delete" => victims[w] \cap rows = RowsOf(Target(w))
               /\ pc[w] = "insert" => victims[w] = RowsOf(Target(w))
SerialInv == OneGeneration /\ Running /\ VictimsOwn /\ SeesAll

LEMMA SerialStep ==
  ASSUME WritesApart, TypeOK, SerialInv, [Next]_vars
  PROVE  SerialInv'
<1>1. Running'
  BY RunningStep DEF SerialInv
<1>2. OneGeneration'
  <2>1. CASE UNCHANGED rows
    BY <2>1 DEF SerialInv, OneGeneration
  <2>2. ASSUME NEW d \in Docs, FinishDelete(d)
        PROVE  OneGeneration'
    BY <2>2 DEF FinishDelete, SerialInv, OneGeneration
  <2>3. ASSUME NEW w \in Workers, Commit(w)
        PROVE  OneGeneration'
    <3>1. rows' = (rows \ RowsOf(Target(w))) \cup Output(w)
      BY <2>3 DEF Commit, SerialInv, SeesAll
    <3>2. \A r \in Output(w) : r.doc = Target(w) /\ r.job = job[w]
      BY GenerationMember DEF Output
    <3>3. \A r \in rows \ RowsOf(Target(w)) : r.doc # Target(w)
      BY DEF RowsOf
    <3> QED
      BY <3>1, <3>2, <3>3 DEF SerialInv, OneGeneration
  <2> QED
    BY <2>1, <2>2, <2>3, RowSteps
<1>3. ASSUME NEW w \in Workers, pc'[w] \in {"delete", "insert"}
      PROVE  /\ pc'[w] = "delete" => victims'[w] \cap rows' = RowsOf(Target(w))'
             /\ pc'[w] = "insert" => victims'[w] = RowsOf(Target(w))'
  <2>1. CASE Reload(w)
    <3>1. RowsOf(Target(w))' = RowsOf(Target(w))
      BY <2>1 DEF Reload, RowsOf, Target
    <3>2. victims'[w] = RowsOf(Target(w)) /\ pc'[w] = "delete" /\ UNCHANGED rows
      BY <2>1 DEF Reload, TypeOK
    <3> QED
      BY <3>1, <3>2 DEF RowsOf
  <2>2. CASE DeleteChunks(w)
    <3>1. RowsOf(Target(w))' = RowsOf(Target(w))
      BY <2>2 DEF DeleteChunks, RowsOf, Target
    <3>2. victims[w] \cap rows = RowsOf(Target(w))
      BY <2>2 DEF DeleteChunks, SerialInv, SeesAll
    <3> QED
      BY <2>2, <3>1, <3>2 DEF DeleteChunks, TypeOK, RowsOf
  <2>3. CASE UNCHANGED <<pc[w], victims[w]>>
    <3>1. Target(w)' = Target(w)
      BY <1>3, <2>3, TargetSteps DEF SerialInv
    <3>2. CASE UNCHANGED rows
      BY <1>3, <2>3, <3>1, <3>2 DEF SerialInv, SeesAll, RowsOf
    <3>3. ASSUME NEW d \in Docs, FinishDelete(d)
          PROVE  /\ pc'[w] = "delete" => victims'[w] \cap rows' = RowsOf(Target(w))'
                 /\ pc'[w] = "insert" => victims'[w] = RowsOf(Target(w))'
      <4>1. rows' = rows \ RowsOf(d)
        BY <3>3 DEF FinishDelete
      <4>2. pc[w] = "insert" => victims[w] \cap RowsOf(d) = {}
        BY <3>3 DEF FinishDelete, HoldsChunksOf
      <4> QED
        BY <1>3, <2>3, <3>1, <4>1, <4>2 DEF SerialInv, SeesAll, RowsOf
    <3>4. ASSUME NEW v \in Workers, Commit(v)
          PROVE  /\ pc'[w] = "delete" => victims'[w] \cap rows' = RowsOf(Target(w))'
                 /\ pc'[w] = "insert" => victims'[w] = RowsOf(Target(w))'
      <4>1. v # w
        BY <1>3, <3>4 DEF Commit, Finish, TypeOK
      <4>2. Target(v) # Target(w)
        BY <1>3, <2>3, <3>4, <4>1 DEF WritesApart, Apart, Commit
      <4>3. rows' = (rows \ RowsOf(Target(v))) \cup Output(v)
        BY <3>4 DEF Commit, SerialInv, SeesAll
      <4>4. \A r \in Output(v) : r.doc = Target(v)
        BY GenerationMember DEF Output
      <4>5. /\ RowsOf(Target(w))' = RowsOf(Target(w))
            /\ \A r : r.doc = Target(w) => (r \in rows' <=> r \in rows)
        BY <3>1, <4>2, <4>3, <4>4 DEF RowsOf
      <4>6. pc[w] = "delete" => victims[w] \cap rows' = RowsOf(Target(w))
        <5> SUFFICES ASSUME pc[w] = "delete"
                     PROVE  victims[w] \cap rows' = RowsOf(Target(w))
          OBVIOUS
        <5>1. \A r \in victims[w] : r.doc = Target(w)
          BY DEF SerialInv, VictimsOwn
        <5>2. victims[w] \cap rows' = victims[w] \cap rows
          BY <4>5, <5>1
        <5> QED
          BY <5>2 DEF SerialInv, SeesAll
      <4> QED
        BY <1>3, <2>3, <4>5, <4>6 DEF SerialInv, SeesAll
    <3> QED
      BY <3>2, <3>3, <3>4, RowSteps
  <2> QED
    BY <1>3, <2>1, <2>2, <2>3, PointSteps
<1>4. VictimsOwn'
  BY VictimsOwnStep DEF SerialInv
<1> QED
  BY <1>1, <1>2, <1>3, <1>4 DEF SerialInv, SeesAll

LEMMA SerialStart == Init => SerialInv
BY DEF Init, SerialInv, OneGeneration, Running, VictimsOwn, SeesAll

(* A document's chunks come from one run of the task, whatever else        *)
(* overlaps, unless two runs for it are between DELETE and commit at once. *)
THEOREM OneGenerationIfApart == Spec /\ []WritesApart => []OneGeneration
<1>1. WritesApart /\ TypeOK /\ SerialInv /\ [Next]_vars => SerialInv'
  BY SerialStep
<1>2. SerialInv => OneGeneration
  BY DEF SerialInv
<1> QED
  BY <1>1, <1>2, SerialStart, TypeCorrect, PTL DEF Spec

(* With one worker a document's chunks come from one run of the task.      *)
THEOREM OneGenerationHolds ==
  ASSUME OneWorker
  PROVE  Spec => []OneGeneration
<1>1. WritesApart
  BY ApartIfOne
<1> QED
  BY <1>1, OneGenerationIfApart, PTL

(***************************************************************************)
(* Refinement: then every step creates a document, removes one  *)
(* with its chunks, replaces the chunks of one by a whole generation, or   *)
(* is invisible.                                                           *)
(***************************************************************************)

LEMMA CommitRefines ==
  ASSUME TypeOK, NoOrphanChunks, SerialInv, NEW w \in Workers, Commit(w)
  PROVE  [Promise!Next]_(Promise!vars)
<1>1. PICK d \in Docs, j \in Jobs, c \in Contents, k \in Configs :
        d = Target(w) /\ j = job[w] /\ c = seen[w].content /\ k = seen[w].config
  BY DEF TypeOK, Target
<1>2. Output(w) = Generation(j, d, c, k) /\ \A r \in Output(w) : r.doc = d
  BY <1>1, OutputRows DEF Output
<1>3. rows' = (rows \ RowsOf(d)) \cup Generation(j, d, c, k) /\ UNCHANGED doc
  BY <1>1, <1>2 DEF Commit, Finish, docVars, SerialInv, SeesAll
<1>4. RowsOf(d)' = Generation(j, d, c, k)
  BY <1>2, <1>3 DEF RowsOf
<1>5. \A x \in Docs : x # d => RowsOf(x)' = RowsOf(x)
  BY <1>2, <1>3 DEF RowsOf
<1>6. CASE doc[d] = "live"
  <2>1. [x \in Docs |-> RowsOf(x)]'
          = [[x \in Docs |-> RowsOf(x)] EXCEPT ![d] = Generation(j, d, c, k)]
    BY <1>4, <1>5
  <2>2. Promise!Publish(d, j, c, k)
    BY <1>3, <1>6, <2>1 DEF Promise!Publish, Promise!Generation, Generation
  <2> QED
    BY <2>2 DEF Promise!Next
<1>7. CASE doc[d] # "live"
  <2>1. RowsOf(d) = {}
    BY <1>7 DEF NoOrphanChunks, RowsOf
  <2>2. Generation(j, d, c, k) = {}
    BY <1>1, <1>2, <1>7 DEF Commit
  <2>3. \A x \in Docs : RowsOf(x)' = RowsOf(x)
    BY <1>4, <1>5, <2>1, <2>2
  <2> QED
    BY <1>3, <2>3 DEF Promise!vars
<1> QED
  BY <1>6, <1>7

LEMMA DeleteRefines ==
  ASSUME TypeOK, NoOrphanChunks, NEW d \in Docs, FinishDelete(d), doc[d] = "live"
  PROVE  Promise!Remove(d)
<1>1. \A x \in Docs : RowsOf(x)' = IF x = d THEN {} ELSE RowsOf(x)
  BY DEF FinishDelete, RowsOf
<1> QED
  BY <1>1 DEF Promise!Remove, FinishDelete

(* Only a live document is being deleted.                                  *)
DeletingLive == \A d \in Docs : deleting[d] => doc[d] = "live"

LEMMA DeletingLiveStep == TypeOK /\ DeletingLive /\ [Next]_vars => DeletingLive'
<1> SUFFICES ASSUME TypeOK, DeletingLive, [Next]_vars, NEW d \in Docs, deleting'[d]
             PROVE  doc'[d] = "live"
  BY DEF DeletingLive
<1>1. ASSUME NEW e \in Docs, BeginDelete(e) \/ FinishDelete(e) \/ RollbackDelete(e)
      PROVE  doc'[d] = "live"
  BY <1>1 DEF BeginDelete, FinishDelete, RollbackDelete, TypeOK, DeletingLive
<1>2. ASSUME NEW e \in Docs, NEW c \in Contents, NEW j \in Jobs, Create(e, c, j)
      PROVE  doc'[d] = "live"
  BY <1>2 DEF Create, Write, TypeOK, DeletingLive
<1>3. CASE UNCHANGED <<doc, deleting>>
  BY <1>3 DEF DeletingLive
<1> QED
  BY <1>1, <1>2, <1>3
  DEF Next, Requests, Tasks, Run, vars, docVars, workVars, Update, Write, Enqueue,
      LoseEnqueue, SetDefault, Start, Load, RaiseNoConfig, SkipDeleted, Embed, Reload,
      DeleteChunks, Commit, ForeignKeyViolation, Fail, Finish, BreakDeadlock

LEMMA StepRefines ==
  ASSUME TypeOK, NoOrphanChunks, SerialInv, DeletingLive, [Next]_vars
  PROVE  [Promise!Next]_(Promise!vars)
<1>1. ASSUME NEW d \in Docs, NEW c \in Contents, NEW j \in Jobs, Create(d, c, j)
      PROVE  [Promise!Next]_(Promise!vars)
  <2>1. Promise!Create(d)
    BY <1>1 DEF Promise!Create, Create, Write, RowsOf
  <2> QED
    BY <2>1 DEF Promise!Next
<1>2. ASSUME NEW d \in Docs, FinishDelete(d)
      PROVE  [Promise!Next]_(Promise!vars)
  <2>1. doc[d] = "live"
    BY <1>2 DEF FinishDelete, DeletingLive
  <2> QED
    BY <1>2, <2>1, DeleteRefines DEF Promise!Next
<1>3. ASSUME NEW w \in Workers, Commit(w)
      PROVE  [Promise!Next]_(Promise!vars)
  BY <1>3, CommitRefines
<1>4. CASE UNCHANGED <<doc, rows>>
  BY <1>4 DEF Promise!vars, RowsOf
<1> QED
  BY <1>1, <1>2, <1>3, <1>4
  DEF Next, Requests, Tasks, Run, vars, docVars, workVars, Update, Write, BeginDelete,
      RollbackDelete, Enqueue, LoseEnqueue, SetDefault, Start, Load, RaiseNoConfig,
      SkipDeleted, Embed, Reload, DeleteChunks, ForeignKeyViolation, Fail, Finish,
      BreakDeadlock

(* Unless two runs for one document write at once, the task implements the *)
(* index DocumentIndex promises.                                           *)
THEOREM RefinementIfApart == Spec /\ []WritesApart => ReplacedAsAWhole
<1>1. Init => Promise!Init
  BY DEF Init, Promise!Init, RowsOf
<1>2. Init => SerialInv /\ DeletingLive
  BY SerialStart DEF Init, DeletingLive
<1>3. WritesApart /\ TypeOK /\ SerialInv /\ DeletingLive /\ [Next]_vars
        => SerialInv' /\ DeletingLive'
  BY SerialStep, DeletingLiveStep
<1>4. TypeOK /\ NoOrphanChunks /\ SerialInv /\ DeletingLive /\ [Next]_vars
        => [Promise!Next]_(Promise!vars)
  BY StepRefines
<1> QED
  BY <1>1, <1>2, <1>3, <1>4, TypeCorrect, NoOrphans, PTL
  DEF Spec, ReplacedAsAWhole, Promise!Spec

(* With one worker the task implements the index DocumentIndex promises.   *)
THEOREM Refinement ==
  ASSUME OneWorker
  PROVE  Spec => ReplacedAsAWhole
<1>1. WritesApart
  BY ApartIfOne
<1> QED
  BY <1>1, RefinementIfApart, PTL

(***************************************************************************)
(* Freshness: if the runs for one document do not overlap at all, a live   *)
(* document whose tasks all succeeded is indexed with its present body: a  *)
(* run that read an older body would otherwise commit after one that read  *)
(* the present one.  The invariant: some task of it is yet   *)
(* to run or will never (Waiting), or one is running that read the present *)
(* body or has not read it yet (Reading), or the index is fresh; and a run *)
(* that read an older body has a task waiting behind it (StaleRun).        *)
(***************************************************************************)

Waits      == {"committed", "queued", "failed", "lost"}
Loaded     == {"embed", "reload", "delete", "insert"}
Waiting(d) == \E j \in JobsOf(d) : status[j] \in Waits
Reads(w, d) ==
  /\ Target(w) = d
  /\ \/ pc[w] = "load"
     \/ pc[w] \in Loaded /\ seen[w].content = content[d]
Reading(d) == \E w \in Workers : Reads(w, d)

FreshDocs == \A d \in Docs : doc[d] = "live" => Waiting(d) \/ Reading(d) \/ IndexedAs(d, content[d])
StaleRun  == \A w \in Workers, d \in Docs :
               /\ pc[w] \in Loaded /\ Target(w) = d
               /\ seen[w].content # content[d]
               => Waiting(d)
FreshInv  == FreshDocs /\ StaleRun

(* A waiting task stays one until a worker takes it.                       *)
LEMMA WaitingSteps ==
  ASSUME TypeOK, Running, [Next]_vars, NEW d \in Docs, Waiting(d)
  PROVE  Waiting(d)' \/ \E w \in Workers, j \in Jobs : Start(w, j) /\ docOf[j] = d
<1>1. PICK i \in Jobs : docOf[i] = d /\ status[i] \in Waits
  BY DEF Waiting, JobsOf
<1>2. SUFFICES ASSUME ~ \E w \in Workers, j \in Jobs : Start(w, j) /\ docOf[j] = d
               PROVE  docOf'[i] = d /\ status'[i] \in Waits
  BY <1>1 DEF Waiting, JobsOf, Waits
<1>3. ASSUME NEW e \in Docs, NEW c \in Contents, NEW j \in Jobs, Write(e, c, j)
      PROVE  docOf'[i] = d /\ status'[i] \in Waits
  BY <1>1, <1>3 DEF Write, TypeOK, Waits
<1>4. ASSUME NEW j \in Jobs, Enqueue(j) \/ LoseEnqueue(j)
      PROVE  docOf'[i] = d /\ status'[i] \in Waits
  BY <1>1, <1>4 DEF Enqueue, LoseEnqueue, TypeOK, Waits
<1>5. ASSUME NEW w \in Workers, NEW j \in Jobs, Start(w, j)
      PROVE  docOf'[i] = d /\ status'[i] \in Waits
  BY <1>1, <1>2, <1>5 DEF Start, TypeOK, Waits
<1>6. ASSUME NEW w \in Workers, NEW o, pc[w] # "idle", Finish(w, o)
      PROVE  docOf'[i] = d /\ status'[i] \in Waits
  BY <1>1, <1>6 DEF Finish, TypeOK, Waits, Running
<1>7. CASE UNCHANGED <<status, docOf>>
  BY <1>1, <1>7
<1> QED
  BY <1>3, <1>4, <1>5, <1>6, <1>7
  DEF Next, Requests, Tasks, Run, vars, Create, Update, BeginDelete, FinishDelete,
      RollbackDelete, SetDefault, Load, RaiseNoConfig, SkipDeleted, Embed, Reload,
      DeleteChunks, Commit, ForeignKeyViolation, Fail, BreakDeadlock, Deadlocked,
      HoldsChunksOf

(* The body of a document changes only in a step that adds a task for it.  *)
LEMMA ContentSteps ==
  ASSUME TypeOK, [Next]_vars, NEW d \in Docs
  PROVE  content'[d] = content[d] \/ Waiting(d)'
<1>1. ASSUME NEW e \in Docs, NEW c \in Contents, NEW j \in Jobs, Write(e, c, j)
      PROVE  content'[d] = content[d] \/ Waiting(d)'
  <2>1. CASE e = d
    <3>1. docOf'[j] = d /\ status'[j] = "committed"
      BY <1>1, <2>1 DEF Write, TypeOK
    <3> QED
      BY <3>1 DEF Waiting, JobsOf, Waits
  <2>2. CASE e # d
    BY <1>1, <2>2 DEF Write, TypeOK
  <2> QED
    BY <2>1, <2>2
<1>2. CASE UNCHANGED content
  BY <1>2
<1> QED
  BY <1>1, <1>2
  DEF Next, Requests, Tasks, Run, vars, docVars, Create, Update, BeginDelete, FinishDelete,
      RollbackDelete, Enqueue, LoseEnqueue, SetDefault, Start, Load, RaiseNoConfig,
      SkipDeleted, Embed, Reload, DeleteChunks, Commit, ForeignKeyViolation, Fail,
      Finish, BreakDeadlock

(* A task of d keeps belonging to d.                                       *)
LEMMA JobsStay ==
  ASSUME TypeOK, Running, [Next]_vars, NEW d \in Docs, NEW i \in JobsOf(d)
  PROVE  i \in JobsOf(d)'
<1>1. i \in Jobs /\ docOf[i] = d /\ status[i] # "unused"
  BY DEF JobsOf
<1>2. ASSUME NEW e \in Docs, NEW c \in Contents, NEW j \in Jobs, Write(e, c, j)
      PROVE  i \in JobsOf(d)'
  BY <1>1, <1>2 DEF Write, TypeOK, JobsOf
<1>3. ASSUME NEW j \in Jobs, NEW o \in JobStatus \ {"unused"},
             status' = [status EXCEPT ![j] = o], UNCHANGED docOf
      PROVE  i \in JobsOf(d)'
  BY <1>1, <1>3 DEF TypeOK, JobsOf
<1>4. ASSUME NEW w \in Workers, NEW o \in JobStatus \ {"unused"}, Finish(w, o)
      PROVE  i \in JobsOf(d)'
  BY <1>3, <1>4 DEF Finish, TypeOK
<1>5. CASE UNCHANGED <<status, docOf>>
  BY <1>1, <1>5 DEF JobsOf
<1> QED
  BY <1>2, <1>3, <1>4, <1>5
  DEF Next, Requests, Tasks, Run, vars, Create, Update, BeginDelete, FinishDelete,
      RollbackDelete, Enqueue, LoseEnqueue, SetDefault, Start, Load, RaiseNoConfig,
      SkipDeleted, Embed, Reload, DeleteChunks, Commit, ForeignKeyViolation, Fail,
      BreakDeadlock, JobStatus

LEMMA LoadedSteps ==
  ASSUME TypeOK, [Next]_vars, NEW w \in Workers, pc'[w] \in Loaded
  PROVE  Load(w) \/ (pc[w] \in Loaded /\ seen'[w] = seen[w])
<1>1. ASSUME NEW v \in Workers, NEW o, Finish(v, o)
      PROVE  pc[w] \in Loaded /\ seen'[w] = seen[w]
  BY <1>1 DEF Finish, TypeOK, Loaded
<1>2. ASSUME NEW v \in Workers, NEW j \in Jobs, Start(v, j)
      PROVE  pc[w] \in Loaded /\ seen'[w] = seen[w]
  BY <1>2 DEF Start, TypeOK, Loaded
<1>3. ASSUME NEW v \in Workers, v # w, Load(v)
      PROVE  pc[w] \in Loaded /\ seen'[w] = seen[w]
  BY <1>3 DEF Load, TypeOK, Loaded
<1>4. ASSUME NEW v \in Workers, Embed(v) \/ Reload(v) \/ DeleteChunks(v)
      PROVE  pc[w] \in Loaded /\ seen'[w] = seen[w]
  BY <1>4 DEF Embed, Reload, DeleteChunks, TypeOK, Loaded
<1>5. CASE UNCHANGED <<pc, seen>>
  BY <1>5
<1>6. \/ \E v \in Workers : \E o : Finish(v, o)
      \/ \E v \in Workers, j \in Jobs : Start(v, j)
      \/ \E v \in Workers : Load(v)
      \/ \E v \in Workers : Embed(v) \/ Reload(v) \/ DeleteChunks(v)
      \/ UNCHANGED <<pc, seen>>
  BY DEF Next, Requests, Tasks, Run, vars, workVars, Create, Update, Write, BeginDelete,
         FinishDelete, RollbackDelete, Enqueue, LoseEnqueue, SetDefault, RaiseNoConfig,
         SkipDeleted, Commit, ForeignKeyViolation, Fail, BreakDeadlock
<1> QED
  BY <1>1, <1>2, <1>3, <1>4, <1>5, <1>6

(* No other run for its document starts while a worker runs one.           *)
LEMMA NoneStarts ==
  ASSUME TypeOK, Running, RunsApart', [Next]_vars, NEW w \in Workers, pc[w] # "idle",
         NEW v \in Workers, NEW j \in Jobs, Start(v, j)
  PROVE  docOf[j] # Target(w)
<1>1. v # w /\ pc'[v] = "load" /\ pc'[w] = pc[w]
  BY DEF Start, TypeOK
<1>2. Target(v)' = docOf[j] /\ Target(w)' = Target(w)
  BY TargetSteps DEF Start, TypeOK, Target
<1>3. pc'[w] \in Point \ {"idle"} /\ pc'[v] \in Point \ {"idle"}
  BY <1>1 DEF TypeOK, Point
<1>4. Target(v)' # Target(w)'
  BY <1>1, <1>3 DEF RunsApart, Apart
<1> QED
  BY <1>2, <1>4

LEMMA StaleRunStep ==
  ASSUME RunsApart', TypeOK, Running, StaleRun, [Next]_vars
  PROVE  StaleRun'
<1> SUFFICES ASSUME NEW w \in Workers, NEW d \in Docs,
                    pc'[w] \in Loaded, Target(w)' = d, seen'[w].content # content'[d]
             PROVE  Waiting(d)'
  BY DEF StaleRun
<1>1. CASE Load(w)
  BY <1>1 DEF Load, Target, docVars, TypeOK
<1>2. CASE pc[w] \in Loaded /\ seen'[w] = seen[w]
  <2>1. Target(w) = d
    BY <1>2, TargetSteps DEF Loaded
  <2>2. CASE content'[d] # content[d]
    BY <2>2, ContentSteps
  <2>3. CASE content'[d] = content[d]
    <3>1. Waiting(d)
      BY <1>2, <2>1, <2>3 DEF StaleRun
    <3>2. ~ \E v \in Workers, j \in Jobs : Start(v, j) /\ docOf[j] = d
      BY <1>2, <2>1, NoneStarts DEF Loaded
    <3> QED
      BY <3>1, <3>2, WaitingSteps
  <2> QED
    BY <2>2, <2>3
<1> QED
  BY <1>1, <1>2, LoadedSteps

LEMMA ReadingSteps ==
  ASSUME TypeOK, Running, [Next]_vars,
         NEW d \in Docs, doc[d] = "live", Reading(d)
  PROVE  \/ Reading(d)' \/ Waiting(d)'
         \/ \E w \in Workers : Commit(w) /\ Target(w) = d /\ seen[w].content = content[d]
<1>1. PICK w \in Workers : Reads(w, d)
  BY DEF Reading
<1>2. pc[w] # "idle" /\ Target(w) = d
  BY <1>1 DEF Reads, Loaded
<1>3. Target(w)' = d /\ job'[w] = job[w] /\ job[w] \in Jobs
  BY <1>2, TargetSteps DEF TypeOK
<1>4. SUFFICES ASSUME content'[d] = content[d]
               PROVE  \/ Reading(d)' \/ Waiting(d)'
                      \/ Commit(w) /\ seen[w].content = content[d]
  BY <1>2, ContentSteps
<1>5. ASSUME pc'[w] \in Loaded, seen'[w].content = content[d]
      PROVE  Reading(d)'
  BY <1>3, <1>4, <1>5 DEF Reading, Reads
<1>6. CASE Load(w)
  <2>1. pc'[w] = "embed" /\ seen'[w].content = content[d]
    BY <1>2, <1>6 DEF Load, TypeOK
  <2> QED
    BY <1>5, <2>1 DEF Loaded
<1>7. CASE Embed(w) \/ Reload(w) \/ DeleteChunks(w)
  <2>1. pc'[w] \in Loaded /\ seen'[w] = seen[w] /\ pc[w] \in Loaded /\ pc[w] # "load"
    BY <1>7 DEF Embed, Reload, DeleteChunks, TypeOK, Loaded
  <2> QED
    BY <1>1, <1>5, <2>1 DEF Reads
<1>8. CASE Finish(w, "failed")
  <2>1. status'[job[w]] = "failed" /\ docOf'[job[w]] = d
    BY <1>2, <1>3, <1>8 DEF Finish, TypeOK, Target
  <2> QED
    BY <1>3, <2>1 DEF Waiting, JobsOf, Waits
<1>9. CASE SkipDeleted(w)
  BY <1>2, <1>9 DEF SkipDeleted
<1>10. CASE Commit(w)
  <2>1. pc[w] = "insert"
    BY <1>10 DEF Commit
  <2> QED
    BY <1>1, <1>10, <2>1 DEF Reads
<1>11. CASE UNCHANGED <<pc[w], seen[w]>>
  BY <1>1, <1>3, <1>4, <1>11 DEF Reading, Reads
<1>12. ASSUME NEW v \in Workers, v # w,
              \/ \E j \in Jobs : Start(v, j)
              \/ \E o : Finish(v, o)
              \/ Load(v) \/ Embed(v) \/ Reload(v) \/ DeleteChunks(v)
       PROVE  UNCHANGED <<pc[w], seen[w]>>
  BY <1>12 DEF Start, Finish, Load, Embed, Reload, DeleteChunks, TypeOK
<1>13. ASSUME NEW j \in Jobs, Start(w, j)
       PROVE  FALSE
  BY <1>2, <1>13 DEF Start
<1>14. \/ \E v \in Workers \ {w} : \/ \E j \in Jobs : Start(v, j)
                                  \/ \E o : Finish(v, o)
                                  \/ Load(v) \/ Embed(v) \/ Reload(v) \/ DeleteChunks(v)
       \/ \E j \in Jobs : Start(w, j)
       \/ Load(w) \/ Embed(w) \/ Reload(w) \/ DeleteChunks(w)
       \/ Finish(w, "failed") \/ SkipDeleted(w) \/ Commit(w)
       \/ UNCHANGED <<pc, seen>>
  BY DEF Next, Requests, Tasks, Run, vars, workVars, Create, Update, Write, BeginDelete,
      FinishDelete, RollbackDelete, Enqueue, LoseEnqueue, SetDefault, RaiseNoConfig,
      SkipDeleted, Commit, ForeignKeyViolation, Fail, BreakDeadlock
<1> QED
  BY <1>6, <1>7, <1>8, <1>9, <1>10, <1>11, <1>12, <1>13, <1>14

(* Committing the present body makes the index of its document fresh.      *)
LEMMA CommitIndexes ==
  ASSUME TypeOK, Running, SeesAll, [Next]_vars, NEW w \in Workers, Commit(w),
         NEW d \in Docs, Target(w) = d, seen[w].content = content[d]
  PROVE  IndexedAs(d, content[d])'
<1>1. PICK j \in Jobs, c \in Contents, k \in Configs :
        j = job[w] /\ c = content[d] /\ k = seen[w].config
  BY DEF TypeOK
<1>2. Output(w) = Generation(j, d, c, k) /\ \A r \in Output(w) : r.doc = d
  BY <1>1, OutputRows DEF Output
<1>3. rows' = (rows \ RowsOf(d)) \cup Generation(j, d, c, k) /\ content' = content
  BY <1>2 DEF Commit, Finish, docVars, SeesAll
<1>4. RowsOf(d)' = Generation(j, d, c, k)
  BY <1>2, <1>3 DEF RowsOf
<1>5. j \in JobsOf(d)
  <2>1. status[j] = "running" /\ docOf[j] = d
    BY <1>1 DEF Running, Commit, Target
  <2> QED
    BY <2>1 DEF JobsOf
<1>6. j \in JobsOf(d)'
  BY <1>5, JobsStay
<1> QED
  BY <1>1, <1>3, <1>4, <1>6 DEF IndexedAs

LEMMA FreshStep ==
  ASSUME RunsApart', TypeOK, SerialInv, FreshInv, [Next]_vars
  PROVE  FreshInv'
<1>1. StaleRun'
  BY StaleRunStep DEF SerialInv, FreshInv
<1>2. ASSUME NEW d \in Docs, doc'[d] = "live"
      PROVE  Waiting(d)' \/ Reading(d)' \/ IndexedAs(d, content[d])'
  <2>1. CASE doc[d] # "live"
    <3>1. ASSUME NEW e \in Docs, NEW c \in Contents, NEW j \in Jobs, Create(e, c, j)
          PROVE  Waiting(d)'
      <4>1. e = d
        BY <1>2, <2>1, <3>1 DEF Create, TypeOK
      <4>2. docOf'[j] = d /\ status'[j] = "committed"
        BY <3>1, <4>1 DEF Create, Write, TypeOK
      <4> QED
        BY <4>2 DEF Waiting, JobsOf, Waits
    <3>2. ASSUME NEW e \in Docs, FinishDelete(e)
          PROVE  FALSE
      BY <1>2, <2>1, <3>2 DEF FinishDelete, TypeOK
    <3>3. CASE UNCHANGED doc
      BY <1>2, <2>1, <3>3
    <3> QED
      BY <3>1, <3>2, <3>3
      DEF Next, Requests, Tasks, Run, vars, docVars, Update, Write, BeginDelete,
          RollbackDelete, Enqueue, LoseEnqueue, SetDefault, Start, Load, RaiseNoConfig,
          SkipDeleted, Embed, Reload, DeleteChunks, Commit, ForeignKeyViolation, Fail,
          Finish, BreakDeadlock
  <2>2. CASE Waiting(d)
    <3>1. ASSUME NEW w \in Workers, NEW j \in Jobs, Start(w, j), docOf[j] = d
          PROVE  Reading(d)'
      <4>1. pc'[w] = "load" /\ job'[w] = j /\ docOf'[j] = d
        BY <3>1 DEF Start, TypeOK
      <4> QED
        BY <4>1 DEF Reading, Reads, Target
    <3> QED
      BY <2>2, <3>1, WaitingSteps DEF SerialInv
  <2>3. CASE doc[d] = "live" /\ Reading(d)
    BY <2>3, ReadingSteps, CommitIndexes DEF SerialInv
  <2>4. CASE doc[d] = "live" /\ IndexedAs(d, content[d])
    <3>1. CASE content'[d] # content[d]
      BY <3>1, ContentSteps
    <3>2. CASE content'[d] = content[d] /\ RowsOf(d)' = RowsOf(d)
      BY <2>4, <3>2, JobsStay DEF IndexedAs, SerialInv
    <3>3. ASSUME NEW e \in Docs, FinishDelete(e)
          PROVE  RowsOf(d)' = RowsOf(d)
      <4>1. e # d
        BY <1>2, <3>3 DEF FinishDelete, TypeOK
      <4> QED
        BY <3>3, <4>1 DEF FinishDelete, RowsOf
    <3>4. ASSUME NEW w \in Workers, Commit(w)
          PROVE  RowsOf(d)' = RowsOf(d) \/ Waiting(d)' \/ IndexedAs(d, content[d])'
      <4>1. CASE Target(w) # d
        BY <3>4, <4>1, OutputRows DEF Commit, RowsOf, SerialInv, SeesAll
      <4>2. CASE Target(w) = d /\ seen[w].content = content[d]
        BY <3>4, <4>2, CommitIndexes DEF SerialInv
      <4>3. CASE Target(w) = d /\ seen[w].content # content[d]
        <5>1. Waiting(d) /\ pc[w] # "idle"
          BY <3>4, <4>3 DEF Commit, FreshInv, StaleRun, Loaded
        <5>2. ~ \E v \in Workers, j \in Jobs : Start(v, j) /\ docOf[j] = d
          BY <4>3, <5>1, NoneStarts DEF SerialInv
        <5> QED
          BY <5>1, <5>2, WaitingSteps DEF SerialInv
      <4> QED
        BY <4>1, <4>2, <4>3
    <3>5. CASE UNCHANGED rows
      BY <3>1, <3>2, <3>5 DEF RowsOf
    <3> QED
      BY <3>1, <3>2, <3>3, <3>4, <3>5, RowSteps
  <2> QED
    BY <2>1, <2>2, <2>3, <2>4 DEF FreshInv, FreshDocs
<1> QED
  BY <1>1, <1>2 DEF FreshInv, FreshDocs

LEMMA FreshImplied == TypeOK /\ Running /\ FreshInv => SettledFresh
<1> SUFFICES ASSUME TypeOK, Running, FreshInv, NEW d \in Docs, Settled(d)
             PROVE  IndexedAs(d, content[d])
  BY DEF SettledFresh
<1>1. ~Waiting(d)
  BY DEF Settled, Waiting, Waits
<1>2. ~Reading(d)
  <2> SUFFICES ASSUME NEW w \in Workers, Target(w) = d, pc[w] # "idle"
               PROVE  FALSE
    BY DEF Reading, Reads, Loaded
  <2>1. status[job[w]] = "running" /\ job[w] \in Jobs /\ docOf[job[w]] = d
    BY DEF Running, TypeOK, Target
  <2>2. job[w] \in JobsOf(d)
    BY <2>1 DEF JobsOf
  <2> QED
    BY <2>1, <2>2 DEF Settled
<1> QED
  BY <1>1, <1>2 DEF Settled, FreshInv, FreshDocs

(* If no two runs for one document overlap, once every task of a live      *)
(* document succeeded its index is that of its present body, whatever was  *)
(* interleaved before.                                                     *)
THEOREM SettledFreshIfApart == Spec /\ []RunsApart => []SettledFresh
<1>1. Init => SerialInv /\ FreshInv
  BY SerialStart DEF Init, FreshInv, FreshDocs, StaleRun, Loaded
<1>2. RunsApart /\ RunsApart' /\ TypeOK /\ SerialInv /\ FreshInv /\ [Next]_vars
        => SerialInv' /\ FreshInv'
  BY SerialStep, FreshStep, RunsThenWrites
<1>3. TypeOK /\ SerialInv /\ FreshInv => SettledFresh
  BY FreshImplied DEF SerialInv
<1> QED
  BY <1>1, <1>2, <1>3, TypeCorrect, PTL DEF Spec

(* With one worker, once every task of a live document succeeded its index *)
(* is that of its present body.                                            *)
THEOREM SettledFreshHolds ==
  ASSUME OneWorker
  PROVE  Spec => []SettledFresh
<1>1. RunsApart
  BY ApartIfOne
<1> QED
  BY <1>1, SettledFreshIfApart, PTL
=============================================================================
