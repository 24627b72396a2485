--------------------------- MODULE KnowledgeIndex --------------------------
(***************************************************************************)
(* The knowledge base: the document commands, the Celery task that chunks  *)
(* and embeds a document, and the PostgreSQL transactions they run in.     *)
(*                                                                         *)
(* One action is one statement or one transaction of the code.  The        *)
(* database runs READ COMMITTED: a statement sees the rows committed when  *)
(* it starts, waits for a row another open transaction has deleted, and    *)
(* does not see rows committed while it waited.  The rows a transaction    *)
(* deleted stay in `rows' until it commits.                                *)
(***************************************************************************)
EXTENDS KnowledgeChunks

CONSTANT Workers  (* Celery worker processes: how many tasks run at a time    *)

VARIABLES
  doc,       (* doc[d]: "new", "live" or "gone"                               *)
  content,   (* content[d]: the committed body of d                           *)
  deleting,  (* deleting[d]: an open DELETE holds the row lock of d           *)
  default,   (* the default embedding config, or NoConfig                     *)
  rows,      (* the committed rows of knowledge_chunks                        *)
  status,    (* status[j]: where task j is                                    *)
  docOf,     (* docOf[j]: the document id task j was given                    *)
  pc,        (* pc[w]: the point of the task worker w stands at               *)
  job,       (* job[w]: the task worker w runs or ran last                    *)
  seen,      (* seen[w]: the body and config phase 1 read                     *)
  victims    (* victims[w]: the rows phase 3 deletes                          *)

docVars  == <<doc, content, deleting>>
workVars == <<pc, job, seen, victims>>
vars     == <<docVars, default, rows, status, docOf, workVars>>

JobStatus == {"unused", "committed", "queued", "running", "done", "failed", "lost"}
Point     == {"idle", "load", "embed", "reload", "delete", "insert"}

RowsOf(d) == {r \in rows : r.doc = d}

(* The document the task of worker w is about and the rows it will insert. *)
Target(w) == docOf[job[w]]
Output(w) == Generation(job[w], Target(w), seen[w].content, seen[w].config)

Init ==
  /\ doc = [d \in Docs |-> "new"]
  /\ content \in [Docs -> Contents]
  /\ deleting = [d \in Docs |-> FALSE]
  /\ default \in Configs \cup {NoConfig}
  /\ rows = {}
  /\ status = [j \in Jobs |-> "unused"]
  /\ docOf \in [Jobs -> Docs]
  /\ pc = [w \in Workers |-> "idle"]
  /\ job \in [Workers -> Jobs]
  /\ seen \in [Workers -> [content : Contents, config : Configs]]
  /\ victims = [w \in Workers |-> {}]
-----------------------------------------------------------------------------
(* Requests                                                                *)

(* A write of a body commits and leaves the on_commit callback to run.     *)
Write(d, c, j) ==
  /\ status[j] = "unused"
  /\ content' = [content EXCEPT ![d] = c]
  /\ status' = [status EXCEPT ![j] = "committed"]
  /\ docOf' = [docOf EXCEPT ![j] = d]
  /\ UNCHANGED <<deleting, default, rows, workVars>>

Create(d, c, j) ==
  /\ doc[d] = "new"
  /\ doc' = [doc EXCEPT ![d] = "live"]
  /\ Write(d, c, j)

(* Faulty: no new task while one for the document is running.              *)
UpdateDeduped(d, c, j) ==
  /\ doc[d] = "live" /\ ~deleting[d]
  /\ content' = [content EXCEPT ![d] = c]
  /\ IF \E i \in Jobs : status[i] = "running" /\ docOf[i] = d
     THEN UNCHANGED <<status, docOf>>
     ELSE /\ status[j] = "unused"
          /\ status' = [status EXCEPT ![j] = "committed"]
          /\ docOf' = [docOf EXCEPT ![j] = d]
  /\ UNCHANGED <<doc, deleting, default, rows, workVars>>

(* An update with raw_content.  It waits for a DELETE that holds the row   *)
(* and fails when that commits.  A title-only update changes nothing here. *)
Update(d, c, j) ==
  /\ doc[d] = "live" /\ ~deleting[d]
  /\ Write(d, c, j)
  /\ UNCHANGED doc

(* on_commit: the task is sent to the broker, or the process dies first.   *)
Enqueue(j) ==
  /\ status[j] = "committed"
  /\ status' = [status EXCEPT ![j] = "queued"]
  /\ UNCHANGED <<docVars, default, rows, docOf, workVars>>

LoseEnqueue(j) ==
  /\ status[j] = "committed"
  /\ status' = [status EXCEPT ![j] = "lost"]
  /\ UNCHANGED <<docVars, default, rows, docOf, workVars>>

(* DELETE of the document row: takes its row lock ...                      *)
BeginDelete(d) ==
  /\ doc[d] = "live" /\ ~deleting[d]
  /\ deleting' = [deleting EXCEPT ![d] = TRUE]
  /\ UNCHANGED <<doc, content, default, rows, status, docOf, workVars>>

(* ... then the cascade deletes its chunks, waiting for the ones an        *)
(* indexing transaction has deleted, and the transaction commits.          *)
HoldsChunksOf(w, d) == pc[w] = "insert" /\ victims[w] \cap RowsOf(d) # {}

(* Faulty: no ON DELETE CASCADE on the chunks.                              *)
FinishDeleteUncascaded(d) ==
  /\ deleting[d]
  /\ deleting' = [deleting EXCEPT ![d] = FALSE]
  /\ doc' = [doc EXCEPT ![d] = "gone"]
  /\ UNCHANGED <<content, default, rows, status, docOf, workVars>>

(* Faulty: the request waits for the tasks of the document to end.         *)
FinishDeleteAfterTasks(d) ==
  /\ deleting[d]
  /\ \A w \in Workers : pc[w] # "idle" => docOf[job[w]] # d
  /\ deleting' = [deleting EXCEPT ![d] = FALSE]
  /\ doc' = [doc EXCEPT ![d] = "gone"]
  /\ rows' = rows \ RowsOf(d)
  /\ UNCHANGED <<content, default, status, docOf, workVars>>

FinishDelete(d) ==
  /\ deleting[d]
  /\ \A w \in Workers : ~HoldsChunksOf(w, d)
  /\ deleting' = [deleting EXCEPT ![d] = FALSE]
  /\ doc' = [doc EXCEPT ![d] = "gone"]
  /\ rows' = rows \ RowsOf(d)
  /\ UNCHANGED <<content, default, status, docOf, workVars>>

RollbackDelete(d) ==
  /\ deleting[d]
  /\ deleting' = [deleting EXCEPT ![d] = FALSE]
  /\ UNCHANGED <<doc, content, default, rows, status, docOf, workVars>>

(* The model config API switches, clears or soft-deletes the default.      *)
SetDefault(k) ==
  /\ default # k
  /\ default' = k
  /\ UNCHANGED <<docVars, rows, status, docOf, workVars>>
-----------------------------------------------------------------------------
(* index_knowledge_document_task                                           *)

Start(w, j) ==
  /\ pc[w] = "idle" /\ status[j] = "queued"
  /\ status' = [status EXCEPT ![j] = "running"]
  /\ job' = [job EXCEPT ![w] = j]
  /\ pc' = [pc EXCEPT ![w] = "load"]
  /\ UNCHANGED <<docVars, default, rows, docOf, seen, victims>>

(* The task of w ends: its transaction, if one is open, is closed and its  *)
(* row locks go.                                                           *)
Finish(w, outcome) ==
  /\ status' = [status EXCEPT ![job[w]] = outcome]
  /\ pc' = [pc EXCEPT ![w] = "idle"]
  /\ victims' = [victims EXCEPT ![w] = {}]
  /\ UNCHANGED <<docVars, default, docOf, job, seen>>

(* Faulty: a missing default config goes unnoticed.                        *)
LoadUnconfigured(w) ==
  /\ pc[w] = "load" /\ doc[Target(w)] = "live"
  /\ seen' = [seen EXCEPT ![w] = [content |-> content[Target(w)], config |-> default]]
  /\ pc' = [pc EXCEPT ![w] = "embed"]
  /\ UNCHANGED <<docVars, default, rows, status, docOf, job, victims>>

(* Phase 1: the document and the default config.                           *)
Load(w) ==
  /\ pc[w] = "load"
  /\ doc[Target(w)] = "live" /\ default # NoConfig
  /\ seen' = [seen EXCEPT ![w] = [content |-> content[Target(w)], config |-> default]]
  /\ pc' = [pc EXCEPT ![w] = "embed"]
  /\ UNCHANGED <<docVars, default, rows, status, docOf, job, victims>>

(* No default embedding config: raises.                                    *)
RaiseNoConfig(w) ==
  /\ pc[w] = "load"
  /\ doc[Target(w)] = "live" /\ default = NoConfig
  /\ Finish(w, "failed")
  /\ UNCHANGED rows

(* Phase 2: chunking and the provider call, no transaction open.           *)
Embed(w) ==
  /\ pc[w] = "embed"
  /\ pc' = [pc EXCEPT ![w] = "reload"]
  /\ UNCHANGED <<docVars, default, rows, status, docOf, job, seen, victims>>

(* Faulty: deletes only the positions the new chunks take.                 *)
ReloadOverwritten(w) ==
  /\ pc[w] = "reload"
  /\ doc[Target(w)] = "live"
  /\ victims' = [victims EXCEPT ![w] =
                   {r \in RowsOf(Target(w)) : r.index \in {n.index : n \in Output(w)}}]
  /\ pc' = [pc EXCEPT ![w] = "delete"]
  /\ UNCHANGED <<docVars, default, rows, status, docOf, job, seen>>

(* Phase 3: the document again, and the snapshot of the DELETE statement.  *)
Reload(w) ==
  /\ pc[w] = "reload"
  /\ doc[Target(w)] = "live"
  /\ victims' = [victims EXCEPT ![w] = RowsOf(Target(w))]
  /\ pc' = [pc EXCEPT ![w] = "delete"]
  /\ UNCHANGED <<docVars, default, rows, status, docOf, job, seen>>

(* The document is gone, before phase 1 or during phase 2: returns.        *)
SkipDeleted(w) ==
  /\ pc[w] \in {"load", "reload"}
  /\ doc[Target(w)] # "live"
  /\ Finish(w, "done")
  /\ UNCHANGED rows

(* The DELETE: waits for a transaction that already deleted one of its     *)
(* rows, then locks the rows of its snapshot that still exist.             *)
Blocks(v, w) == v # w /\ pc[v] = "insert" /\ victims[v] \cap victims[w] # {}

DeleteChunks(w) ==
  /\ pc[w] = "delete"
  /\ \A v \in Workers : ~Blocks(v, w)
  /\ victims' = [victims EXCEPT ![w] = @ \cap rows]
  /\ pc' = [pc EXCEPT ![w] = "insert"]
  /\ UNCHANGED <<docVars, default, rows, status, docOf, job, seen>>

(* Faulty: inserts without the check of the foreign key.                   *)
CommitUnchecked(w) ==
  /\ pc[w] = "insert"
  /\ rows' = (rows \ victims[w]) \cup Output(w)
  /\ Finish(w, "done")

(* Faulty: adds the new chunks and leaves the old ones.                    *)
CommitAppending(w) ==
  /\ pc[w] = "insert"
  /\ Output(w) # {} => doc[Target(w)] = "live" /\ ~deleting[Target(w)]
  /\ rows' = rows \cup Output(w)
  /\ Finish(w, "done")

(* The flush of the inserts, whose foreign key check needs a lock on the   *)
(* document row, and the COMMIT.                                           *)
Commit(w) ==
  /\ pc[w] = "insert"
  /\ Output(w) # {} => doc[Target(w)] = "live" /\ ~deleting[Target(w)]
  /\ rows' = (rows \ victims[w]) \cup Output(w)
  /\ Finish(w, "done")

ForeignKeyViolation(w) ==
  /\ pc[w] = "insert"
  /\ Output(w) # {} /\ doc[Target(w)] = "gone"
  /\ Finish(w, "failed")
  /\ UNCHANGED rows

(* Faulty: the DELETE had committed on its own.                            *)
FailAfterDelete(w) ==
  /\ pc[w] # "idle"
  /\ Finish(w, "failed")
  /\ rows' = rows \ victims[w]

(* Anything else that raises (provider error, too many chunks, wrong       *)
(* number of vectors, database error) or kills the worker: the open        *)
(* transaction rolls back; the message is acknowledged and not retried.    *)
Fail(w) ==
  /\ pc[w] # "idle"
  /\ Finish(w, "failed")
  /\ UNCHANGED rows

(* The insert of w waits for the DELETE of the document, whose cascade     *)
(* waits for the chunks w deleted: PostgreSQL aborts one of the two.       *)
Deadlocked(w, d) ==
  /\ deleting[d] /\ Target(w) = d
  /\ HoldsChunksOf(w, d) /\ Output(w) # {}

BreakDeadlock(w, d) ==
  /\ Deadlocked(w, d)
  /\ \/ RollbackDelete(d)
     \/ Finish(w, "failed") /\ UNCHANGED rows
-----------------------------------------------------------------------------
Requests ==
  \/ \E d \in Docs, c \in Contents, j \in Jobs : Create(d, c, j) \/ Update(d, c, j)
  \/ \E d \in Docs : BeginDelete(d) \/ FinishDelete(d) \/ RollbackDelete(d)
  \/ \E j \in Jobs : Enqueue(j) \/ LoseEnqueue(j)
  \/ \E k \in Configs \cup {NoConfig} : SetDefault(k)

(* What worker w does of its own accord once it runs a task.               *)
Run(w) ==
  \/ Load(w) \/ RaiseNoConfig(w) \/ SkipDeleted(w) \/ Embed(w)
  \/ Reload(w) \/ DeleteChunks(w) \/ Commit(w) \/ ForeignKeyViolation(w)

Tasks ==
  \E w \in Workers :
    \/ \E j \in Jobs : Start(w, j)
    \/ Run(w)
    \/ Fail(w)
    \/ \E d \in Docs : BreakDeadlock(w, d)

Next == Requests \/ Tasks

Spec == Init /\ [][Next]_vars

(* The broker delivers what it holds while a worker is free, a statement   *)
(* that can run does run, and PostgreSQL detects deadlocks and hands a     *)
(* released lock to those that wait for it, in order (the strong fairness  *)
(* of the two statements that wait).  Nothing obliges a client to send a   *)
(* request, or a failure to happen.                                        *)
Fairness ==
  /\ \A j \in Jobs : WF_vars(Enqueue(j) \/ LoseEnqueue(j))
  /\ \A j \in Jobs : WF_vars(\E w \in Workers : Start(w, j))
  /\ \A w \in Workers : WF_vars(Run(w))
  /\ \A w \in Workers : SF_vars(DeleteChunks(w) \/ Commit(w))
  /\ \A d \in Docs : WF_vars(FinishDelete(d))
  /\ \A w \in Workers, d \in Docs : WF_vars(BreakDeadlock(w, d))

FairSpec == Spec /\ Fairness
-----------------------------------------------------------------------------
(* Properties                                                              *)

(* The variables hold what the tables, the queue and a worker can hold.    *)
TypeOK ==
  /\ doc \in [Docs -> {"new", "live", "gone"}]
  /\ content \in [Docs -> Contents]
  /\ deleting \in [Docs -> BOOLEAN]
  /\ default \in Configs \cup {NoConfig}
  /\ rows \subseteq Chunk
  /\ status \in [Jobs -> JobStatus]
  /\ docOf \in [Jobs -> Docs]
  /\ pc \in [Workers -> Point]
  /\ job \in [Workers -> Jobs]
  /\ seen \in [Workers -> [content : Contents, config : Configs]]
  /\ victims \in [Workers -> SUBSET Chunk]

(* No committed chunk outlives its document, although a task that saw the  *)
(* document may insert chunks while a request deletes it.                  *)
NoOrphanChunks == \A r \in rows : doc[r.doc] = "live"

(* The chunks a task wrote are all there or all gone, whatever crashes,    *)
(* aborts or overlaps: no search sees half a document of one run.          *)
Siblings(r) == Generation(r.job, r.doc, r.content, r.config)

WholeGenerations == \A r \in rows : Siblings(r) \subseteq rows

(* The chunks of a document never come from two runs of the task: a        *)
(* reindex replaces what it finds ("existing chunks are replaced           *)
(* transactionally").                                                      *)
OneGeneration ==
  \A r1, r2 \in rows : r1.doc = r2.doc => r1.job = r2.job

(* A live document all of whose tasks succeeded is indexed with the body   *)
(* it has now, however updates and runs of the task interleaved.           *)
JobsOf(d) == {j \in Jobs : status[j] # "unused" /\ docOf[j] = d}
Settled(d) == doc[d] = "live" /\ \A j \in JobsOf(d) : status[j] = "done"
IndexedAs(d, c) ==
  \E j \in JobsOf(d), k \in Configs : RowsOf(d) = Generation(j, d, c, k)

SettledFresh == \A d \in Docs : Settled(d) => IndexedAs(d, content[d])

(* The index of a live document changes only when one of its tasks         *)
(* succeeds: no failure, crash, rolled back DELETE, broken deadlock or     *)
(* task of another document leaves it with more or less than it had        *)
(* ("the currently usable index is kept until ... have all succeeded").    *)
Succeeds(j) == status[j] = "running" /\ status'[j] = "done"

IndexKept ==
  [][\A d \in Docs : RowsOf(d)' # RowsOf(d) /\ doc'[d] = "live" =>
       \E j \in Jobs : Succeeds(j) /\ docOf[j] = d]_vars

(* Every write's task is over eventually, and every DELETE gets an answer, *)
(* although a DELETE and a task can wait for each other.                   *)
WorkSettles ==
  /\ \A j \in Jobs : status[j] = "committed" ~> status[j] \in {"done", "failed", "lost"}
  /\ \A d \in Docs : deleting[d] ~> ~deleting[d]

(* With one worker the task keeps the promise of DocumentIndex.            *)
Promise == INSTANCE DocumentIndex WITH life <- doc, index <- [d \in Docs |-> RowsOf(d)]
ReplacedAsAWhole == Promise!Spec
=============================================================================
