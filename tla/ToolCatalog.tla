----------------------------- MODULE ToolCatalog -----------------------------
(* The registry of MCP servers and the Redis cache of the tools they offer. *)
(* Requests that change a server are transactions at READ COMMITTED; they   *)
(* invalidate the cache before they commit.  Requests that need tools load  *)
(* the servers in a short session, then read the cache and, on a miss, ask  *)
(* the server and fill the cache, with no transaction open.  The cache is   *)
(* keyed by server_id, which a server may give up and another one take.     *)
EXTENDS Naturals, FiniteSets

CONSTANTS
  Rows,      (* ids of rows of mcp_servers                                  *)
  Keys,      (* values of server_id                                         *)
  Confs,     (* what a server's tools depend on: url, tool_prefix           *)
  Unset,     (* a field the payload does not supply                         *)
  Nothing,   (* no entry in the cache, no server                            *)
  Txns,      (* requests that create, update or delete a server             *)
  Requests,  (* their payloads                                              *)
  Readers    (* requests that need tools                                    *)

Row == [sid : Keys, conf : Confs, state : {"absent", "live", "deleted"}]

Request == [op : {"create", "update", "delete"}, row : Rows,
            sid : Keys \cup {Unset}, conf : Confs \cup {Unset}]

(* A server as a reader loaded it: it keeps these columns when the session *)
(* is closed.                                                              *)
Connection == [row : Rows, sid : Keys, conf : Confs]

(* The tools in the cache, by the server they were fetched from; raced is  *)
(* not in the program: it records that the fetch overlapped an update.     *)
Entry == [row : Rows, conf : Confs, raced : BOOLEAN]

ASSUME CatalogAssumption ==
  /\ Unset \notin Keys \cup Confs
  /\ Nothing \notin Entry \cup Connection
  /\ Requests \subseteq Request
  /\ \A r \in Requests : r.op = "create" => r.sid # Unset /\ r.conf # Unset

VARIABLES
  server,    (* the committed rows of mcp_servers                           *)
  pc,        (* pc[t]: what transaction t does next, or how it ended        *)
  req,       (* req[t]: its payload                                         *)
  seen,      (* seen[t]: the row as it loaded it                            *)
  key,       (* key[t]: the server_id it will invalidate                    *)
  cache,
  stage,     (* stage[f]: what reader f does next, or how it ended          *)
  kind,      (* kind[f]: "run" for all tools of a run, "list" or "refresh"  *)
             (* for those of one server                                     *)
  asked,     (* asked[f]: the servers it loaded                             *)
  got,       (* got[f]: the servers whose tools it has                      *)
  lost,      (* lost[f]: the servers it skipped, since they failed          *)
  current,   (* current[f]: the server it is fetching from, if any          *)
  missed     (* missed[f]: the servers updated since it loaded them; not in *)
             (* the program                                                 *)

txnVars == <<pc, req, seen, key>>
readerVars == <<stage, kind, asked, got, lost, current>>
vars == <<server, cache, missed, txnVars, readerVars>>

Running == {"check", "write", "enter", "invalidate", "commit"}
Ended   == {"done", "missing", "refused", "conflict", "failed"}
Busy    == {"read", "fetch"}

Live(r) == server[r].state = "live"

Init ==
  /\ server \in [Rows -> Row]
  /\ \A r, s \in Rows :
       r # s /\ server[r].state # "absent" /\ server[s].state # "absent" =>
         server[r].sid # server[s].sid
  /\ pc = [t \in Txns |-> "idle"]
  /\ req \in [Txns -> Requests]
  /\ \A t \in Txns : req[t].op = "create" =>
       /\ server[req[t].row].state = "absent"
       /\ \A u \in Txns : u # t /\ req[u].op = "create" => req[u].row # req[t].row
  /\ seen = [t \in Txns |-> server[req[t].row]]
  /\ key = [t \in Txns |-> server[req[t].row].sid]
  /\ cache = [k \in Keys |-> Nothing]
  /\ stage = [f \in Readers |-> "idle"]
  /\ kind = [f \in Readers |-> "run"]
  /\ asked = [f \in Readers |-> {}]
  /\ got = [f \in Readers |-> {}]
  /\ lost = [f \in Readers |-> {}]
  /\ current = [f \in Readers |-> Nothing]
  /\ missed = [f \in Readers |-> {}]
-----------------------------------------------------------------------------
(* What a transaction writes                                               *)

Own(t) == req[t].row

Supplied(value, loaded) == value # Unset /\ value # loaded

(* The payload moves the server to another server_id.                      *)
Renames(t) == req[t].op # "delete" /\ Supplied(req[t].sid, seen[t].sid)

(* The flush emits a statement: an update sets only what differs from the  *)
(* row it loaded.                                                          *)
Emits(t) == req[t].op = "update" => Renames(t) \/ Supplied(req[t].conf, seen[t].conf)

(* Faulty: fields the payload leaves out are dumped and set too.           *)
NewRowUnset(t) ==
  [server[Own(t)] EXCEPT
    !.sid = IF req[t].op = "delete" THEN @ ELSE req[t].sid,
    !.conf = IF req[t].op = "delete" THEN @ ELSE req[t].conf,
    !.state = IF req[t].op = "delete" THEN "deleted" ELSE "live"]

(* The row of its server as transaction t leaves it.                       *)
NewRow(t) ==
  LET r == req[t] old == server[Own(t)] IN
  CASE r.op = "create" -> [sid |-> r.sid, conf |-> r.conf, state |-> "live"]
    [] r.op = "delete" -> [old EXCEPT !.state = "deleted"]
    [] OTHER -> [old EXCEPT
         !.sid = IF Supplied(r.sid, seen[t].sid) THEN r.sid ELSE @,
         !.conf = IF Supplied(r.conf, seen[t].conf) THEN r.conf ELSE @]

(* Transaction t has written the row of its server, in the table and then  *)
(* in the index, and not committed yet.                                    *)
Holds(t) == pc[t] \in {"enter", "invalidate", "commit"} /\ Emits(t)

Entered(t) == Holds(t) /\ pc[t] # "enter"

WaitsForRow(t, u) == pc[t] = "write" /\ Emits(t) /\ Holds(u) /\ Own(u) = Own(t)

SetsKey(t) == req[t].op = "create" \/ Renames(t)

(* The index makes t, which holds its row by then, wait for a transaction  *)
(* that has written a row with the server_id t wants, be it the one the    *)
(* row had before or the one that is entered for it.                       *)
WaitsForKey(t, u) ==
  /\ pc[t] = "enter" /\ SetsKey(t) /\ Holds(u)
  /\ \/ server[Own(u)].state # "absent" /\ server[Own(u)].sid = req[t].sid
     \/ Entered(u) /\ NewRow(u).sid = req[t].sid

(* Faulty: no unique index, the query before the write has to do.          *)
KeyTakenUnindexed(t) == FALSE

(* server_id is unique over all rows, soft-deleted ones included.          *)
KeyTaken(t) ==
  /\ SetsKey(t)
  /\ \E r \in Rows \ {Own(t)} : server[r].state # "absent" /\ server[r].sid = req[t].sid
-----------------------------------------------------------------------------
(* Requests that change a server                                           *)

Goto(t, label) == pc' = [pc EXCEPT ![t] = label]

(* The server is looked up among the live ones.                            *)
Begin(t) ==
  /\ pc[t] = "idle"
  /\ IF req[t].op = "create"
       THEN Goto(t, "check") /\ UNCHANGED <<seen, key>>
     ELSE IF ~Live(Own(t))
       THEN Goto(t, "missing") /\ UNCHANGED <<seen, key>>
     ELSE
       /\ seen' = [seen EXCEPT ![t] = server[Own(t)]]
       /\ key' = [key EXCEPT ![t] = server[Own(t)].sid]
       /\ Goto(t, "check")
  /\ UNCHANGED <<server, cache, missed, req, readerVars>>

(* The repository looks the server up again, in the columns loaded before. *)
(* A server_id that a live server has is refused; an update that keeps its *)
(* own does not ask.                                                       *)
Check(t) ==
  /\ pc[t] = "check"
  /\ Goto(t, IF req[t].op # "create" /\ ~Live(Own(t)) THEN "missing"
             ELSE IF SetsKey(t) /\ \E r \in Rows : Live(r) /\ server[r].sid = req[t].sid
               THEN "refused"
             ELSE "write")
  /\ UNCHANGED <<server, cache, missed, req, seen, key, readerVars>>

(* The statement is flushed: it writes the row once no other transaction   *)
(* holds it ...                                                            *)
Write(t) ==
  /\ pc[t] = "write" /\ \A u \in Txns \ {t} : ~WaitsForRow(t, u)
  /\ Goto(t, "enter")
  /\ UNCHANGED <<server, cache, missed, req, seen, key, readerVars>>

(* ... then enters it in the index.  A create and an update refresh the    *)
(* row, which fails if the server was deleted in between.                  *)
Enter(t) ==
  /\ pc[t] = "enter" /\ \A u \in Txns \ {t} : ~WaitsForKey(t, u)
  /\ Goto(t, IF KeyTaken(t) THEN "conflict"
             ELSE IF req[t].op = "create" THEN "commit"
             ELSE IF req[t].op = "update" /\ ~Live(Own(t)) THEN "failed"
             ELSE "invalidate")
  /\ key' = [key EXCEPT ![t] = IF req[t].op = "update" THEN NewRow(t).sid ELSE @]
  /\ UNCHANGED <<server, cache, missed, req, seen, readerVars>>

(* Faulty: the server_id under which the server was loaded is invalidated. *)
InvalidateLoaded(t) ==
  /\ pc[t] = "invalidate"
  /\ cache' = [cache EXCEPT ![seen[t].sid] = Nothing]
  /\ Goto(t, "commit")
  /\ UNCHANGED <<server, missed, req, seen, key, readerVars>>

Invalidate(t) ==
  /\ pc[t] = "invalidate"
  /\ cache' = [cache EXCEPT ![key[t]] = Nothing]
  /\ Goto(t, "commit")
  /\ UNCHANGED <<server, missed, req, seen, key, readerVars>>

Commit(t) ==
  /\ pc[t] = "commit"
  /\ server' = IF Emits(t) THEN [server EXCEPT ![Own(t)] = NewRow(t)] ELSE server
  /\ missed' = [f \in Readers |->
       IF Emits(t) /\ stage[f] \in Busy THEN missed[f] \cup {Own(t)} ELSE missed[f]]
  /\ Goto(t, "done")
  /\ UNCHANGED <<cache, req, seen, key, readerVars>>

(* The database or Redis fails: the exception rolls the transaction back.  *)
Fail(t) ==
  /\ pc[t] \in Running
  /\ Goto(t, "failed")
  /\ UNCHANGED <<server, cache, missed, req, seen, key, readerVars>>

(* Faulty: no deadlock is ever detected.                                   *)
DetectDeadlockNever(t, u) == FALSE /\ Fail(t) /\ u \in Txns

(* Two transactions wait for each other at the index, each with the row    *)
(* the other one needs: PostgreSQL aborts one.                             *)
Waits(t, u) == WaitsForRow(t, u) \/ WaitsForKey(t, u)

DetectDeadlock(t, u) == t # u /\ Waits(t, u) /\ Waits(u, t) /\ Fail(t)

Change(t) == Begin(t) \/ Check(t) \/ Write(t) \/ Enter(t) \/ Invalidate(t) \/ Commit(t)
-----------------------------------------------------------------------------
(* Requests that need tools                                                *)

Stage(f, label) == stage' = [stage EXCEPT ![f] = label]

Connect(r) == [row |-> r, sid |-> server[r].sid, conf |-> server[r].conf]

(* Any live servers stand for those attached and enabled whose credentials *)
(* could be resolved; the routes for one server look it up by its id.      *)
Load(f, k, rows) ==
  /\ stage[f] \notin Busy
  /\ \A r \in rows : Live(r)
  /\ k # "run" => Cardinality(rows) = 1
  /\ Stage(f, "read")
  /\ kind' = [kind EXCEPT ![f] = k]
  /\ asked' = [asked EXCEPT ![f] = {Connect(r) : r \in rows}]
  /\ got' = [got EXCEPT ![f] = {}]
  /\ lost' = [lost EXCEPT ![f] = {}]
  /\ missed' = [missed EXCEPT ![f] = {}]
  /\ UNCHANGED <<server, cache, txnVars, current>>

Remaining(f) == {c \in asked[f] : c.row \notin got[f] \cup lost[f]}

Hit(f) ==
  /\ stage[f] = "read" /\ kind[f] # "refresh"
  /\ \E c \in Remaining(f) :
       /\ cache[c.sid] # Nothing
       /\ got' = [got EXCEPT ![f] = @ \cup {c.row}]
  /\ UNCHANGED <<server, cache, missed, txnVars, stage, kind, asked, lost, current>>

Miss(f) ==
  /\ stage[f] = "read"
  /\ \E c \in Remaining(f) :
       /\ kind[f] = "refresh" \/ cache[c.sid] = Nothing
       /\ current' = [current EXCEPT ![f] = c]
  /\ Stage(f, "fetch")
  /\ UNCHANGED <<server, cache, missed, txnVars, kind, asked, got, lost>>

(* An update of the server was committed since f loaded it, or has already *)
(* invalidated the cache and is about to be committed.                     *)
Raced(f) ==
  \/ current[f].row \in missed[f]
  \/ \E t \in Txns : pc[t] = "commit" /\ Emits(t) /\ Own(t) = current[f].row

(* The server answered with its tools, which are written to the cache.     *)
Store(f) ==
  /\ stage[f] = "fetch"
  /\ cache' = [cache EXCEPT ![current[f].sid] =
                 [row |-> current[f].row, conf |-> current[f].conf, raced |-> Raced(f)]]
  /\ got' = [got EXCEPT ![f] = @ \cup {current[f].row}]
  /\ current' = [current EXCEPT ![f] = Nothing]
  /\ Stage(f, "read")
  /\ UNCHANGED <<server, missed, txnVars, kind, asked, lost>>

(* Faulty: a server that fails ends the loop over all of them.             *)
FetchFailsAll(f) ==
  /\ stage[f] = "fetch"
  /\ lost' = [lost EXCEPT ![f] = @ \cup {current[f].row}]
  /\ current' = [current EXCEPT ![f] = Nothing]
  /\ Stage(f, IF kind[f] = "run" THEN "done" ELSE "failed")
  /\ UNCHANGED <<server, cache, missed, txnVars, kind, asked, got>>

(* The server fails, or Redis when it is written: a run goes on without it. *)
FetchFails(f) ==
  /\ stage[f] = "fetch"
  /\ lost' = [lost EXCEPT ![f] = @ \cup {current[f].row}]
  /\ current' = [current EXCEPT ![f] = Nothing]
  /\ Stage(f, IF kind[f] = "run" THEN "read" ELSE "failed")
  /\ UNCHANGED <<server, cache, missed, txnVars, kind, asked, got>>

(* Redis fails when it is read.                                            *)
ReadFails(f) ==
  /\ stage[f] = "read" /\ kind[f] # "refresh"
  /\ \E c \in Remaining(f) : lost' = [lost EXCEPT ![f] = @ \cup {c.row}]
  /\ Stage(f, IF kind[f] = "run" THEN "read" ELSE "failed")
  /\ UNCHANGED <<server, cache, missed, txnVars, kind, asked, got, current>>

Answer(f) ==
  /\ stage[f] = "read" /\ Remaining(f) = {}
  /\ Stage(f, "done")
  /\ UNCHANGED <<server, cache, missed, txnVars, kind, asked, got, lost, current>>

Read(f) == Hit(f) \/ Miss(f) \/ Store(f) \/ FetchFails(f) \/ ReadFails(f) \/ Answer(f)

(* Faulty: the entry is written without a time to live.                    *)
ExpireNever(k) == FALSE /\ UNCHANGED vars

(* The time to live of an entry is over.                                   *)
Expire(k) ==
  /\ cache[k] # Nothing
  /\ cache' = [cache EXCEPT ![k] = Nothing]
  /\ UNCHANGED <<server, missed, txnVars, readerVars>>

Next ==
  \/ \E t \in Txns : Change(t) \/ Fail(t) \/ \E u \in Txns : DetectDeadlock(t, u)
  \/ \E f \in Readers : Read(f) \/ \E k \in {"run", "list", "refresh"}, rows \in SUBSET Rows : Load(f, k, rows)
  \/ \E k \in Keys : Expire(k)

Spec == Init /\ [][Next]_vars

(* The database and Redis answer, deadlocks are detected and entries       *)
(* expire.  A server that is asked for its tools need not answer: the code *)
(* sets no time limit there.                                               *)
Proceed(f) == Hit(f) \/ Miss(f) \/ ReadFails(f) \/ Answer(f)

Fairness ==
  /\ \A t \in Txns : WF_vars(Change(t))
  /\ WF_vars(\E t, u \in Txns : DetectDeadlock(t, u))
  /\ \A f \in Readers : WF_vars(Proceed(f))
  /\ \A k \in Keys : WF_vars(Expire(k))

FairSpec == Spec /\ Fairness
-----------------------------------------------------------------------------
(* Properties                                                              *)

(* Every variable keeps its type.                                          *)
TypeOK ==
  /\ server \in [Rows -> Row]
  /\ pc \in [Txns -> {"idle"} \cup Running \cup Ended]
  /\ req \in [Txns -> Requests]
  /\ seen \in [Txns -> Row]
  /\ key \in [Txns -> Keys]
  /\ cache \in [Keys -> Entry \cup {Nothing}]
  /\ stage \in [Readers -> {"idle", "done", "failed"} \cup Busy]
  /\ kind \in [Readers -> {"run", "list", "refresh"}]
  /\ asked \in [Readers -> SUBSET Connection]
  /\ got \in [Readers -> SUBSET Rows]
  /\ lost \in [Readers -> SUBSET Rows]
  /\ current \in [Readers -> Connection \cup {Nothing}]
  /\ missed \in [Readers -> SUBSET Rows]

(* The query before a create or a rename and the write after it are two    *)
(* statements: requests that overlap must not end with two servers under   *)
(* one server_id.                                                          *)
UniqueIds ==
  \A r, s \in Rows :
    r # s /\ server[r].state # "absent" /\ server[s].state # "absent" =>
      server[r].sid # server[s].sid

(* The cache holds, under the server_id of a live server, tools that this  *)
(* server no longer offers or that another one offered.                    *)
Stale(k) ==
  /\ cache[k] # Nothing
  /\ \E r \in Rows :
       Live(r) /\ server[r].sid = k /\ (cache[k].row # r \/ cache[k].conf # server[r].conf)

Creates(t) == Commit(t) /\ req[t].op = "create"

(* The invalidation by an update leaves nothing stale behind except what a *)
(* fetch that overlapped it writes: an entry turns stale only if its fetch *)
(* raced an update, or if a server is created under a server_id another    *)
(* one gave up, which invalidates nothing.                                 *)
StaleStep ==
  \A k \in Keys : Stale(k)' /\ ~Stale(k) =>
    cache'[k].raced \/ \E t \in Txns : Creates(t) /\ req[t].sid = k

StaleOnlyIfRaced == [][StaleStep]_vars

(* A server that fails costs a run its own tools only: all the others it   *)
(* loaded are answered.                                                    *)
FailureIsolated ==
  \A f \in Readers : stage[f] = "done" =>
    \A c \in asked[f] : c.row \in got[f] \cup lost[f]

(* Whatever raced, stale tools are not served for ever: the time to live   *)
(* ends them.                                                              *)
StaleHeals == \A k \in Keys : Stale(k) ~> ~Stale(k)

(* Every change of a server ends, although changes hold rows while they    *)
(* wait for server_ids and can so wait for each other in a circle; and so  *)
(* does every request for tools that no server keeps waiting for ever.     *)
RequestsEnd ==
  /\ \A f \in Readers :
       stage[f] \in Busy ~> stage[f] \in {"done", "failed"} \/ [](stage[f] = "fetch")
  /\ <>[](\A t \in Txns : pc[t] \in Ended)

(* PRD 0008 has the cache invalidated "on server config change": when no   *)
(* request is running, no tools of an earlier configuration are cached.    *)
QuietFresh ==
  (\A t \in Txns : pc[t] \notin Running) /\ (\A f \in Readers : stage[f] \notin Busy)
    => \A k \in Keys : ~Stale(k)
=============================================================================
