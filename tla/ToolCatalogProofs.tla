--------------------------- MODULE ToolCatalogProofs ---------------------------
(* What is proved of ToolCatalog, for any number of servers, server_ids,    *)
(* transactions and readers.                                                *)
EXTENDS ToolCatalog, TLAPS

(* No row has two uncommitted versions.                                     *)
RowsApart == \A t, u \in Txns : t # u /\ Holds(t) /\ Holds(u) => Own(t) # Own(u)

(* The transactions that are through with the index.                        *)
Held == {t \in Txns : Entered(t)}

(* A server that is to be changed exists, and one that an update has        *)
(* entered is still there.                                                  *)
Exists ==
  \A t \in Txns : pc[t] \in Running /\ req[t].op # "create" => server[Own(t)].state # "absent"

HeldLive == \A t \in Held : req[t].op = "update" => Live(Own(t))

(* A server_id that t takes and has not committed yet belongs to no other   *)
(* row, and no other transaction takes it.                                  *)
KeyFree ==
  \A t \in Held : SetsKey(t) =>
    \A r \in Rows \ {Own(t)} : server[r].state # "absent" => server[r].sid # req[t].sid

KeysApart ==
  \A t, u \in Held : t # u /\ SetsKey(t) /\ SetsKey(u) => req[t].sid # req[u].sid

(* An update invalidates the server_id that it leaves the server under.     *)
KeyRight == \A t \in Held : req[t].op = "update" => key[t] = NewRow(t).sid

(* Once an update has invalidated, only a fetch that overlaps it writes.    *)
Clean ==
  \A t \in Held : pc[t] = "commit" /\ req[t].op = "update" =>
    cache[key[t]] = Nothing \/ cache[key[t]].raced

(* What a reader loaded is what is committed, unless it missed an update.   *)
Known ==
  \A f \in Readers : stage[f] \in Busy =>
    \A c \in asked[f] :
      c.row \in missed[f] \/ (Live(c.row) /\ c = Connect(c.row))

Current == \A f \in Readers : stage[f] = "fetch" => current[f] \in asked[f]

Locking == HeldLive /\ KeyFree /\ KeysApart /\ KeyRight

IInv == TypeOK /\ UniqueIds /\ Exists /\ RowsApart /\ Locking /\ Clean /\ Known /\ Current
-----------------------------------------------------------------------------
(* Steps                                                                   *)

(* A step of t leaves the other transactions and the readers alone.        *)
Local(t) ==
  /\ req' = req /\ UNCHANGED readerVars
  /\ \A u \in Txns \ {t} : pc'[u] = pc[u] /\ seen'[u] = seen[u] /\ key'[u] = key[u]

(* Steps after which t holds nothing.                                      *)
Lets(t) ==
  /\ pc'[t] \notin {"enter", "invalidate", "commit"}
  /\ pc'[t] \in Running /\ req[t].op # "create" => pc[t] \in Running \/ Live(Own(t))
  /\ UNCHANGED <<server, cache, missed>>

TxnStep(t) == Lets(t) \/ Write(t) \/ Enter(t) \/ Invalidate(t) \/ Commit(t)

(* A step of a reader, or the expiry of an entry, leaves transactions alone. *)
ReaderStep ==
  /\ UNCHANGED <<server, txnVars>>
  /\ \/ \E f \in Readers : Read(f)
     \/ \E f \in Readers, k \in {"run", "list", "refresh"}, rows \in SUBSET Rows : Load(f, k, rows)
     \/ \E k \in Keys : Expire(k)

LEMMA Steps ==
  ASSUME TypeOK, Next
  PROVE  ReaderStep \/ \E t \in Txns : TxnStep(t) /\ Local(t)
<1>1. ASSUME NEW t \in Txns, Change(t) \/ Fail(t) \/ \E u \in Txns : DetectDeadlock(t, u)
      PROVE  TxnStep(t) /\ Local(t)
  <2>1. Begin(t) \/ Check(t) \/ Fail(t) => Lets(t)
    BY DEF TypeOK, Begin, Check, Fail, Goto, Lets, Running
  <2>2. Begin(t) \/ Check(t) \/ Fail(t) => Local(t)
    BY DEF TypeOK, Begin, Check, Fail, Goto, Local
  <2>3. Write(t) \/ Enter(t) => Local(t)
    BY DEF TypeOK, Write, Enter, Goto, Local
  <2>4. Invalidate(t) \/ Commit(t) => Local(t)
    BY DEF TypeOK, Invalidate, Commit, Goto, Local
  <2>5. QED
    BY <1>1, <2>1, <2>2, <2>3, <2>4 DEF Change, DetectDeadlock, TxnStep
<1>2. ASSUME NEW f \in Readers, Read(f) PROVE UNCHANGED <<server, txnVars>>
  BY <1>2 DEF Read, Hit, Miss, Store, FetchFails, ReadFails, Answer
<1>3. ASSUME NEW f \in Readers, NEW k, NEW rows, Load(f, k, rows)
      PROVE  UNCHANGED <<server, txnVars>>
  BY <1>3 DEF Load
<1>4. ASSUME NEW k \in Keys, Expire(k) PROVE UNCHANGED <<server, txnVars>>
  BY <1>4 DEF Expire
<1>5. QED
  BY <1>1, <1>2, <1>3, <1>4 DEF Next, ReaderStep

(* The payload, the server and the loaded row of a transaction.            *)
LEMMA Payload ==
  ASSUME TypeOK, NEW t \in Txns
  PROVE  /\ req[t] \in Request /\ Own(t) \in Rows /\ server[Own(t)] \in Row /\ seen[t] \in Row
         /\ req[t].op = "create" => req[t].sid # Unset /\ req[t].conf # Unset
         /\ SetsKey(t) => req[t].sid \in Keys
BY CatalogAssumption DEF TypeOK, Request, Own, SetsKey, Renames, Supplied

(* What a transaction leaves of its row.                                   *)
LEMMA NewRowIs ==
  ASSUME TypeOK, NEW t \in Txns
  PROVE  /\ NewRow(t) \in Row
         /\ NewRow(t).sid = IF SetsKey(t) THEN req[t].sid ELSE server[Own(t)].sid
         /\ req[t].op = "update" => NewRow(t).state = server[Own(t)].state
         /\ req[t].op = "delete" => NewRow(t).state = "deleted"
         /\ req[t].op = "create" => NewRow(t).state = "live"
<1>1. /\ req[t] \in Request /\ server[Own(t)] \in Row /\ seen[t] \in Row
      /\ req[t].op = "create" => req[t].sid # Unset /\ req[t].conf # Unset
  BY Payload
<1>2. CASE req[t].op = "create"
  BY <1>1, <1>2 DEF NewRow, Row, Request, SetsKey
<1>3. CASE req[t].op = "update"
  BY <1>1, <1>3 DEF NewRow, Row, Request, SetsKey, Renames, Supplied
<1>4. CASE req[t].op = "delete"
  BY <1>1, <1>4 DEF NewRow, Row, Request, SetsKey, Renames
<1>5. QED
  BY <1>1, <1>2, <1>3, <1>4 DEF Request

(* A write that goes through found its server and its server_id free.      *)
LEMMA EnterLets ==
  ASSUME TypeOK, NEW t \in Txns, Enter(t)
  PROVE  /\ pc'[t] \in Running \cup Ended
         /\ pc'[t] \in {"invalidate", "commit"} =>
              /\ ~KeyTaken(t)
              /\ req[t].op = "update" => Live(Own(t))
              /\ pc'[t] = "commit" <=> req[t].op = "create"
BY DEF TypeOK, Enter, Goto, Running, Ended
-----------------------------------------------------------------------------
(* Types                                                                   *)

LEMMA TypeStep == TypeOK /\ Current /\ [Next]_vars => TypeOK'
<1> SUFFICES ASSUME TypeOK, Current, [Next]_vars PROVE TypeOK'
  OBVIOUS
<1>1. CASE UNCHANGED vars
  BY <1>1 DEF TypeOK, vars, txnVars, readerVars
<1>2. ASSUME NEW t \in Txns, Change(t) \/ Fail(t) \/ \E u \in Txns : DetectDeadlock(t, u)
      PROVE  TypeOK'
  <2>1. Own(t) \in Rows /\ NewRow(t) \in Row
    BY Payload, NewRowIs
  <2>2. CASE Begin(t) \/ Check(t) \/ Fail(t)
    <3>1. pc' \in [Txns -> {"idle"} \cup Running \cup Ended]
      BY <2>2 DEF TypeOK, Begin, Check, Fail, Goto, Running, Ended
    <3>2. seen' \in [Txns -> Row] /\ key' \in [Txns -> Keys]
      <4>1. server[Own(t)] \in Row /\ server[Own(t)].sid \in Keys
        BY <2>1 DEF TypeOK, Row
      <4>2. QED
        BY <2>2, <4>1 DEF TypeOK, Begin, Check, Fail
    <3>3. UNCHANGED <<server, cache, missed, req, readerVars>>
      BY <2>2 DEF Begin, Check, Fail
    <3>4. QED
      BY <3>1, <3>2, <3>3 DEF TypeOK, readerVars
  <2>3. CASE Write(t) \/ Enter(t)
    <3>1. pc' \in [Txns -> {"idle"} \cup Running \cup Ended]
      BY <2>3 DEF TypeOK, Write, Enter, Goto, Running, Ended
    <3>2. key' \in [Txns -> Keys]
      BY <2>1, <2>3 DEF TypeOK, Write, Enter, Row
    <3>3. UNCHANGED <<server, cache, missed, req, seen, readerVars>>
      BY <2>3 DEF Write, Enter
    <3>4. QED
      BY <3>1, <3>2, <3>3 DEF TypeOK, readerVars
  <2>4. CASE Invalidate(t)
    BY <2>4 DEF TypeOK, Invalidate, Goto, Running, readerVars
  <2>5. CASE Commit(t)
    BY <2>1, <2>5 DEF TypeOK, Commit, Goto, Ended, readerVars
  <2>6. QED
    BY <1>2, <2>2, <2>3, <2>4, <2>5 DEF Change, DetectDeadlock
<1>3. ASSUME NEW f \in Readers, Read(f) PROVE TypeOK'
  <2>1. CASE Hit(f) \/ Answer(f)
    BY <2>1 DEF TypeOK, Hit, Answer, Stage, Remaining, Connection, txnVars
  <2>2. CASE Miss(f)
    BY <2>2 DEF TypeOK, Miss, Stage, Remaining, Busy, txnVars
  <2>3. CASE Store(f)
    <3>1. current[f] \in Connection
      BY <2>3 DEF TypeOK, Current, Store
    <3>2. /\ current[f].row \in Rows
          /\ [row |-> current[f].row, conf |-> current[f].conf, raced |-> Raced(f)] \in Entry
      BY <3>1 DEF Connection, Entry, Raced
    <3>3. cache' \in [Keys -> Entry \cup {Nothing}] /\ got' \in [Readers -> SUBSET Rows]
      BY <2>3, <3>2 DEF TypeOK, Store
    <3>4. current' \in [Readers -> Connection \cup {Nothing}]
      BY <2>3 DEF TypeOK, Store
    <3>5. QED
      BY <2>3, <3>3, <3>4 DEF TypeOK, Store, Stage, Busy, txnVars
  <2>4. CASE FetchFails(f)
    <3>1. current[f].row \in Rows
      BY <2>4 DEF TypeOK, Current, FetchFails, Connection
    <3>2. QED
      BY <2>4, <3>1 DEF TypeOK, FetchFails, Stage, Busy, txnVars
  <2>5. CASE ReadFails(f)
    BY <2>5 DEF TypeOK, ReadFails, Stage, Busy, Remaining, Connection, txnVars
  <2>6. QED
    BY <1>3, <2>1, <2>2, <2>3, <2>4, <2>5 DEF Read
<1>4. ASSUME NEW f \in Readers, NEW k \in {"run", "list", "refresh"}, NEW rows \in SUBSET Rows,
             Load(f, k, rows)
      PROVE  TypeOK'
  <2>1. {Connect(r) : r \in rows} \subseteq Connection
    BY DEF TypeOK, Connect, Connection, Row
  <2>2. QED
    BY <1>4, <2>1 DEF TypeOK, Load, Stage, Busy, txnVars
<1>5. ASSUME NEW k \in Keys, Expire(k) PROVE TypeOK'
  BY <1>5 DEF TypeOK, Expire, txnVars, readerVars
<1>6. QED
  BY <1>1, <1>2, <1>3, <1>4, <1>5 DEF Next

(* A reader fetches from a server it loaded.                               *)
LEMMA CurrentStep == TypeOK /\ Current /\ [Next]_vars => Current'
<1> SUFFICES ASSUME TypeOK, Current, [Next]_vars PROVE Current'
  OBVIOUS
<1>1. CASE UNCHANGED <<stage, asked, current>>
  BY <1>1 DEF Current
<1>2. ASSUME NEW f \in Readers, Read(f) PROVE Current'
  <2>1. CASE Hit(f)
    BY <2>1 DEF Current, Hit
  <2>2. CASE Miss(f)
    BY <2>2 DEF TypeOK, Current, Miss, Stage, Remaining
  <2>3. CASE Store(f) \/ FetchFails(f) \/ ReadFails(f) \/ Answer(f)
    BY <2>3 DEF TypeOK, Current, Store, FetchFails, ReadFails, Answer, Stage
  <2>4. QED
    BY <1>2, <2>1, <2>2, <2>3 DEF Read
<1>3. ASSUME NEW f \in Readers, NEW k, NEW rows, Load(f, k, rows) PROVE Current'
  BY <1>3 DEF TypeOK, Current, Load, Stage
<1>4. ASSUME NEW k \in Keys, Expire(k) PROVE UNCHANGED <<stage, asked, current>>
  BY <1>4 DEF Expire, readerVars
<1>5. ASSUME NEW t \in Txns, Local(t) PROVE UNCHANGED <<stage, asked, current>>
  BY <1>5 DEF Local, readerVars
<1>6. QED
  BY <1>1, <1>2, <1>3, <1>4, <1>5, Steps DEF ReaderStep, vars, readerVars

(* The initial states are typed.                                           *)
LEMMA InitTypes == Init => TypeOK /\ Current
<1> SUFFICES ASSUME Init PROVE TypeOK /\ Current
  OBVIOUS
<1>1. \A t \in Txns : req[t] \in Requests /\ req[t].row \in Rows
  BY CatalogAssumption DEF Init, Request
<1>2. \A t \in Txns : server[req[t].row] \in Row /\ server[req[t].row].sid \in Keys
  BY <1>1 DEF Init, Row
<1>3. seen \in [Txns -> Row] /\ key \in [Txns -> Keys] /\ req \in [Txns -> Requests]
  BY <1>2 DEF Init
<1>4. QED
  BY <1>3 DEF Init, TypeOK, Current

(* The servers, the requests and the cache have their types.               *)
THEOREM TypeCorrect == Spec => []TypeOK
BY InitTypes, TypeStep, CurrentStep, PTL DEF Spec

(* Every server a reader that has answered had loaded was either answered  *)
(* or has failed: a server that fails takes no other one with it.          *)
THEOREM FailureIsolatedHolds == Spec => []FailureIsolated
<1>1. Init => FailureIsolated
  BY DEF Init, FailureIsolated
<1>2. TypeOK /\ FailureIsolated /\ [Next]_vars => FailureIsolated'
  <2> SUFFICES ASSUME TypeOK, FailureIsolated, [Next]_vars PROVE FailureIsolated'
    OBVIOUS
  <2>1. CASE UNCHANGED <<stage, asked, got, lost>>
    BY <2>1 DEF FailureIsolated
  <2>2. ASSUME NEW f \in Readers, Read(f) PROVE FailureIsolated'
    <3>1. CASE Answer(f)
      BY <3>1 DEF TypeOK, FailureIsolated, Answer, Stage, Remaining
    <3>2. CASE Hit(f) \/ Store(f)
      BY <3>2 DEF TypeOK, FailureIsolated, Hit, Store, Stage
    <3>3. CASE Miss(f) \/ FetchFails(f) \/ ReadFails(f)
      BY <3>3 DEF TypeOK, FailureIsolated, Miss, FetchFails, ReadFails, Stage
    <3>4. QED
      BY <2>2, <3>1, <3>2, <3>3 DEF Read
  <2>3. ASSUME NEW f \in Readers, NEW k, NEW rows, Load(f, k, rows) PROVE FailureIsolated'
    BY <2>3 DEF TypeOK, FailureIsolated, Load, Stage
  <2>4. ASSUME NEW k \in Keys, Expire(k) PROVE UNCHANGED <<stage, asked, got, lost>>
    BY <2>4 DEF Expire, readerVars
  <2>5. ASSUME NEW t \in Txns, Local(t) PROVE UNCHANGED <<stage, asked, got, lost>>
    BY <2>5 DEF Local, readerVars
  <2>6. QED
    BY <2>1, <2>2, <2>3, <2>4, <2>5, Steps DEF ReaderStep, vars, readerVars
<1>3. QED
  BY <1>1, <1>2, TypeCorrect, PTL DEF Spec
-----------------------------------------------------------------------------
(* Locks                                                                   *)

(* A step of t changes no other transaction, and not the row of one that   *)
(* holds its row.                                                          *)
LEMMA OthersKeep ==
  ASSUME TypeOK, NEW t \in Txns, Local(t), NEW u \in Txns \ {t}
  PROVE  /\ pc'[u] = pc[u] /\ req'[u] = req[u] /\ key'[u] = key[u]
         /\ Own(u)' = Own(u) /\ SetsKey(u)' = SetsKey(u)
         /\ Holds(u)' = Holds(u) /\ Entered(u)' = Entered(u) /\ (u \in Held') = (u \in Held)
<1>1. req' = req /\ pc'[u] = pc[u] /\ seen'[u] = seen[u] /\ key'[u] = key[u]
  BY DEF Local
<1>2. Renames(u)' = Renames(u)
  BY <1>1 DEF Renames
<1>3. Own(u)' = Own(u) /\ SetsKey(u)' = SetsKey(u) /\ Emits(u)' = Emits(u)
  BY <1>1, <1>2 DEF Own, SetsKey, Emits
<1>4. Holds(u)' = Holds(u) /\ Entered(u)' = Entered(u)
  BY <1>1, <1>3 DEF Holds, Entered
<1>5. QED
  BY <1>1, <1>3, <1>4 DEF Held

(* What t is changes only when it begins.                                  *)
LEMMA SameRequest ==
  ASSUME NEW t \in Txns, req' = req, seen' = seen
  PROVE  Own(t)' = Own(t) /\ SetsKey(t)' = SetsKey(t) /\ Emits(t)' = Emits(t)
BY DEF Own, SetsKey, Renames, Emits

(* What t leaves of its row depends on that row and on t only.             *)
LEMMA NewRowKept ==
  ASSUME NEW t \in Txns, req' = req, seen'[t] = seen[t], server'[Own(t)] = server[Own(t)]
  PROVE  NewRow(t)' = NewRow(t)
BY DEF NewRow, Own

(* Steps that leave the rows alone keep every lock that is held, and the   *)
(* transaction that takes the step either lets go or keeps what it has.    *)
LEMMA LetsKeeps ==
  ASSUME TypeOK, Locking, NEW t \in Txns, Local(t), UNCHANGED server,
         t \notin Held' \/ (Invalidate(t) /\ t \in Held)
  PROVE  Locking'
<1>1. req' = req
  BY DEF Local
<1>2. Held' \subseteq Held
  BY OthersKeep DEF Held
<1>3. ASSUME NEW u \in Held'
      PROVE  u \in Txns /\ u \in Held /\ seen'[u] = seen[u] /\ key'[u] = key[u]
  <2>1. u \in Txns /\ u \in Held
    BY <1>2 DEF Held
  <2>2. CASE u = t
    BY <1>3, <2>1, <2>2 DEF Invalidate
  <2>3. CASE u # t
    BY <2>1, <2>3 DEF Local
  <2>4. QED
    BY <2>1, <2>2, <2>3
<1>4. ASSUME NEW u \in Held'
      PROVE  Own(u)' = Own(u) /\ SetsKey(u)' = SetsKey(u) /\ NewRow(u)' = NewRow(u)
  BY <1>1, <1>3, <1>4, NewRowKept DEF Own, SetsKey, Renames
<1>5. HeldLive'
  BY <1>1, <1>2, <1>4 DEF Locking, HeldLive, Live
<1>6. KeyFree' /\ KeysApart'
  BY <1>1, <1>2, <1>4 DEF Locking, KeyFree, KeysApart
<1>7. KeyRight'
  BY <1>1, <1>3, <1>4 DEF Locking, KeyRight
<1>8. QED
  BY <1>5, <1>6, <1>7 DEF Locking

(* A write waited for the row, and nothing else takes it.                  *)
LEMMA RowsApartStep ==
  ASSUME TypeOK, RowsApart, NEW t \in Txns, TxnStep(t), Local(t)
  PROVE  RowsApart'
<1>1. \A u \in Txns : Own(u)' = Own(u)
  BY DEF Local, Own
<1>2. ASSUME Holds(t)', NEW u \in Txns \ {t}, Holds(u) PROVE Own(t) # Own(u)
  <2>1. CASE Write(t)
    <3>1. Emits(t) /\ pc[t] = "write" /\ ~WaitsForRow(t, u)
      BY <1>2, <2>1, SameRequest DEF Write, Holds
    <3>2. QED
      BY <1>2, <3>1 DEF WaitsForRow
  <2>2. CASE Enter(t) \/ Invalidate(t)
    <3>1. Holds(t)
      BY <1>2, <2>2, SameRequest DEF Enter, Invalidate, Holds
    <3>2. QED
      BY <1>2, <3>1 DEF RowsApart
  <2>3. CASE Lets(t) \/ Commit(t)
    BY <1>2, <2>3 DEF TypeOK, Lets, Commit, Goto, Holds
  <2>4. QED
    BY <2>1, <2>2, <2>3 DEF TxnStep
<1>3. \A u \in Txns \ {t} : Holds(u)' = Holds(u)
  BY OthersKeep
<1>4. QED
  BY <1>1, <1>2, <1>3 DEF RowsApart

(* What is entered in the index has waited for the server_id it takes.     *)
LEMMA EnterKeeps ==
  ASSUME TypeOK, RowsApart, Locking, NEW t \in Txns, Local(t), Enter(t), t \in Held'
  PROVE  Locking'
<1>1. /\ req' = req /\ seen' = seen /\ server' = server /\ pc[t] = "enter"
      /\ \A u \in Txns \ {t} : ~WaitsForKey(t, u)
      /\ key' = [key EXCEPT ![t] = IF req[t].op = "update" THEN NewRow(t).sid ELSE @]
  BY DEF Enter
<1>2. ASSUME NEW u \in Txns
      PROVE  Own(u)' = Own(u) /\ SetsKey(u)' = SetsKey(u) /\ Emits(u)' = Emits(u) /\ NewRow(u)' = NewRow(u)
  BY <1>1, SameRequest, NewRowKept
<1>3. pc'[t] \in {"invalidate", "commit"} /\ Holds(t)
  BY <1>1, <1>2 DEF Held, Entered, Holds
<1>4. ~KeyTaken(t) /\ (req[t].op = "update" => Live(Own(t)))
  BY <1>3, EnterLets
<1>5. ASSUME NEW u \in Held', u # t
      PROVE  /\ u \in Txns \ {t} /\ u \in Held /\ key'[u] = key[u]
             /\ Own(u) # Own(t)
             /\ SetsKey(t) /\ SetsKey(u) => req[u].sid # req[t].sid
  <2>1. u \in Txns \ {t} /\ u \in Held /\ Entered(u) /\ key'[u] = key[u]
    BY <1>5, OthersKeep DEF Held
  <2>2. Holds(u)
    BY <2>1 DEF Entered
  <2>3. Own(u) # Own(t)
    BY <1>3, <2>1, <2>2 DEF RowsApart
  <2>4. SetsKey(u) => NewRow(u).sid = req[u].sid
    BY <2>1, NewRowIs
  <2>5. QED
    BY <1>1, <2>1, <2>2, <2>3, <2>4 DEF WaitsForKey
<1>6. HeldLive'
  BY <1>1, <1>2, <1>4, <1>5 DEF Locking, HeldLive, Live, Held
<1>7. KeyFree'
  <2>1. SetsKey(t) =>
          \A r \in Rows \ {Own(t)} : server[r].state # "absent" => server[r].sid # req[t].sid
    BY <1>4 DEF KeyTaken
  <2>2. QED
    BY <1>1, <1>2, <1>5, <2>1 DEF Locking, KeyFree, Held
<1>8. KeysApart'
  BY <1>1, <1>2, <1>5 DEF Locking, KeysApart, Held
<1>9. KeyRight'
  <2>1. req[t].op = "update" => key'[t] = NewRow(t).sid
    BY <1>1 DEF TypeOK
  <2>2. QED
    BY <1>1, <1>2, <1>5, <2>1 DEF Locking, KeyRight, Held
<1>10. QED
  BY <1>6, <1>7, <1>8, <1>9 DEF Locking

(* A commit puts the row of t in place and leaves every other one.         *)
LEMMA CommitIs ==
  ASSUME TypeOK, NEW t \in Txns, Commit(t), Local(t)
  PROVE  /\ UNCHANGED <<req, seen, key, cache>> /\ t \notin Held'
         /\ \A r \in Rows \ {Own(t)} : server'[r] = server[r]
         /\ t \notin Held => server' = server /\ missed' = missed
         /\ t \in Held => server'[Own(t)] = NewRow(t)
<1>1. UNCHANGED <<req, seen, key, cache>> /\ pc'[t] = "done" /\ pc[t] = "commit"
  BY DEF TypeOK, Commit, Goto
<1>2. t \notin Held' /\ (t \in Held <=> Emits(t))
  BY <1>1 DEF Held, Entered, Holds
<1>3. Own(t) \in Rows
  BY Payload
<1>4. ~Emits(t) => server' = server /\ missed' = missed
  BY DEF TypeOK, Commit
<1>5. Emits(t) => server' = [server EXCEPT ![Own(t)] = NewRow(t)]
  BY DEF Commit
<1>6. QED
  BY <1>1, <1>2, <1>3, <1>4, <1>5 DEF TypeOK

(* What t commits differs in its server_id from every other row.           *)
LEMMA NewRowApart ==
  ASSUME TypeOK, UniqueIds, Exists, Locking, NEW t \in Held, NEW r \in Rows \ {Own(t)},
         server[r].state # "absent"
  PROVE  NewRow(t).sid # server[r].sid
<1>1. t \in Txns /\ Own(t) \in Rows
  BY Payload DEF Held
<1>2. CASE SetsKey(t)
  BY <1>1, <1>2, NewRowIs DEF Locking, KeyFree
<1>3. CASE ~SetsKey(t)
  <2>1. server[Own(t)].state # "absent"
    BY <1>1, <1>3 DEF SetsKey, Exists, Held, Entered, Holds, Running
  <2>2. NewRow(t).sid = server[Own(t)].sid
    BY <1>1, <1>3, NewRowIs
  <2>3. QED
    BY <1>1, <2>1, <2>2 DEF UniqueIds
<1>4. QED
  BY <1>2, <1>3

(* A commit puts nothing where another transaction holds a lock.           *)
LEMMA CommitKeeps ==
  ASSUME TypeOK, UniqueIds, Exists, RowsApart, Locking, NEW t \in Txns, Commit(t), Local(t), t \in Held
  PROVE  Locking'
<1>1. /\ UNCHANGED <<req, seen, key>> /\ t \notin Held' /\ Own(t) \in Rows
      /\ \A r \in Rows \ {Own(t)} : server'[r] = server[r]
      /\ server'[Own(t)] = NewRow(t)
  BY CommitIs, Payload
<1>2. ASSUME NEW u \in Held'
      PROVE  /\ u \in Txns /\ u \in Held /\ u # t /\ Own(u) # Own(t) /\ Own(u) \in Rows
             /\ Own(u)' = Own(u) /\ SetsKey(u)' = SetsKey(u) /\ NewRow(u)' = NewRow(u)
             /\ server'[Own(u)] = server[Own(u)]
  <2>1. u \in Txns /\ u # t
    BY <1>1, <1>2 DEF Held
  <2>2. u \in Held
    BY <1>2, <2>1, OthersKeep
  <2>3. Own(u) # Own(t) /\ Own(u) \in Rows
    BY <2>1, <2>2, Payload DEF RowsApart, Held, Entered
  <2>4. QED
    BY <1>1, <2>1, <2>2, <2>3, SameRequest, NewRowKept
<1>3. HeldLive'
  BY <1>1, <1>2 DEF Locking, HeldLive, Live
<1>4. KeyFree'
  <2>1. ASSUME NEW u \in Held', SetsKey(u), NEW r \in Rows \ {Own(u)}, server'[r].state # "absent"
        PROVE  server'[r].sid # req[u].sid
    <3>1. CASE r # Own(t)
      BY <1>1, <1>2, <2>1, <3>1 DEF Locking, KeyFree
    <3>2. CASE r = Own(t) /\ SetsKey(t)
      <4>1. NewRow(t).sid = req[t].sid
        BY <3>2, NewRowIs
      <4>2. QED
        BY <1>1, <1>2, <2>1, <3>2, <4>1 DEF Locking, KeysApart
    <3>3. CASE r = Own(t) /\ ~SetsKey(t)
      <4>1. NewRow(t).sid = server[r].sid /\ server[r].state # "absent"
        BY <3>3, NewRowIs DEF SetsKey, Exists, Held, Entered, Holds, Running
      <4>2. QED
        BY <1>1, <1>2, <2>1, <3>3, <4>1 DEF Locking, KeyFree
    <3>4. QED
      BY <3>1, <3>2, <3>3
  <2>2. QED
    BY <1>1, <1>2, <2>1 DEF KeyFree
<1>5. KeysApart'
  BY <1>1, <1>2 DEF Locking, KeysApart
<1>6. KeyRight'
  BY <1>1, <1>2 DEF Locking, KeyRight
<1>7. QED
  BY <1>3, <1>4, <1>5, <1>6 DEF Locking

(* Readers and expiry touch neither servers nor locks.                     *)
LEMMA ReaderKeeps ==
  ASSUME TypeOK, RowsApart, Locking, UniqueIds, UNCHANGED <<server, txnVars>>
  PROVE  RowsApart' /\ Locking' /\ UniqueIds' /\ Held' = Held
<1>1. UNCHANGED <<server, pc, req, seen, key>>
  BY DEF txnVars
<1>2. \A t \in Txns : /\ Own(t)' = Own(t) /\ SetsKey(t)' = SetsKey(t) /\ Emits(t)' = Emits(t)
                     /\ NewRow(t)' = NewRow(t)
  BY <1>1, SameRequest, NewRowKept
<1>3. Held' = Held /\ \A t \in Txns : Holds(t)' = Holds(t)
  BY <1>1, <1>2 DEF Held, Entered, Holds
<1>4. Held \subseteq Txns
  BY DEF Held
<1>5. QED
  BY <1>1, <1>2, <1>3, <1>4 DEF UniqueIds, Locking, RowsApart, HeldLive, KeyFree, KeysApart,
    KeyRight, Live

(* Every step of a transaction keeps the locks.                            *)
LEMMA LockingStep ==
  ASSUME TypeOK, UniqueIds, Exists, RowsApart, Locking, NEW t \in Txns, TxnStep(t), Local(t)
  PROVE  Locking'
<1>1. CASE Lets(t)
  <2>1. t \notin Held' /\ server' = server
    BY <1>1 DEF Lets, Held, Entered, Holds
  <2>2. QED
    BY <2>1, LetsKeeps
<1>2. CASE Write(t) \/ Enter(t)
  <2>1. server' = server
    BY <1>2 DEF Write, Enter
  <2>2. Write(t) => t \notin Held'
    BY DEF TypeOK, Write, Goto, Held, Entered
  <2>3. QED
    BY <1>2, <2>1, <2>2, LetsKeeps, EnterKeeps
<1>3. CASE Invalidate(t)
  <2>1. server' = server /\ (t \in Held' => t \in Held)
    BY <1>3, SameRequest DEF Invalidate, Held, Entered, Holds
  <2>2. QED
    BY <1>3, <2>1, LetsKeeps
<1>4. CASE Commit(t)
  <2>1. t \notin Held => t \notin Held' /\ server' = server
    BY <1>4, CommitIs
  <2>2. QED
    BY <1>4, <2>1, LetsKeeps, CommitKeeps
<1>5. QED
  BY <1>1, <1>2, <1>3, <1>4 DEF TxnStep

(* No row vanishes.                                                        *)
LEMMA ExistsStep == TypeOK /\ Exists /\ Locking /\ [Next]_vars => Exists'
<1> SUFFICES ASSUME TypeOK, Exists, Locking, [Next]_vars PROVE Exists'
  OBVIOUS
<1>1. CASE UNCHANGED <<server, pc, req>>
  BY <1>1 DEF Exists, Own
<1>2. ASSUME NEW t \in Txns, TxnStep(t), Local(t) PROVE Exists'
  <2>1. \A r \in Rows : server[r].state # "absent" => server'[r].state # "absent"
    <3>1. CASE server' = server
      BY <3>1
    <3>2. CASE Commit(t) /\ t \in Held
      <4>1. \A r \in Rows \ {Own(t)} : server'[r] = server[r]
        BY <1>2, <3>2, CommitIs
      <4>2. server'[Own(t)] = NewRow(t) /\ Own(t) \in Rows
        BY <1>2, <3>2, CommitIs, Payload
      <4>3. NewRow(t).state # "absent"
        BY <3>2, NewRowIs, Payload DEF Request, Locking, HeldLive, Live
      <4>4. QED
        BY <4>1, <4>2, <4>3
    <3>3. QED
      BY <1>2, <3>1, <3>2, CommitIs DEF TxnStep, Lets, Write, Enter, Invalidate
  <2>2. \A u \in Txns : Own(u)' = Own(u) /\ Own(u) \in Rows /\ req'[u] = req[u]
    BY <1>2, Payload DEF Local, Own
  <2>3. \A u \in Txns \ {t} : pc'[u] = pc[u]
    BY <1>2 DEF Local
  <2>4. pc'[t] \in Running /\ req[t].op # "create" => server[Own(t)].state # "absent"
    <3>1. CASE pc[t] \in Running
      BY <3>1 DEF Exists
    <3>2. CASE Live(Own(t))
      BY <3>2 DEF Live
    <3>3. ASSUME pc[t] \notin Running, ~Live(Own(t)), req[t].op # "create"
          PROVE  pc'[t] \notin Running
      BY <1>2, <3>3 DEF TypeOK, TxnStep, Lets, Write, Enter, Invalidate, Commit, Running, Goto
    <3>4. QED
      BY <3>1, <3>2, <3>3
  <2>5. QED
    BY <2>1, <2>2, <2>3, <2>4 DEF Exists
<1>3. ReaderStep => UNCHANGED <<server, pc, req>>
  BY DEF ReaderStep, txnVars
<1>4. QED
  BY <1>1, <1>2, <1>3, Steps DEF vars, txnVars

(* No step of a transaction gives two servers one server_id.               *)
LEMMA UniqueStep ==
  ASSUME TypeOK, UniqueIds, Exists, Locking, NEW t \in Txns, TxnStep(t), Local(t)
  PROVE  UniqueIds'
<1>1. CASE server' = server
  BY <1>1 DEF UniqueIds
<1>2. CASE Commit(t) /\ t \in Held
  <2>1. /\ \A r \in Rows \ {Own(t)} : server'[r] = server[r]
        /\ server'[Own(t)] = NewRow(t)
    BY <1>2, CommitIs
  <2>2. QED
    BY <1>2, <2>1, NewRowApart DEF UniqueIds
<1>3. QED
  BY <1>1, <1>2, CommitIs DEF TxnStep, Lets, Write, Enter, Invalidate
-----------------------------------------------------------------------------
(* What readers know, and what they write                                  *)

LEMMA KnownStep == TypeOK /\ Known /\ [Next]_vars => Known'
<1> SUFFICES ASSUME TypeOK, Known, [Next]_vars PROVE Known'
  OBVIOUS
<1>1. CASE UNCHANGED <<server, stage, asked, missed>>
  BY <1>1 DEF Known, Live, Connect
<1>2. ASSUME NEW t \in Txns, Commit(t), Local(t) PROVE Known'
  <2>1. UNCHANGED <<stage, asked>>
    BY <1>2 DEF Local, readerVars
  <2>2. CASE t \notin Held
    <3>1. UNCHANGED <<server, stage, asked, missed>>
      BY <1>2, <2>1, <2>2, CommitIs
    <3>2. QED
      BY <1>1, <3>1
  <2>3. CASE t \in Held
    <3>1. \A r \in Rows \ {Own(t)} : server'[r] = server[r]
      BY <1>2, CommitIs
    <3>2. \A f \in Readers : stage[f] \in Busy => missed'[f] = missed[f] \cup {Own(t)}
      BY <1>2, <2>3 DEF Commit, Held, Entered, Holds
    <3>3. \A f \in Readers : \A c \in asked[f] : c.row \in Rows
      BY DEF TypeOK, Connection
    <3>4. QED
      BY <2>1, <3>1, <3>2, <3>3 DEF Known, Live, Connect
  <2>4. QED
    BY <2>2, <2>3
<1>3. ASSUME NEW f \in Readers, Read(f) PROVE Known'
  <2>1. UNCHANGED <<server, asked, missed>>
    BY <1>3 DEF Read, Hit, Miss, Store, FetchFails, ReadFails, Answer
  <2>2. stage[f] \in Busy /\ \A g \in Readers \ {f} : stage'[g] = stage[g]
    BY <1>3 DEF TypeOK, Read, Hit, Miss, Store, FetchFails, ReadFails, Answer, Stage, Busy
  <2>3. QED
    BY <2>1, <2>2 DEF Known, Live, Connect
<1>4. ASSUME NEW f \in Readers, NEW k, NEW rows \in SUBSET Rows, Load(f, k, rows) PROVE Known'
  <2>1. server' = server /\ asked'[f] = {Connect(r) : r \in rows} /\ \A r \in rows : Live(r)
    BY <1>4 DEF TypeOK, Load
  <2>2. \A c \in asked'[f] : Live(c.row) /\ c = Connect(c.row)
    BY <2>1 DEF Connect
  <2>3. \A g \in Readers \ {f} : stage'[g] = stage[g] /\ asked'[g] = asked[g] /\ missed'[g] = missed[g]
    BY <1>4 DEF TypeOK, Load, Stage
  <2>4. QED
    BY <2>1, <2>2, <2>3 DEF Known, Live, Connect
<1>5. ASSUME NEW k \in Keys, Expire(k) PROVE UNCHANGED <<server, stage, asked, missed>>
  BY <1>5 DEF Expire, readerVars
<1>6. ASSUME NEW t \in Txns, Local(t), TxnStep(t), ~Commit(t)
      PROVE  UNCHANGED <<server, stage, asked, missed>>
  BY <1>6 DEF Local, TxnStep, Lets, Write, Enter, Invalidate, readerVars
<1>7. QED
  BY <1>1, <1>2, <1>3, <1>4, <1>5, <1>6, Steps DEF ReaderStep, vars, readerVars

(* What a fetch that overlapped no update writes is what the server has.   *)
LEMMA StoreFresh ==
  ASSUME TypeOK, Known, Current, NEW f \in Readers, Store(f)
  PROVE  /\ current[f] \in Connection
         /\ cache'[current[f].sid].row = current[f].row
         /\ cache'[current[f].sid].conf = current[f].conf
         /\ cache'[current[f].sid].raced = Raced(f)
         /\ \A k \in Keys \ {current[f].sid} : cache'[k] = cache[k]
         /\ ~Raced(f) => Live(current[f].row) /\ current[f] = Connect(current[f].row)
<1>1. current[f] \in asked[f] /\ stage[f] \in Busy
  BY DEF Store, Current, Busy
<1>2. current[f] \in Connection /\ current[f].sid \in Keys
  BY <1>1 DEF TypeOK, Connection
<1>3. cache' = [cache EXCEPT ![current[f].sid] =
                  [row |-> current[f].row, conf |-> current[f].conf, raced |-> Raced(f)]]
  BY DEF Store
<1>4. ~Raced(f) => Live(current[f].row) /\ current[f] = Connect(current[f].row)
  BY <1>1 DEF Known, Raced
<1>5. QED
  BY <1>2, <1>3, <1>4 DEF TypeOK

(* Nothing but a fetch that overlaps it undoes an invalidation.            *)
LEMMA CleanStep ==
  ASSUME TypeOK, UniqueIds, Exists, RowsApart, Locking, Clean, Known, Current, Next
  PROVE  Clean'
<1>1. ASSUME NEW t \in Txns, TxnStep(t), Local(t) PROVE Clean'
  <2>1. ASSUME NEW u \in Held', u # t, pc'[u] = "commit", req'[u].op = "update"
        PROVE  cache'[key'[u]] = Nothing \/ cache'[key'[u]].raced
    <3>1. /\ u \in Held /\ u \in Txns /\ pc[u] = "commit" /\ req[u].op = "update" /\ key'[u] = key[u]
          /\ key[u] \in Keys
      BY <1>1, <2>1, OthersKeep DEF Held, TypeOK
    <3>2. cache[key[u]] = Nothing \/ cache[key[u]].raced
      BY <3>1 DEF Clean
    <3>3. cache'[key[u]] = cache[key[u]] \/ cache'[key[u]] = Nothing
      BY <1>1, <3>1 DEF TypeOK, TxnStep, Lets, Write, Enter, Invalidate, Commit
    <3>4. QED
      BY <3>1, <3>2, <3>3
  <2>2. ASSUME t \in Held', pc'[t] = "commit", req'[t].op = "update"
        PROVE  cache'[key'[t]] = Nothing
    <3>1. req' = req
      BY <1>1 DEF Local
    <3>2. ~Lets(t) /\ ~Commit(t)
      BY <2>2 DEF Lets, Commit, Goto, TypeOK
    <3>3. ~Write(t) /\ ~Enter(t)
      BY <2>2, <3>1, EnterLets DEF TypeOK, Write, Goto
    <3>4. Invalidate(t)
      BY <1>1, <3>2, <3>3 DEF TxnStep
    <3>5. QED
      BY <3>4 DEF TypeOK, Invalidate
  <2>3. QED
    BY <2>1, <2>2 DEF Clean
<1>2. ASSUME ReaderStep, NEW t \in Held', pc'[t] = "commit", req'[t].op = "update"
      PROVE  cache'[key'[t]] = Nothing \/ cache'[key'[t]].raced
  <2>1. /\ t \in Held /\ t \in Txns /\ pc[t] = "commit" /\ req[t].op = "update"
        /\ key' = key /\ key[t] \in Keys
    BY <1>2, ReaderKeeps DEF ReaderStep, txnVars, Held, TypeOK
  <2>2. cache[key[t]] = Nothing \/ cache[key[t]].raced
    BY <2>1 DEF Clean
  <2>3. CASE \E f \in Readers : Store(f)
    <3>1. PICK f \in Readers : Store(f)
      BY <2>3
    <3>2. CASE key[t] # current[f].sid
      BY <2>1, <2>2, <3>1, <3>2, StoreFresh
    <3>3. CASE key[t] = current[f].sid /\ ~Raced(f)
      <4>1. Live(current[f].row) /\ current[f] = Connect(current[f].row) /\ current[f].row \in Rows
        BY <3>1, <3>3, StoreFresh DEF Connection
      <4>2. current[f].row # Own(t)
        BY <2>1, <3>3 DEF Raced, Held, Entered, Holds
      <4>3. server[current[f].row].state # "absent" /\ server[current[f].row].sid = key[t]
        BY <3>3, <4>1 DEF Live, Connect
      <4>4. NewRow(t).sid # key[t]
        BY <2>1, <4>1, <4>2, <4>3, NewRowApart
      <4>5. QED
        BY <2>1, <4>4 DEF Locking, KeyRight
    <3>4. CASE key[t] = current[f].sid /\ Raced(f)
      BY <2>1, <3>1, <3>4, StoreFresh
    <3>5. QED
      BY <3>2, <3>3, <3>4
  <2>4. CASE ~\E f \in Readers : Store(f)
    <3>1. cache'[key[t]] = cache[key[t]] \/ cache'[key[t]] = Nothing
      BY <1>2, <2>1, <2>4 DEF TypeOK, ReaderStep, Read, Hit, Miss, FetchFails, ReadFails, Answer, Load, Expire
    <3>2. QED
      BY <2>1, <2>2, <3>1
  <2>5. QED
    BY <2>3, <2>4
<1>3. ReaderStep => Clean'
  BY <1>2 DEF Clean
<1>4. QED
  BY <1>1, <1>3, Steps
-----------------------------------------------------------------------------
(* The invariant                                                           *)

LEMMA Inductive == IInv /\ [Next]_vars => IInv'
<1> SUFFICES ASSUME IInv, [Next]_vars PROVE IInv'
  OBVIOUS
<1> USE DEF IInv
<1>1. TypeOK' /\ Current' /\ Known' /\ Exists'
  BY TypeStep, CurrentStep, KnownStep, ExistsStep
<1>2. CASE UNCHANGED vars
  <2>1. UniqueIds' /\ RowsApart' /\ Locking' /\ Held' = Held
    BY <1>2, ReaderKeeps DEF vars
  <2>2. Clean'
    BY <1>2, <2>1 DEF vars, txnVars, Clean
  <2>3. QED
    BY <1>1, <2>1, <2>2
<1>3. CASE Next
  <2>1. Clean'
    BY <1>3, CleanStep
  <2>2. UniqueIds' /\ RowsApart' /\ Locking'
    BY <1>3, Steps, UniqueStep, RowsApartStep, LockingStep, ReaderKeeps DEF ReaderStep
  <2>3. QED
    BY <1>1, <2>1, <2>2
<1>4. QED
  BY <1>2, <1>3

(* The invariant holds at first.                                           *)
LEMMA Initially == Init => IInv
<1> SUFFICES ASSUME Init PROVE IInv
  OBVIOUS
<1>1. TypeOK /\ Current
  BY InitTypes
<1>2. UniqueIds
  BY DEF Init, UniqueIds
<1>3. Held = {}
  BY DEF Init, Held, Entered, Holds
<1>4. RowsApart /\ Locking /\ Clean
  BY <1>3 DEF Init, Holds, Locking, RowsApart, HeldLive, KeyFree, KeysApart, KeyRight, Clean
<1>5. Known
  BY DEF Init, Known, Busy
<1>6. Exists
  BY DEF Init, Exists, Running
<1>7. QED
  BY <1>1, <1>2, <1>4, <1>5, <1>6 DEF IInv

(* The invariant holds always: locks, server_ids and what readers know.    *)
THEOREM Invariant == Spec => []IInv
BY Initially, Inductive, PTL DEF Spec

(* However many requests create, rename and delete servers at once, the    *)
(* query for the server_id, the locks and the unique index leave no two    *)
(* servers with one server_id.                                             *)
THEOREM UniqueHolds == Spec => []UniqueIds
<1>1. IInv => UniqueIds
  BY DEF IInv
<1>2. QED
  BY <1>1, Invariant, PTL

LEMMA TurnsStale == IInv /\ [Next]_vars => StaleStep
<1> SUFFICES ASSUME IInv, [Next]_vars, NEW k \in Keys, Stale(k)', ~Stale(k)
             PROVE  cache'[k].raced \/ \E t \in Txns : Creates(t) /\ req[t].sid = k
  BY DEF StaleStep
<1> USE DEF IInv
<1>1. PICK r \in Rows : /\ cache'[k] # Nothing
                        /\ server'[r].state = "live" /\ server'[r].sid = k
                        /\ cache'[k].row # r \/ cache'[k].conf # server'[r].conf
  BY DEF Stale, Live
<1>2. ~(server'[r] = server[r] /\ cache'[k] = cache[k])
  BY <1>1 DEF Stale, Live
<1>3. CASE UNCHANGED vars
  BY <1>2, <1>3 DEF vars
<1>4. ASSUME NEW t \in Txns, TxnStep(t), Local(t)
      PROVE  cache'[k].raced \/ \E u \in Txns : Creates(u) /\ req[u].sid = k
  <2>1. CASE ~Commit(t)
    <3>1. server' = server
      BY <1>4, <2>1 DEF TxnStep, Lets, Write, Enter, Invalidate
    <3>2. cache'[k] = cache[k]
      BY <1>1, <1>4, <2>1 DEF TypeOK, TxnStep, Lets, Write, Enter, Invalidate
    <3>3. QED
      BY <1>2, <3>1, <3>2
  <2>2. CASE Commit(t)
    <3>1. cache' = cache /\ t \in Held /\ r = Own(t) /\ server'[r] = NewRow(t)
      BY <1>2, <1>4, <2>2, CommitIs
    <3>2. pc[t] = "commit"
      BY <2>2 DEF Commit
    <3>3. CASE req[t].op = "create"
      BY <1>1, <2>2, <3>1, <3>3, NewRowIs DEF Creates, SetsKey
    <3>4. CASE req[t].op = "delete"
      BY <1>1, <3>1, <3>4, NewRowIs
    <3>5. CASE req[t].op = "update"
      <4>1. key[t] = k
        BY <1>1, <3>1, <3>5 DEF Locking, KeyRight
      <4>2. QED
        BY <1>1, <3>1, <3>2, <3>5, <4>1 DEF Clean
    <3>6. QED
      BY <3>3, <3>4, <3>5, Payload DEF Request
  <2>3. QED
    BY <2>1, <2>2
<1>5. CASE ReaderStep
  <2>1. server' = server
    BY <1>5 DEF ReaderStep
  <2>2. PICK f \in Readers : Store(f)
    <3>1. ASSUME ~\E f \in Readers : Store(f) PROVE cache'[k] = cache[k]
      BY <1>1, <1>5, <3>1 DEF TypeOK, ReaderStep, Read, Hit, Miss, FetchFails, ReadFails, Answer, Load, Expire
    <3>2. QED
      BY <1>2, <2>1, <3>1
  <2>3. k = current[f].sid /\ current[f].row \in Rows
    BY <1>2, <2>1, <2>2, StoreFresh DEF Connection
  <2>4. CASE Raced(f)
    BY <2>2, <2>3, <2>4, StoreFresh
  <2>5. CASE ~Raced(f)
    <3>1. Live(current[f].row) /\ current[f] = Connect(current[f].row)
      BY <2>2, <2>5, StoreFresh
    <3>2. server[current[f].row].sid = k /\ server[current[f].row].conf = current[f].conf
      BY <2>3, <3>1 DEF Connect
    <3>3. r = current[f].row
      BY <1>1, <2>1, <2>3, <3>1, <3>2 DEF UniqueIds, Live
    <3>4. QED
      BY <1>1, <2>1, <2>2, <2>3, <3>2, <3>3, StoreFresh
  <2>6. QED
    BY <2>4, <2>5
<1>6. QED
  BY <1>3, <1>4, <1>5, Steps

(* An entry turns stale only because its fetch overlapped an update, or    *)
(* because a server was created under a server_id that another gave up.    *)
THEOREM StaleOnlyIfRacedHolds == Spec => StaleOnlyIfRaced
<1>1. IInv /\ [Next]_vars => StaleStep
  BY TurnsStale
<1>2. QED
  BY <1>1, Invariant, PTL DEF Spec, StaleOnlyIfRaced
-----------------------------------------------------------------------------
(* When the promise of PRD 0008 is kept                                    *)

(* No update of a server is committed between a request's loading it and   *)
(* the end of its fetch, or about to be.                                   *)
FetchesApart == \A f \in Readers : stage[f] = "fetch" => ~Raced(f)

(* No server is created under a server_id whose tools are cached.          *)
CreatesClean ==
  \A t \in Txns : pc[t] = "commit" /\ req[t].op = "create" => cache[req[t].sid] = Nothing

NoneRaced == \A k \in Keys : cache[k] # Nothing => ~cache[k].raced

FreshAll == IInv /\ NoneRaced /\ \A k \in Keys : ~Stale(k)

LEMMA NoneRacedStep == TypeOK /\ Known /\ Current /\ NoneRaced /\ FetchesApart /\ [Next]_vars => NoneRaced'
<1> SUFFICES ASSUME TypeOK, Known, Current, NoneRaced, FetchesApart, [Next]_vars, NEW k \in Keys
             PROVE  cache'[k] = Nothing \/ ~cache'[k].raced
  BY DEF NoneRaced
<1>1. ASSUME NEW f \in Readers, Store(f)
      PROVE  cache'[k] = cache[k] \/ ~cache'[k].raced
  <2>1. ~Raced(f)
    BY <1>1 DEF Store, FetchesApart
  <2>2. QED
    BY <1>1, <2>1, StoreFresh
<1>2. ASSUME NEW t \in Txns, TxnStep(t)
      PROVE  cache'[k] = cache[k] \/ cache'[k] = Nothing
  BY <1>2 DEF TypeOK, TxnStep, Lets, Write, Enter, Invalidate, Commit
<1>3. ASSUME ReaderStep, ~\E f \in Readers : Store(f)
      PROVE  cache'[k] = cache[k] \/ cache'[k] = Nothing
  BY <1>3 DEF TypeOK, ReaderStep, Read, Hit, Miss, FetchFails, ReadFails, Answer, Load, Expire
<1>4. UNCHANGED vars => cache'[k] = cache[k]
  BY DEF vars
<1>5. QED
  BY <1>1, <1>2, <1>3, <1>4, Steps DEF NoneRaced

LEMMA FreshAllStep == FreshAll /\ FetchesApart /\ CreatesClean /\ [Next]_vars => FreshAll'
<1> SUFFICES ASSUME FreshAll, FetchesApart, CreatesClean, [Next]_vars PROVE FreshAll'
  OBVIOUS
<1>1. IInv' /\ NoneRaced'
  BY Inductive, NoneRacedStep DEF FreshAll, IInv
<1>2. ASSUME NEW k \in Keys, Stale(k)' PROVE FALSE
  <2>1. cache'[k] # Nothing /\ ~cache'[k].raced
    BY <1>1, <1>2 DEF Stale, NoneRaced
  <2>2. PICK t \in Txns : Creates(t) /\ req[t].sid = k
    BY <1>2, <2>1, TurnsStale DEF FreshAll, StaleStep
  <2>3. cache'[k] = Nothing
    BY <2>2 DEF Creates, Commit, CreatesClean
  <2>4. QED
    BY <2>1, <2>3
<1>3. QED
  BY <1>1, <1>2 DEF FreshAll

(* PRD 0008 means the cache to be invalidated "on server config change".   *)
(* It is if no fetch overlaps a change of its server and no server is      *)
(* created under a server_id whose tools are still cached: then no stale   *)
(* tools are cached at any time, and so not when no request is running.    *)
THEOREM QuietFreshHolds == Spec /\ []FetchesApart /\ []CreatesClean => []QuietFresh
<1>1. Init => FreshAll
  <2> SUFFICES ASSUME Init PROVE FreshAll
    OBVIOUS
  <2>1. \A k \in Keys : cache[k] = Nothing
    BY DEF Init
  <2>2. QED
    BY <2>1, Initially DEF FreshAll, NoneRaced, Stale
<1>2. FreshAll => QuietFresh
  BY DEF FreshAll, QuietFresh
<1>3. QED
  BY <1>1, <1>2, FreshAllStep, PTL DEF Spec
=============================================================================
