---------------------- MODULE ModelConfigRegistryProofs -----------------------
(* What is proved of ModelConfigRegistry, for any number of configs, types  *)
(* and overlapping requests.                                                *)
EXTENDS ModelConfigRegistry, TLAPS

(* No row has two uncommitted versions.                                    *)
LocksApart == \A t, u \in Txns : t # u => Locked(t) \cap Locked(u) = {}

(* What a transaction cleared still matches, for its row locks keep it so.  *)
Found ==
  \A t \in Txns :
    /\ pc[t] = "idle" => victims[t] = {}
    /\ pc[t] \in {"scan", "clear"} => AsksDefault(t)
    /\ pc[t] \in {"write", "check", "commit"} =>
         \A i \in victims[t] : AsksDefault(t) /\ IsOtherDefault(t, i)

(* A create has its id to itself; a change has loaded a live config, and a  *)
(* config that exists never vanishes.                                       *)
OwnIds ==
  \A t, u \in Txns :
    t # u /\ req[t].op = "create" /\ req[u].op = "create" /\ Own(t) = Own(u) =>
      pc[t] = "idle" \/ pc[u] = "idle"

Loaded ==
  \A t \in Txns : pc[t] \in Running =>
    IF req[t].op = "create"
    THEN row[Own(t)].state = "absent"
    ELSE seen[t].state = "live" /\ row[Own(t)].state # "absent"

(* The indexes: what a transaction has entered clashes with no committed    *)
(* row that it leaves as it is, nor with what it leaves in the others, nor  *)
(* with what another one has entered.                                       *)
Enters(t) == Entered(t) /\ Changes(t)

IndexesHold ==
  \A t \in Txns : Enters(t) =>
    /\ \A i \in Ids \ Locked(t) : ~Clash(NewRow(t), row[i])
    /\ \A i \in Locked(t) \ {Own(t)} : ~Clash(NewRow(t), Version(t, i))
    /\ \A u \in Txns \ {t} : Enters(u) => ~Clash(NewRow(t), NewRow(u))

IInv == TypeOK /\ Unique /\ LocksApart /\ Found /\ OwnIds /\ Loaded /\ IndexesHold
-----------------------------------------------------------------------------
(* Steps: each is one transaction's, and most only move its pc.            *)

Local(t) ==
  /\ req' = req
  /\ \A u \in Txns \ {t} : pc'[u] = pc[u] /\ seen'[u] = seen[u] /\ victims'[u] = victims[u]

Ends(t) ==
  /\ pc[t] \in Running
  /\ pc' = [pc EXCEPT ![t] = pc'[t]] /\ pc'[t] \in Ended \ {"done"}
  /\ UNCHANGED <<row, req, seen, victims>>

StepOf(t) ==
  \/ BeginCreate(t) \/ BeginChange(t) \/ Scan(t) \/ Clear(t) \/ WriteRow(t) \/ Enter(t)
  \/ Commit(t) \/ Ends(t)

(* Every step is one of these, of a single transaction.                    *)
LEMMA Steps ==
  ASSUME TypeOK, [Next]_vars
  PROVE  UNCHANGED vars \/ \E t \in Txns : StepOf(t) /\ Local(t)
<1>1. CASE UNCHANGED vars
  BY <1>1
<1>2. CASE Next
  <2>1. PICK t \in Txns : \/ BeginCreate(t) \/ BeginChange(t) \/ Step(t) \/ Fail(t)
                          \/ \E u \in Txns : DetectDeadlock(t, u)
    BY <1>2 DEF Next
  <2>2. Fail(t) => Ends(t)
    BY DEF TypeOK, Fail, Ends, Goto, Ended
  <2>3. Conflict(t) => Ends(t)
    BY DEF TypeOK, Conflict, Ends, Goto, Ended, Running
  <2>4. RefreshFails(t) => Ends(t)
    BY DEF TypeOK, RefreshFails, Ends, Goto, Ended, Running
  <2>5. StepOf(t)
    BY <2>1, <2>2, <2>3, <2>4 DEF StepOf, Step, DetectDeadlock
  <2>6. Local(t)
    BY <2>5 DEF TypeOK, StepOf, Local, BeginCreate, BeginChange, Scan, Clear, WriteRow,
      Enter, Commit, Ends, Goto
  <2>7. QED
    BY <2>5, <2>6
<1>3. QED
  BY <1>1, <1>2

(* The versions a transaction leaves are rows.                             *)
LEMMA VersionType ==
  ASSUME TypeOK, NEW t \in Txns
  PROVE  NewRow(t) \in Row /\ \A i \in Ids : Version(t, i) \in Row
<1>1. /\ req[t] \in Request /\ Own(t) \in Ids /\ row[Own(t)] \in Row /\ seen[t] \in Row
      /\ req[t].op = "create" => req[t].slug # Unset /\ req[t].type # Unset /\ req[t].dflt # Unset
  BY RegistryAssumption DEF TypeOK, Request, Own
<1>2. NewRow(t) \in Row
  <2>1. CASE req[t].op = "create"
    BY <1>1, <2>1 DEF NewRow, Row, Request
  <2>2. CASE req[t].op = "update"
    BY <1>1, <2>2 DEF NewRow, Updated, Supplied, Row, Request
  <2>3. CASE req[t].op = "delete"
    BY <1>1, <2>3 DEF NewRow, Row, Request
  <2>4. QED
    BY <1>1, <2>1, <2>2, <2>3 DEF Request
<1>3. ASSUME NEW i \in Ids PROVE Version(t, i) \in Row
  BY <1>2 DEF TypeOK, Version, Row
<1>4. QED
  BY <1>2, <1>3

LEMMA TypeStep == TypeOK /\ [Next]_vars => TypeOK'
<1> SUFFICES ASSUME TypeOK, [Next]_vars PROVE TypeOK'
  OBVIOUS
<1>1. CASE UNCHANGED vars
  BY <1>1 DEF TypeOK, vars
<1>2. CASE \E t \in Txns : StepOf(t) /\ Local(t)
  <2>1. PICK t \in Txns : StepOf(t)
    BY <1>2
  <2>2. CASE BeginCreate(t) \/ BeginChange(t)
    <3>1. Own(t) \in Ids
      BY RegistryAssumption DEF TypeOK, Own, Request
    <3>2. FirstPoint(t) \in Running
      BY DEF FirstPoint, Running
    <3>3. QED
      BY <2>2, <3>1, <3>2 DEF TypeOK, BeginCreate, BeginChange, Goto, Ended
  <2>3. CASE Scan(t) \/ Clear(t)
    BY <2>3 DEF TypeOK, Scan, Clear, Goto, Running
  <2>4. CASE WriteRow(t) \/ Enter(t)
    BY <2>4 DEF TypeOK, WriteRow, Enter, Goto, Running
  <2>5. CASE Commit(t)
    BY <2>5, VersionType DEF TypeOK, Commit, Goto, Ended
  <2>6. CASE Ends(t)
    BY <2>6 DEF TypeOK, Ends
  <2>7. QED
    BY <2>1, <2>2, <2>3, <2>4, <2>5, <2>6 DEF StepOf
<1>3. QED
  BY <1>1, <1>2, Steps

(* The row and the fields of the payload and the loaded row have their type. *)
THEOREM TypeCorrect == Spec => []TypeOK
<1>1. Init => TypeOK
  BY RegistryAssumption DEF Init, TypeOK, Request
<1>2. QED
  BY <1>1, TypeStep, PTL DEF Spec
-----------------------------------------------------------------------------
(* What a step leaves alone                                                *)

LEMMA Clashes ==
  ASSUME NEW r \in Row, NEW s \in Row
  PROVE  /\ Clash(r, s) => Clash(s, r)
         /\ Clash(r, [s EXCEPT !.dflt = FALSE]) => Clash(r, s)
BY DEF Clash, Row

(* A step of t moves no other transaction.                                 *)
LEMMA OthersKeep ==
  ASSUME NEW t \in Txns, Local(t), NEW u \in Txns \ {t}
  PROVE  /\ Own(u)' = Own(u) /\ Changes(u)' = Changes(u)
         /\ AsksDefault(u)' = AsksDefault(u) /\ TargetType(u)' = TargetType(u)
         /\ Written(u)' = Written(u) /\ Cleared(u)' = Cleared(u)
         /\ Locked(u)' = Locked(u) /\ Enters(u)' = Enters(u)
<1>1. /\ req' = req /\ pc'[u] = pc[u] /\ seen'[u] = seen[u] /\ victims'[u] = victims[u]
  BY DEF Local
<1>2. /\ Own(u)' = Own(u) /\ Changes(u)' = Changes(u)
      /\ AsksDefault(u)' = AsksDefault(u) /\ TargetType(u)' = TargetType(u)
      /\ Entered(u)' = Entered(u)
  BY <1>1 DEF Own, Changes, AsksDefault, TargetType, Entered
<1>3. Written(u)' = Written(u) /\ Cleared(u)' = Cleared(u)
  BY <1>1, <1>2 DEF Written, Cleared
<1>4. QED
  BY <1>2, <1>3 DEF Locked, Enters

(* Of the rows another transaction locked, a step changes none.            *)
LEMMA LockedKept ==
  ASSUME TypeOK, LocksApart, NEW t \in Txns, StepOf(t), NEW u \in Txns \ {t},
         NEW i \in Ids, i \in Locked(u)
  PROVE  row'[i] = row[i]
<1>1. i \notin Locked(t)
  BY DEF LocksApart
<1>2. CASE Commit(t)
  BY <1>1, <1>2 DEF Commit
<1>3. CASE ~Commit(t)
  BY <1>3 DEF StepOf, BeginCreate, BeginChange, Scan, Clear, WriteRow, Enter, Ends
<1>4. QED
  BY <1>2, <1>3

(* The version of its own row that a transaction leaves depends on no other. *)
LEMMA NewRowKept ==
  ASSUME NEW t \in Txns, req' = req, seen'[t] = seen[t], row'[Own(t)] = row[Own(t)]
  PROVE  NewRow(t)' = NewRow(t)
BY DEF NewRow, Own, Updated, Supplied

LEMMA LocksStep ==
  ASSUME TypeOK, LocksApart, Found, NEW t \in Txns, StepOf(t), Local(t)
  PROVE  LocksApart'
<1>1. \A u \in Txns \ {t} : Locked(u)' = Locked(u)
  BY OthersKeep
<1>2. Own(t)' = Own(t) /\ (seen'[t] = seen[t] => Changes(t)' = Changes(t))
  BY DEF Local, Own, Changes
<1>3. \A u \in Txns \ {t} : Locked(t)' \cap Locked(u) = {}
  <2>1. CASE BeginCreate(t) \/ BeginChange(t)
    <3>1. victims'[t] = {} /\ pc'[t] \in {"scan", "write", "missing"}
      BY <2>1 DEF TypeOK, Found, BeginCreate, BeginChange, Goto, FirstPoint
    <3>2. Locked(t)' = {}
      BY <3>1 DEF Locked, Written, Cleared
    <3>3. QED
      BY <3>2
  <2>2. CASE Scan(t)
    <3>1. Locked(t)' = {}
      BY <2>2 DEF TypeOK, Scan, Goto, Locked, Written, Cleared
    <3>2. QED
      BY <3>1
  <2>3. CASE Clear(t)
    <3>1. Locked(t)' \subseteq victims[t]
      BY <2>3 DEF TypeOK, Clear, Goto, Locked, Written, Cleared
    <3>2. QED
      BY <2>3, <3>1 DEF Clear, WaitsToClear
  <2>4. CASE WriteRow(t)
    <3>1. /\ Locked(t)' \subseteq (IF Changes(t) THEN {Own(t)} ELSE {}) \cup victims[t]
          /\ Locked(t) = victims[t]
      BY <1>2, <2>4 DEF TypeOK, WriteRow, Goto, Locked, Written, Cleared
    <3>2. \A u \in Txns \ {t} : victims[t] \cap Locked(u) = {}
      BY <3>1 DEF LocksApart
    <3>3. \A u \in Txns \ {t} : Changes(t) => Own(t) \notin Locked(u)
      BY <2>4 DEF WriteRow, WaitsToWrite
    <3>4. QED
      BY <3>1, <3>2, <3>3
  <2>5. CASE Enter(t) \/ Commit(t) \/ Ends(t)
    <3>1. Locked(t)' \subseteq Locked(t)
      BY <1>2, <2>5 DEF TypeOK, Enter, Commit, Ends, Goto, Ended, Locked, Written, Cleared
    <3>2. QED
      BY <3>1 DEF LocksApart
  <2>6. QED
    BY <2>1, <2>2, <2>3, <2>4, <2>5 DEF StepOf
<1>4. QED
  BY <1>1, <1>3 DEF LocksApart

(* What the conjunct Found says of one transaction.                        *)
FoundBy(t) ==
  /\ pc[t] = "idle" => victims[t] = {}
  /\ pc[t] \in {"scan", "clear"} => AsksDefault(t)
  /\ pc[t] \in {"write", "check", "commit"} =>
       \A i \in victims[t] : AsksDefault(t) /\ IsOtherDefault(t, i)

LEMMA FoundStep ==
  ASSUME TypeOK, LocksApart, Found, NEW t \in Txns, StepOf(t), Local(t)
  PROVE  Found'
<1>1. ASSUME NEW u \in Txns \ {t} PROVE FoundBy(u)'
  <2>1. /\ pc'[u] = pc[u] /\ victims'[u] = victims[u] /\ FoundBy(u)
        /\ AsksDefault(u)' = AsksDefault(u) /\ TargetType(u)' = TargetType(u) /\ Own(u)' = Own(u)
    BY OthersKeep DEF Local, Found, FoundBy
  <2>2. ASSUME pc[u] \in {"write", "check", "commit"}, NEW i \in victims[u]
        PROVE  IsOtherDefault(u, i)'
    <3>1. i \in Ids /\ i \in Locked(u)
      BY <2>2 DEF TypeOK, Locked, Cleared
    <3>2. row'[i] = row[i]
      BY <3>1, LockedKept
    <3>3. IsOtherDefault(u, i)
      BY <2>1, <2>2 DEF FoundBy
    <3>4. QED
      BY <2>1, <3>2, <3>3 DEF IsOtherDefault
  <2>3. QED
    BY <2>1, <2>2 DEF FoundBy
<1>2. FoundBy(t)'
  <2>1. FoundBy(t) /\ AsksDefault(t)' = AsksDefault(t)
    BY DEF Found, FoundBy, AsksDefault, Local
  <2>2. CASE BeginCreate(t) \/ BeginChange(t)
    <3>1. victims'[t] = {}
      BY <2>1, <2>2 DEF FoundBy, BeginCreate, BeginChange
    <3>2. pc'[t] \in {"write", "missing"} \/ (pc'[t] = "scan" /\ AsksDefault(t))
      BY <2>2 DEF TypeOK, BeginCreate, BeginChange, Goto, FirstPoint
    <3>3. QED
      BY <2>1, <3>1, <3>2 DEF FoundBy
  <2>3. CASE Scan(t)
    <3>1. pc[t] = "scan" /\ pc'[t] = "clear"
      BY <2>3 DEF TypeOK, Scan, Goto
    <3>2. QED
      BY <2>1, <3>1 DEF FoundBy
  <2>4. CASE Clear(t)
    <3>1. /\ pc[t] = "clear" /\ pc'[t] = "write" /\ UNCHANGED <<row, req, seen>>
          /\ \A i \in victims'[t] : IsOtherDefault(t, i)
      BY <2>4 DEF TypeOK, Clear, Goto
    <3>2. \A i \in victims'[t] : IsOtherDefault(t, i)'
      BY <3>1 DEF IsOtherDefault, TargetType, Own
    <3>3. QED
      BY <2>1, <3>1, <3>2 DEF FoundBy
  <2>5. CASE WriteRow(t) \/ Enter(t)
    <3>1. /\ pc[t] \in {"write", "check"} /\ pc'[t] \in {"check", "commit"}
          /\ UNCHANGED <<row, req, seen, victims>>
      BY <2>5 DEF TypeOK, WriteRow, Enter, Goto
    <3>2. \A i \in Ids : IsOtherDefault(t, i)' = IsOtherDefault(t, i)
      BY <3>1 DEF IsOtherDefault, TargetType, Own
    <3>3. victims[t] \subseteq Ids
      BY DEF TypeOK
    <3>4. QED
      BY <2>1, <3>1, <3>2, <3>3 DEF FoundBy
  <2>6. CASE Commit(t) \/ Ends(t)
    <3>1. pc'[t] \in Ended
      BY <2>6 DEF TypeOK, Commit, Ends, Goto, Ended
    <3>2. QED
      BY <3>1 DEF FoundBy, Ended
  <2>7. QED
    BY <2>2, <2>3, <2>4, <2>5, <2>6 DEF StepOf
<1>3. QED
  BY <1>1, <1>2 DEF Found, FoundBy

LEMMA OwnIdsStep ==
  ASSUME TypeOK, OwnIds, NEW t \in Txns, StepOf(t), Local(t)
  PROVE  OwnIds'
<1>1. req' = req /\ \A u \in Txns \ {t} : pc'[u] = pc[u]
  BY DEF Local
<1>2. CASE BeginCreate(t)
  <2>1. \A u \in Txns \ {t} : pc[u] = "idle" \/ Own(u) # Own(t)
    BY <1>2 DEF BeginCreate
  <2>2. QED
    BY <1>1, <2>1 DEF OwnIds, Own
<1>3. CASE BeginChange(t)
  <2>1. req[t].op # "create"
    BY <1>3 DEF BeginChange
  <2>2. QED
    BY <1>1, <2>1 DEF OwnIds, Own
<1>4. CASE ~BeginCreate(t) /\ ~BeginChange(t)
  <2>1. pc[t] # "idle"
    BY <1>4 DEF StepOf, Scan, Clear, WriteRow, Enter, Commit, Ends, Running
  <2>2. QED
    BY <1>1, <2>1 DEF OwnIds, Own
<1>5. QED
  BY <1>2, <1>3, <1>4

(* A commit creates no config but its own, and makes none vanish.          *)
LEMMA StatesKept ==
  ASSUME TypeOK, LocksApart, Found, Loaded, NEW t \in Txns, Commit(t), NEW i \in Ids
  PROVE  /\ row[i].state # "absent" => row'[i].state # "absent"
         /\ row[i].state = "absent" /\ row'[i].state # "absent" =>
              req[t].op = "create" /\ i = Own(t)
         /\ row[i].state = "deleted" => row'[i].state = "deleted"
<1>1. /\ row'[i] = IF i \in Locked(t) THEN Version(t, i) ELSE row[i]
      /\ pc[t] = "commit" /\ row[i] \in Row /\ req[t] \in Request
  BY RegistryAssumption DEF Commit, TypeOK
<1>2. CASE i \in Written(t)
  <2>1. i = Own(t) /\ Version(t, i) = NewRow(t) /\ i \in Locked(t)
    BY <1>2 DEF Written, Version, Locked
  <2>2. CASE req[t].op = "create"
    <3>1. row[i].state = "absent"
      BY <1>1, <2>1, <2>2 DEF Loaded, Running
    <3>2. QED
      BY <2>1, <2>2, <3>1
  <2>3. CASE req[t].op = "update"
    <3>1. row'[i] = Updated(row[i], req[t], seen[t])
      BY <1>1, <2>1, <2>3 DEF NewRow
    <3>2. row'[i].state = row[i].state
      BY <1>1, <3>1 DEF Updated, Row
    <3>3. QED
      BY <3>2
  <2>4. CASE req[t].op = "delete"
    <3>1. row'[i] = [row[i] EXCEPT !.state = "deleted"]
      BY <1>1, <2>1, <2>4 DEF NewRow
    <3>2. row'[i].state = "deleted" /\ row[i].state # "absent"
      BY <1>1, <2>1, <2>4, <3>1 DEF Row, Loaded, Running
    <3>3. QED
      BY <3>2
  <2>5. QED
    BY <1>1, <2>2, <2>3, <2>4 DEF Request
<1>3. CASE i \notin Written(t)
  <2>1. row'[i] = [row[i] EXCEPT !.dflt = FALSE] \/ row'[i] = row[i]
    BY <1>1, <1>3 DEF Version
  <2>2. row'[i].state = row[i].state
    BY <1>1, <2>1 DEF Row
  <2>3. QED
    BY <2>2
<1>4. QED
  BY <1>2, <1>3

LEMMA LoadedStep ==
  ASSUME TypeOK, LocksApart, Found, OwnIds, Loaded, NEW t \in Txns, StepOf(t), Local(t)
  PROVE  Loaded'
<1>1. ASSUME NEW u \in Txns, pc'[u] \in Running
      PROVE  IF req'[u].op = "create"
             THEN row'[Own(u)'].state = "absent"
             ELSE seen'[u].state = "live" /\ row'[Own(u)'].state # "absent"
  <2>1. Own(u)' = Own(u) /\ req' = req /\ Own(u) \in Ids
    BY RegistryAssumption DEF Own, Local, TypeOK, Request
  <2>2. CASE Commit(t)
    <3>1. u # t /\ pc'[u] = pc[u] /\ seen'[u] = seen[u]
      BY <1>1, <2>2 DEF TypeOK, Commit, Goto, Running, Local
    <3>2. CASE req[u].op = "create"
      <4>1. ~(req[t].op = "create" /\ Own(u) = Own(t))
        BY <1>1, <2>2, <3>1, <3>2 DEF OwnIds, Commit, Running
      <4>2. row[Own(u)].state = "absent"
        BY <1>1, <3>1, <3>2 DEF Loaded
      <4>3. QED
        BY <2>1, <2>2, <3>2, <4>1, <4>2, StatesKept
    <3>3. CASE req[u].op # "create"
      BY <1>1, <2>1, <2>2, <3>1, <3>3, StatesKept DEF Loaded
    <3>4. QED
      BY <3>2, <3>3
  <2>3. CASE BeginCreate(t) \/ BeginChange(t)
    <3>1. row' = row
      BY <2>3 DEF BeginCreate, BeginChange
    <3>2. CASE u = t
      BY <1>1, <2>1, <2>3, <3>1, <3>2
        DEF TypeOK, BeginCreate, BeginChange, Goto, Own, Running
    <3>3. CASE u # t
      BY <1>1, <2>1, <3>1, <3>3 DEF Loaded, Local
    <3>4. QED
      BY <3>2, <3>3
  <2>4. CASE ~Commit(t) /\ ~BeginCreate(t) /\ ~BeginChange(t)
    <3>1. row' = row /\ seen' = seen /\ pc[t] \in Running
      BY <2>4 DEF StepOf, Scan, Clear, WriteRow, Enter, Ends, Running
    <3>2. pc[u] \in Running
      BY <1>1, <3>1 DEF Local
    <3>3. QED
      BY <2>1, <3>1, <3>2 DEF Loaded
  <2>5. QED
    BY <2>2, <2>3, <2>4
<1>2. QED
  BY <1>1 DEF Loaded
-----------------------------------------------------------------------------
(* The unique indexes                                                      *)

(* The rows a commit leaves do not clash with what another transaction has *)
(* entered, whether they were written, cleared or left alone.              *)
LEMMA RowsOfOthers ==
  ASSUME TypeOK, LocksApart, IndexesHold, NEW t \in Txns, StepOf(t), Local(t),
         NEW u \in Txns \ {t}, Enters(u), NEW i \in Ids \ Locked(u), ~Clash(NewRow(u), row[i])
  PROVE  ~Clash(NewRow(u), row'[i])
<1>1. CASE Commit(t) /\ i \in Locked(t)
  <2>1. row'[i] = Version(t, i) /\ row[i] \in Row /\ NewRow(u) \in Row
    BY <1>1, VersionType DEF Commit, TypeOK
  <2>2. CASE i \in Written(t)
    <3>1. Enters(t) /\ row'[i] = NewRow(t)
      BY <1>1, <2>1, <2>2 DEF Enters, Entered, Commit, Written, Version
    <3>2. QED
      BY <3>1 DEF IndexesHold
  <2>3. CASE i \notin Written(t)
    <3>1. row'[i] = [row[i] EXCEPT !.dflt = FALSE]
      BY <2>1, <2>3 DEF Version
    <3>2. QED
      BY <2>1, <3>1, Clashes
  <2>4. QED
    BY <2>2, <2>3
<1>2. CASE ~(Commit(t) /\ i \in Locked(t))
  <2>1. row'[i] = row[i]
    BY <1>2 DEF StepOf, BeginCreate, BeginChange, Scan, Clear, WriteRow, Enter, Commit, Ends
  <2>2. QED
    BY <2>1
<1>3. QED
  BY <1>1, <1>2

(* What the conjunct IndexesHold says of one transaction.                  *)
IndexHolds(t) ==
  Enters(t) =>
    /\ \A i \in Ids \ Locked(t) : ~Clash(NewRow(t), row[i])
    /\ \A i \in Locked(t) \ {Own(t)} : ~Clash(NewRow(t), Version(t, i))
    /\ \A u \in Txns \ {t} : Enters(u) => ~Clash(NewRow(t), NewRow(u))

(* An entry that a transaction makes clashes with no other.                *)
LEMMA EnterClear ==
  ASSUME TypeOK, NEW t \in Txns, Enter(t), Changes(t)
  PROVE  /\ \A i \in Ids \ Locked(t) : ~Clash(NewRow(t), row[i])
         /\ \A i \in Locked(t) \ {Own(t)} : ~Clash(NewRow(t), Version(t, i))
         /\ \A u \in Txns \ {t} : Enters(u) => ~Clash(NewRow(t), NewRow(u))
<1>1. pc[t] = "check" /\ Own(t) \in Locked(t) /\ Locked(t) \subseteq Ids
  BY RegistryAssumption DEF Enter, Locked, Written, Cleared, TypeOK, Own, Request
<1>2. \A i \in Ids : ~ClashesWith(t, i)
  BY DEF Enter
<1>3. \A i \in Ids \ Locked(t) : ~Clash(NewRow(t), row[i])
  BY <1>1, <1>2 DEF ClashesWith
<1>4. \A i \in Locked(t) \ {Own(t)} : ~Clash(NewRow(t), Version(t, i))
  BY <1>1, <1>2 DEF ClashesWith
<1>5. ASSUME NEW u \in Txns \ {t}, Enters(u) PROVE ~Clash(NewRow(t), NewRow(u))
  <2>1. Own(u) \in Written(u) /\ Own(u) \in Locked(u)
    BY <1>5 DEF Enters, Entered, Written, Locked
  <2>2. Version(u, Own(u)) = NewRow(u)
    BY <2>1 DEF Version
  <2>3. ~WaitsForKey(t, u)
    BY <1>5 DEF Enter
  <2>4. QED
    BY <1>1, <1>5, <2>1, <2>2, <2>3 DEF WaitsForKey, Enters
<1>6. QED
  BY <1>3, <1>4, <1>5

LEMMA IndexesStep ==
  ASSUME TypeOK, LocksApart, IndexesHold, NEW t \in Txns, StepOf(t), Local(t)
  PROVE  IndexesHold'
<1>1. /\ \A u \in Txns \ {t} : Enters(u)' = Enters(u) /\ Locked(u)' = Locked(u) /\ Own(u)' = Own(u)
                               /\ Written(u)' = Written(u)
      /\ \A u \in Txns : Own(u) \in Ids /\ Locked(u) \subseteq Ids
  <2>1. \A u \in Txns : Own(u) \in Ids
    BY RegistryAssumption DEF TypeOK, Own, Request
  <2>2. \A u \in Txns : Locked(u) \subseteq Ids
    BY <2>1 DEF Locked, Written, Cleared, TypeOK
  <2>3. QED
    BY <2>1, <2>2, OthersKeep
<1>2. ASSUME NEW u \in Txns \ {t}, Enters(u)
      PROVE  NewRow(u)' = NewRow(u) /\ \A i \in Locked(u) : Version(u, i)' = Version(u, i)
  <2>1. Own(u) \in Locked(u)
    BY <1>2 DEF Enters, Entered, Locked, Written
  <2>2. \A i \in Locked(u) : row'[i] = row[i]
    BY <1>1, LockedKept
  <2>3. NewRow(u)' = NewRow(u)
    BY <2>1, <2>2, NewRowKept DEF Local
  <2>4. QED
    BY <1>1, <2>2, <2>3 DEF Version
<1>3. Enters(t)' => Enter(t) /\ Changes(t)
  <2>1. CASE Enter(t)
    BY <2>1 DEF Enter, Enters, Changes
  <2>2. CASE ~Enter(t)
    <3>1. pc'[t] # "commit"
      BY <2>2 DEF TypeOK, StepOf, BeginCreate, BeginChange, Scan, Clear, WriteRow, Commit,
        Ends, Goto, FirstPoint, Ended
    <3>2. QED
      BY <3>1 DEF Enters, Entered
  <2>3. QED
    BY <2>1, <2>2
<1>4. ASSUME Enters(t)'
      PROVE  /\ row' = row /\ NewRow(t)' = NewRow(t) /\ Locked(t)' = Locked(t)
             /\ Own(t)' = Own(t) /\ \A i \in Ids : Version(t, i)' = Version(t, i)
  <2>1. UNCHANGED <<row, req, seen, victims>> /\ pc[t] = "check" /\ pc'[t] = "commit"
    BY <1>3, <1>4 DEF TypeOK, Enter, Goto
  <2>2. NewRow(t)' = NewRow(t) /\ Own(t)' = Own(t) /\ Written(t)' = Written(t)
    BY <2>1, NewRowKept DEF Own, Written, Changes
  <2>3. Cleared(t)' = Cleared(t)
    BY <2>1 DEF Cleared
  <2>4. QED
    BY <2>1, <2>2, <2>3 DEF Locked, Version
<1>5. ASSUME NEW u \in Txns \ {t}, Enters(u)
      PROVE  IndexHolds(u)'
  <2>1. IndexHolds(u)
    BY DEF IndexesHold, IndexHolds
  <2>2. \A i \in Ids \ Locked(u) : ~Clash(NewRow(u), row'[i])
    BY <1>5, <2>1, RowsOfOthers DEF IndexHolds
  <2>3. ASSUME NEW v \in Txns \ {u}, Enters(v)' PROVE ~Clash(NewRow(u), NewRow(v)')
    <3>1. CASE v = t
      <4>1. ~Clash(NewRow(t), NewRow(u))
        BY <1>3, <1>5, <2>3, <3>1, EnterClear
      <4>2. NewRow(t)' = NewRow(t) /\ NewRow(t) \in Row /\ NewRow(u) \in Row
        BY <1>4, <2>3, <3>1, VersionType
      <4>3. QED
        BY <3>1, <4>1, <4>2, Clashes
    <3>2. CASE v # t
      BY <1>1, <1>2, <1>5, <2>1, <2>3, <3>2 DEF IndexHolds
    <3>3. QED
      BY <3>1, <3>2
  <2>4. QED
    BY <1>1, <1>2, <1>5, <2>1, <2>2, <2>3 DEF IndexHolds
<1>6. IndexHolds(t)'
  <2>1. SUFFICES ASSUME Enters(t)' PROVE IndexHolds(t)'
    BY DEF IndexHolds
  <2>2. /\ \A i \in Ids \ Locked(t) : ~Clash(NewRow(t), row[i])
        /\ \A i \in Locked(t) \ {Own(t)} : ~Clash(NewRow(t), Version(t, i))
        /\ \A u \in Txns \ {t} : Enters(u) => ~Clash(NewRow(t), NewRow(u))
    BY <1>3, <2>1, EnterClear
  <2>3. QED
    BY <1>1, <1>2, <1>4, <2>1, <2>2 DEF IndexHolds
<1>7. \A u \in Txns : IndexHolds(u)'
  BY <1>1, <1>5, <1>6 DEF IndexHolds
<1>8. QED
  BY <1>7 DEF IndexesHold, IndexHolds

LEMMA UniqueStep ==
  ASSUME TypeOK, Unique, LocksApart, IndexesHold, NEW t \in Txns, StepOf(t)
  PROVE  Unique'
<1>1. CASE ~Commit(t)
  <2>1. row' = row
    BY <1>1 DEF StepOf, BeginCreate, BeginChange, Scan, Clear, WriteRow, Enter, Ends
  <2>2. QED
    BY <2>1 DEF Unique, Consistent
<1>2. CASE Commit(t)
  <2>1. ASSUME NEW i \in Ids
        PROVE  /\ row'[i] \in Row /\ row[i] \in Row
               /\ i \in Written(t) => row'[i] = NewRow(t) /\ i = Own(t) /\ Enters(t)
               /\ i \notin Written(t) => row'[i] \in {row[i], [row[i] EXCEPT !.dflt = FALSE]}
    BY <1>2, VersionType
      DEF Commit, Locked, Version, Written, Enters, Entered, TypeOK
  <2>2. ASSUME NEW i \in Written(t), NEW j \in Ids, i # j PROVE ~Clash(row'[i], row'[j])
    <3>1. i \in Ids /\ i = Own(t) /\ row'[i] = NewRow(t) /\ Enters(t)
      BY <2>1, <2>2, RegistryAssumption DEF Written, TypeOK, Own, Request
    <3>2. CASE j \in Locked(t)
      BY <1>2, <2>2, <3>1, <3>2 DEF IndexesHold, Commit
    <3>3. CASE j \notin Locked(t)
      BY <1>2, <2>2, <3>1, <3>3 DEF IndexesHold, Commit
    <3>4. QED
      BY <3>2, <3>3
  <2>3. ASSUME NEW i \in Ids \ Written(t), NEW j \in Ids \ Written(t), i # j
        PROVE  ~Clash(row'[i], row'[j])
    <3>1. ~Clash(row[i], row[j])
      BY <2>3 DEF Unique, Consistent
    <3>2. ~Clash(row[i], row'[j])
      BY <2>1, <3>1, Clashes
    <3>3. ~Clash(row'[j], row[i])
      BY <2>1, <3>2, Clashes
    <3>4. ~Clash(row'[j], row'[i])
      BY <2>1, <3>3, Clashes
    <3>5. QED
      BY <2>1, <3>4, Clashes
  <2>4. ASSUME NEW i \in Ids, NEW j \in Ids, i # j PROVE ~Clash(row'[i], row'[j])
    BY <2>1, <2>2, <2>3, <2>4, Clashes
  <2>5. QED
    BY <2>4 DEF Unique, Consistent
<1>3. QED
  BY <1>1, <1>2

LEMMA InvariantHolds == Spec => []IInv
<1>1. Init => IInv
  <2> SUFFICES ASSUME Init PROVE IInv
    OBVIOUS
  <2>1. TypeOK
    BY RegistryAssumption DEF Init, TypeOK, Request
  <2>2. \A t \in Txns : pc[t] = "idle" /\ victims[t] = {}
    BY DEF Init
  <2>3. Unique /\ Found /\ OwnIds /\ Loaded /\ IndexesHold
    BY <2>2 DEF Init, Unique, Found, OwnIds, Loaded, IndexesHold, Enters, Entered, Running
  <2>4. LocksApart
    BY <2>2 DEF LocksApart, Locked, Written, Cleared
  <2>5. QED
    BY <2>1, <2>3, <2>4 DEF IInv
<1>2. IInv /\ [Next]_vars => IInv'
  <2> SUFFICES ASSUME IInv, [Next]_vars PROVE IInv'
    OBVIOUS
  <2>1. CASE UNCHANGED vars
    <3>1. /\ row' = row /\ pc' = pc /\ req' = req /\ seen' = seen /\ victims' = victims
      BY <2>1 DEF vars
    <3>2. /\ TypeOK' = TypeOK /\ Unique' = Unique /\ Found' = Found /\ OwnIds' = OwnIds
          /\ Loaded' = Loaded
      BY <3>1 DEF TypeOK, Unique, Consistent, Found, AsksDefault, IsOtherDefault, TargetType,
        OwnIds, Loaded, Own
    <3>3. \A t \in Txns : /\ Own(t)' = Own(t) /\ Changes(t)' = Changes(t)
                          /\ Entered(t)' = Entered(t) /\ NewRow(t)' = NewRow(t)
      BY <3>1, NewRowKept DEF Own, Changes, Entered
    <3>4. \A t \in Txns : /\ Written(t)' = Written(t) /\ Cleared(t)' = Cleared(t)
                          /\ Locked(t)' = Locked(t) /\ Enters(t)' = Enters(t)
      BY <3>1, <3>3 DEF Written, Cleared, Locked, Enters
    <3>5. \A t \in Txns : \A i \in Locked(t) : Version(t, i)' = Version(t, i)
      BY <3>1, <3>3, <3>4 DEF Version
    <3>6. LocksApart' = LocksApart
      BY <3>4 DEF LocksApart
    <3>7. IndexesHold => IndexesHold'
      BY <3>1, <3>3, <3>4, <3>5 DEF IndexesHold
    <3>8. QED
      BY <3>2, <3>6, <3>7 DEF IInv
  <2>2. CASE \E t \in Txns : StepOf(t) /\ Local(t)
    BY <2>2, TypeStep, UniqueStep, LocksStep, FoundStep, OwnIdsStep, LoadedStep, IndexesStep
      DEF IInv
  <2>3. QED
    BY <2>1, <2>2, Steps DEF IInv
<1>3. QED
  BY <1>1, <1>2, PTL DEF Spec

(* Two live configs never have one slug, and no type has two defaults,     *)
(* however many requests overlap.                                          *)
THEOREM UniqueHolds == Spec => []Unique
<1>1. IInv => Unique
  BY DEF IInv
<1>2. QED
  BY <1>1, InvariantHolds, PTL
-----------------------------------------------------------------------------
(* What a commit does to the rows                                          *)

LEMMA CommitRows ==
  ASSUME TypeOK, Found, NEW t \in Txns, Commit(t), NEW i \in Ids
  PROVE  /\ row[i] \in Row /\ Commits(t)
         /\ i \in Written(t) => i = Own(t) /\ Changes(t) /\ row'[i] = NewRow(t)
         /\ i \in Cleared(t) \ Written(t) =>
              /\ AsksDefault(t) /\ IsOtherDefault(t, i)
              /\ row'[i] = [row[i] EXCEPT !.dflt = FALSE]
         /\ i \notin Written(t) /\ i \notin Cleared(t) => row'[i] = row[i]
<1>1. pc[t] = "commit" /\ pc'[t] = "done"
  BY DEF Commit, Goto, TypeOK
<1>2. row'[i] = IF i \in Locked(t) THEN Version(t, i) ELSE row[i]
  BY DEF Commit
<1>3. Cleared(t) = victims[t] /\ Written(t) = IF Changes(t) THEN {Own(t)} ELSE {}
  BY <1>1 DEF Cleared, Written
<1>4. \A j \in victims[t] : AsksDefault(t) /\ IsOtherDefault(t, j)
  BY <1>1 DEF Found
<1>5. QED
  BY <1>1, <1>2, <1>3, <1>4 DEF TypeOK, Commits, Locked, Version

LEMMA CommitSupplied ==
  ASSUME IInv, NEW t \in Txns, Commit(t), NEW i \in Ids, row'[i] # row[i]
  PROVE  OnlySupplied(t, i)
<1>1. TypeOK /\ LocksApart /\ Found /\ Loaded
  BY DEF IInv
<1>2. CASE i \in Written(t)
  <2>1. row[i] \in Row /\ i = Own(t) /\ row'[i] = NewRow(t)
    BY <1>1, <1>2, CommitRows
  <2>2. row[i].state = "deleted" => row'[i].state = "deleted"
    BY <1>1, StatesKept
  <2>3. ASSUME req[t].op = "update"
        PROVE  /\ row'[i].slug = row[i].slug \/ row'[i].slug = req[t].slug
               /\ row'[i].type = row[i].type \/ row'[i].type = req[t].type
               /\ row'[i].dflt = row[i].dflt \/ row'[i].dflt = req[t].dflt
    <3>1. row'[i] = Updated(row[i], req[t], seen[t])
      BY <2>1, <2>3 DEF NewRow
    <3>2. QED
      BY <2>1, <3>1 DEF Updated, Row
  <2>4. QED
    BY <2>1, <2>2, <2>3 DEF OnlySupplied
<1>3. CASE i \notin Written(t)
  <2>1. /\ AsksDefault(t) /\ IsOtherDefault(t, i)
        /\ row'[i] = [row[i] EXCEPT !.dflt = FALSE]
    BY <1>1, <1>3, CommitRows
  <2>2. QED
    BY <2>1 DEF OnlySupplied, IsOtherDefault
<1>4. QED
  BY <1>2, <1>3

(* Only a commit changes rows.                                             *)
LEMMA RowsStep ==
  ASSUME IInv, [Next]_vars
  PROVE  row' = row \/ \E t \in Txns : Commit(t) /\ Commits(t)
<1>1. TypeOK /\ Found
  BY DEF IInv
<1>2. CASE UNCHANGED vars
  BY <1>2 DEF vars
<1>3. CASE \E t \in Txns : StepOf(t) /\ Local(t)
  <2>1. PICK t \in Txns : StepOf(t)
    BY <1>3
  <2>2. CASE Commit(t)
    BY <1>1, <2>2 DEF Commits, Commit, Goto, TypeOK
  <2>3. CASE ~Commit(t)
    BY <2>1, <2>3 DEF StepOf, BeginCreate, BeginChange, Scan, Clear, WriteRow, Enter, Ends
  <2>4. QED
    BY <2>2, <2>3
<1>4. QED
  BY <1>1, <1>2, <1>3, Steps

(* An update overwrites no field that another request committed meanwhile, *)
(* unless its payload supplies it; a deleted config stays deleted; and of  *)
(* other configs only a default mark of the type asked for is taken.       *)
THEOREM SuppliedHolds == Spec => SuppliedFieldsOnly
<1>1. ASSUME IInv, [Next]_vars, NEW i \in Ids, row'[i] # row[i]
      PROVE  \E t \in Txns : Commits(t) /\ OnlySupplied(t, i)
  BY <1>1, RowsStep, CommitSupplied
<1>2. IInv /\ [Next]_vars =>
        [\A i \in Ids : row'[i] # row[i] => \E t \in Txns : Commits(t) /\ OnlySupplied(t, i)]_vars
  BY <1>1
<1>3. QED
  BY <1>2, InvariantHolds, PTL DEF Spec, SuppliedFieldsOnly

(* A config for which an update asks for the default has been neither       *)
(* deleted nor retyped nor, if it was the default already, unmarked since  *)
(* the update loaded it.                                                   *)
MarkStands(t) ==
  req[t].op = "update" /\ AsksDefault(t) =>
    /\ row[Own(t)].state = "live" /\ row[Own(t)].type = seen[t].type
    /\ seen[t].dflt => row[Own(t)].dflt

(* A request that keeps its config's mark and type, and on whose config    *)
(* the mark can be set, leaves every type that had a default with one.     *)
LEMMA CommitKeepsDefault ==
  ASSUME IInv, NEW t \in Txns, Commit(t), ~GivesUp(t), MarkStands(t),
         NEW type \in Types, NEW i \in Ids, IsDefault(i, type)
  PROVE  \E j \in Ids : IsDefault(j, type)'
<1>1. /\ TypeOK /\ Found /\ Loaded /\ req[t] \in Request /\ Own(t) \in Ids
      /\ req[t].op = "create" => req[t].slug # Unset /\ req[t].type # Unset /\ req[t].dflt # Unset
  BY RegistryAssumption DEF IInv, TypeOK, Request, Own
<1>2. row[i] \in Row /\ row[Own(t)] \in Row /\ pc[t] = "commit"
  BY <1>1 DEF TypeOK, Commit
<1>3. CASE i \notin Written(t) /\ i \notin Cleared(t)
  <2>1. row'[i] = row[i]
    BY <1>1, <1>3, CommitRows
  <2>2. QED
    BY <2>1 DEF IsDefault
<1>4. CASE req[t].op = "create"
  <2>1. row[Own(t)].state = "absent" /\ Changes(t) /\ Own(t) \in Written(t)
    BY <1>1, <1>2, <1>4 DEF Loaded, Running, Changes, Written
  <2>2. row'[Own(t)] = NewRow(t)
    BY <1>1, <2>1, CommitRows
  <2>3. NewRow(t) = [slug |-> req[t].slug, type |-> req[t].type, dflt |-> req[t].dflt, state |-> "live"]
    BY <1>4 DEF NewRow
  <2>4. CASE i \in Cleared(t)
    <3>1. AsksDefault(t) /\ IsOtherDefault(t, i)
      BY <1>1, <1>2, <2>4 DEF Found, Cleared
    <3>2. req[t].dflt = TRUE /\ req[t].type = type
      BY <1>4, <3>1 DEF AsksDefault, IsOtherDefault, TargetType, IsDefault
    <3>3. QED
      BY <1>1, <2>2, <2>3, <3>2 DEF IsDefault
  <2>5. CASE i \notin Cleared(t)
    <3>1. i # Own(t)
      BY <2>1 DEF IsDefault
    <3>2. i \notin Written(t)
      BY <3>1 DEF Written
    <3>3. QED
      BY <1>3, <2>5, <3>2
  <2>6. QED
    BY <2>4, <2>5
<1>5. CASE req[t].op = "update" /\ (i \in Written(t) \/ i \in Cleared(t))
  <2>1. req[t].dflt # FALSE /\ req[t].type = Unset
    BY <1>5 DEF GivesUp
  <2>2. row'[Own(t)] = Updated(row[Own(t)], req[t], seen[t]) \/ (row'[Own(t)] = row[Own(t)] /\ ~Changes(t))
    <3>1. CASE Changes(t)
      BY <1>1, <1>2, <1>5, <3>1, CommitRows DEF Written, NewRow
    <3>2. CASE ~Changes(t)
      <4>1. Own(t) \notin Written(t) /\ Own(t) \notin Cleared(t)
        BY <1>1, <1>2, <3>2 DEF Written, Cleared, Found, IsOtherDefault
      <4>2. QED
        BY <1>1, <3>2, <4>1, CommitRows
    <3>3. QED
      BY <3>1, <3>2
  <2>3. /\ row'[Own(t)].type = row[Own(t)].type /\ row'[Own(t)].state = row[Own(t)].state
        /\ req[t].dflt = TRUE => row'[Own(t)].dflt = TRUE
        /\ row[Own(t)].dflt = TRUE => row'[Own(t)].dflt = TRUE
    <3>1. CASE row'[Own(t)] = Updated(row[Own(t)], req[t], seen[t])
      BY <1>1, <1>2, <1>5, <2>1, <3>1, RegistryAssumption
        DEF Updated, Supplied, Row, Request, MarkStands, AsksDefault, TypeOK
    <3>2. CASE row'[Own(t)] = row[Own(t)] /\ ~Changes(t)
      BY <1>1, <1>2, <1>5, <2>1, <3>2, RegistryAssumption
        DEF Changes, Supplied, Row, MarkStands, AsksDefault, TypeOK
    <3>3. QED
      BY <2>2, <3>1, <3>2
  <2>5. CASE i \in Written(t)
    <3>1. i = Own(t)
      BY <2>5 DEF Written
    <3>2. QED
      BY <1>2, <2>3, <3>1 DEF IsDefault, Row
  <2>6. CASE i \in Cleared(t)
    <3>1. AsksDefault(t) /\ IsOtherDefault(t, i)
      BY <1>1, <1>2, <2>6 DEF Found, Cleared
    <3>2. row[Own(t)].state = "live" /\ row[Own(t)].type = type /\ req[t].dflt = TRUE
      BY <1>5, <2>1, <3>1 DEF AsksDefault, IsOtherDefault, TargetType, IsDefault, MarkStands
    <3>3. QED
      BY <1>1, <2>3, <3>2 DEF IsDefault
  <2>7. QED
    BY <1>5, <2>5, <2>6
<1>6. QED
  BY <1>1, <1>3, <1>4, <1>5 DEF GivesUp, Request

(* A type loses its default only to a request that gives it up, or to one  *)
(* that asks for the default on a config changed since it loaded it.       *)
THEOREM DefaultHolds == Spec => DefaultKept
<1>1. ASSUME IInv, [Next]_vars, NEW type \in Types, HasDefault(type), ~HasDefault(type)'
      PROVE  \E t \in Txns : Commits(t) /\ (GivesUp(t) \/ seen[t] # row[Own(t)])
  <2>1. row' # row
    BY <1>1 DEF HasDefault, IsDefault
  <2>2. PICK t \in Txns : Commit(t) /\ Commits(t)
    BY <1>1, <2>1, RowsStep
  <2>3. PICK i \in Ids : IsDefault(i, type)
    BY <1>1 DEF HasDefault
  <2>4. GivesUp(t) \/ seen[t] # row[Own(t)]
    <3>1. seen[t] = row[Own(t)] => MarkStands(t)
      BY <1>1, <2>2 DEF MarkStands, IInv, Loaded, Running, Commit
    <3>2. QED
      BY <1>1, <2>2, <2>3, <3>1, CommitKeepsDefault DEF HasDefault
  <2>5. QED
    BY <2>2, <2>4
<1>2. IInv /\ [Next]_vars =>
        [\A type \in Types : HasDefault(type) /\ ~HasDefault(type)' =>
           \E t \in Txns : Commits(t) /\ (GivesUp(t) \/ seen[t] # row[Own(t)])]_vars
  BY <1>1
<1>3. QED
  BY <1>2, InvariantHolds, PTL DEF Spec, DefaultKept

(* PRD 0019 says that marking two configs of a type as default at once     *)
(* leaves one.  It does as long as no other request deletes, retypes or    *)
(* unmarks a config between its being loaded to be marked and the commit;  *)
(* no other overlap of requests costs a type its default.                  *)
THEOREM DefaultNeverLostHolds ==
  Spec /\ [](\A t \in Txns : pc[t] = "commit" => MarkStands(t)) => DefaultNeverLost
<1> DEFINE Stand == \A t \in Txns : pc[t] = "commit" => MarkStands(t)
<1>1. ASSUME IInv, Stand, [Next]_vars,
             NEW type \in Types, HasDefault(type), ~HasDefault(type)'
      PROVE  \E t \in Txns : Commits(t) /\ GivesUp(t)
  <2>1. row' # row
    BY <1>1 DEF HasDefault, IsDefault
  <2>2. PICK t \in Txns : Commit(t) /\ Commits(t)
    BY <1>1, <2>1, RowsStep
  <2>3. PICK i \in Ids : IsDefault(i, type)
    BY <1>1 DEF HasDefault
  <2>4. MarkStands(t)
    BY <1>1, <2>2 DEF Commit
  <2>5. GivesUp(t)
    BY <1>1, <2>2, <2>3, <2>4, CommitKeepsDefault DEF HasDefault
  <2>6. QED
    BY <2>2, <2>5
<1>2. IInv /\ Stand /\ [Next]_vars =>
        [\A type \in Types : HasDefault(type) /\ ~HasDefault(type)' =>
           \E t \in Txns : Commits(t) /\ GivesUp(t)]_vars
  BY <1>1
<1>3. QED
  BY <1>2, InvariantHolds, PTL DEF Spec, DefaultNeverLost
=============================================================================
