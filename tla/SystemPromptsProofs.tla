-------------------------- MODULE SystemPromptsProofs --------------------------
(* What is proved of SystemPrompts, for any number of prompts, configs and  *)
(* transactions, whatever the requests.                                     *)
EXTENDS SystemPrompts, TLAPS

Writes(t) == req[t].op \in {"update", "post"}

(* A transaction is where its request takes it.                             *)
Stage(t) ==
  /\ pc[t] = "idle" => seen[t].id = None /\ seen[t].current = None /\ number[t] = 0
  /\ pc[t] \in Running => Own(t) \in Ids
  /\ pc[t] \in {"check", "rename"} => req[t].op = "update" /\ req[t].name # None
  /\ pc[t] = "rename" => Renames(t)
  /\ pc[t] = "enter" => Entering(t)
  /\ pc[t] = "content" => req[t].op = "update"
  /\ pc[t] \in {"number", "insert", "current"} => Writes(t) /\ req[t].content # None
  /\ pc[t] = "erase" => req[t].op = "delete"
  /\ pc[t] = "refer" => req[t].op = "attach"
  /\ pc[t] = "lookup" => req[t].op = "run"
  /\ pc[t] = "read" => req[t].op \in {"run", "show"} /\ seen[t].current # None
  /\ pc[t] = "commit" => req[t].op \in {"create", "update", "post", "delete", "attach"}
  /\ number[t] > 0 => Writes(t) /\ req[t].content # None /\ pc[t] \in {"insert", "current", "commit"} \cup Ended
  /\ pc[t] \in {"insert", "current"} \/ (pc[t] = "commit" /\ req[t].op = "post") => number[t] > 0
  /\ Writes(t) /\ Own(t) # None => seen[t].current # None
  /\ seen[t].current # None => Own(t) # None /\ req[t].op \notin {"create", "attach"}
  /\ req[t].op = "create" /\ Own(t) # None => Own(t) = req[t].id

Numbering(t) == number[t] > 0 /\ pc[t] \in {"insert", "current", "commit"}

(* What a transaction may count on in the rows, while others commit.        *)
Tied(t) ==
  /\ Holds(t) /\ ~Erased(t) => Live(Own(t))
  /\ Erased(t) => ~Referenced(Own(t))
  /\ Own(t) \in Ids /\ req[t].op \notin {"create", "attach"} => prompt[Own(t)].state # "absent"
  /\ req[t].op = "create" /\ pc[t] \in {"enter", "commit"} => prompt[Own(t)].state = "absent"
  /\ Entered(t) => Named(req[t].name) \subseteq {Own(t)}
  /\ pc[t] # "done" => version[t].prompt = None
  /\ seen[t].current \in Txns => pc[seen[t].current] = "done"
  /\ seen[t].current # None /\ Live(Own(t)) => version[seen[t].current].prompt = Own(t)
  /\ Numbering(t) /\ Live(Own(t)) =>
       /\ 1 .. number[t] - 1 \subseteq Numbers(Own(t))
       /\ ~Replaced(t) => \A m \in Numbers(Own(t)) : m < number[t]
  /\ pc[t] = "commit" /\ Writes(t) /\ req[t].content # None /\ number[t] = 0 /\ Live(Own(t)) /\ ~Replaced(t)
       => version[seen[t].current].content = req[t].content
  /\ pc[t] = "done" /\ req[t].op = "run" /\ Own(t) \in Ids /\ answer[t] = None
       => prompt[Own(t)].state = "deleted"

(* Two transactions: who has locked a row, and who has entered a name.      *)
Apart(t, u) ==
  /\ Own(t) = Own(u) => ~(Exclusive(t) /\ Holds(u)) /\ ~(Exclusive(u) /\ Holds(t))
  /\ ~(Entered(t) /\ Entered(u) /\ req[t].name = req[u].name)
  /\ req[t].op = "create" /\ req[u].op = "create" /\ pc[t] # "idle" /\ pc[u] # "idle" => req[t].id # req[u].id

Gapless == \A i \in Ids : \E n \in Nat : Numbers(i) = 1 .. n

Orderly ==
  /\ \A t \in Txns : Stage(t) /\ Tied(t)
  /\ \A t \in Txns : \A u \in Txns \ {t} : Apart(t, u)

IInv == TypeOK /\ Integrity /\ Gapless /\ Orderly
-------------------------------------------------------------------------------
(* A step within a transaction                                              *)

(* Where the transaction goes and what it knows then.                       *)
Moves(t, p, s, n, a) ==
  /\ pc' = [pc EXCEPT ![t] = p] /\ seen' = [seen EXCEPT ![t] = s]
  /\ number' = [number EXCEPT ![t] = n] /\ answer' = [answer EXCEPT ![t] = a]
  /\ UNCHANGED <<Data, req>>

Only(t) ==
  \A u \in Txns \ {t} : pc'[u] = pc[u] /\ seen'[u] = seen[u] /\ number'[u] = number[u] /\ answer'[u] = answer[u]

LEMMA MovesAre ==
  ASSUME TypeOK, NEW t \in Txns, NEW p, NEW s, NEW n, NEW a, Moves(t, p, s, n, a)
  PROVE  /\ pc'[t] = p /\ seen'[t] = s /\ number'[t] = n /\ answer'[t] = a
         /\ Only(t) /\ UNCHANGED <<prompt, version, config, req>>
BY DEF TypeOK, Moves, Only, Data

(* Rows that stay tell another transaction nothing new.                     *)
LEMMA OthersKeep ==
  ASSUME IInv, NEW t \in Txns, pc[t] # "done", Only(t), UNCHANGED <<prompt, version, config, req>>,
         NEW u \in Txns \ {t}
  PROVE  Stage(u)' /\ Tied(u)'
<1>1. pc'[u] = pc[u] /\ seen'[u] = seen[u] /\ number'[u] = number[u] /\ answer'[u] = answer[u] /\ req' = req
  BY DEF Only
<1>2. Stage(u) /\ Tied(u)
  BY DEF IInv, Orderly
<1>3. Stage(u)'
  BY <1>1, <1>2 DEF Stage, Own, Renames, Entering, Writes
<1>4. \A v \in Txns : pc[v] = "done" => pc'[v] = "done"
  BY DEF Only
<1>5. /\ Own(u)' = Own(u) /\ (Holds(u)' <=> Holds(u)) /\ (Erased(u)' <=> Erased(u)) /\ (Entered(u)' <=> Entered(u))
      /\ (Writes(u)' <=> Writes(u)) /\ (Numbering(u)' <=> Numbering(u)) /\ (Replaced(u)' <=> Replaced(u))
  BY <1>1 DEF Own, Holds, Exclusive, Renamed, Renames, Erased, Versioned, Refers, Entered, Entering, Writes, Numbering, Replaced
<1>6. /\ \A i : (Live(i)' <=> Live(i)) /\ (Referenced(i)' <=> Referenced(i)) /\ Numbers(i)' = Numbers(i)
      /\ \A name : Named(name)' = Named(name)
  BY DEF Live, Referenced, Numbers, VersionsOf, Named
<1>7. Tied(u)'
  BY <1>1, <1>2, <1>4, <1>5, <1>6 DEF Tied
<1> QED
  BY <1>3, <1>7

LEMMA MovesKeep ==
  ASSUME IInv, NEW t \in Txns, NEW p \in Running \cup Ended, NEW s \in Loaded, NEW n \in Nat,
         NEW a \in Contents \cup {None}, Moves(t, p, s, n, a), pc[t] # "done",
         Stage(t)', Tied(t)', \A u \in Txns \ {t} : Apart(t, u)'
  PROVE  IInv'
<1>1. /\ pc'[t] = p /\ seen'[t] = s /\ number'[t] = n /\ answer'[t] = a
      /\ Only(t) /\ UNCHANGED <<prompt, version, config, req>>
  BY MovesAre DEF IInv
<1>2. TypeOK'
  BY <1>1 DEF IInv, TypeOK, Moves
<1>3. Integrity' /\ Gapless'
  <2>1. \A i : (Live(i)' <=> Live(i)) /\ (Exists(i)' <=> Exists(i)) /\ Numbers(i)' = Numbers(i)
    BY <1>1 DEF Live, Exists, Numbers, VersionsOf
  <2>2. Integrity'
    BY <1>1, <2>1 DEF IInv, Integrity
  <2>3. Gapless'
    BY <2>1 DEF IInv, Gapless
  <2> QED
    BY <2>2, <2>3
<1>4. \A u \in Txns : Stage(u)' /\ Tied(u)'
  BY <1>1, OthersKeep
<1>5. ASSUME NEW u \in Txns, NEW v \in Txns \ {u}
      PROVE  Apart(u, v)'
  <2>1. CASE u = t
    BY <2>1
  <2>2. CASE v = t
    <3>1. Apart(t, u)'
      BY <2>2
    <3> QED
      BY <2>2, <3>1 DEF Apart
  <2>3. CASE u # t /\ v # t
    <3>1. Apart(u, v)
      BY DEF IInv, Orderly
    <3>2. pc'[u] = pc[u] /\ seen'[u] = seen[u] /\ number'[u] = number[u] /\ pc'[v] = pc[v] /\ seen'[v] = seen[v] /\ number'[v] = number[v]
      BY <1>1, <2>3 DEF Only
    <3> QED
      BY <1>1, <3>1, <3>2 DEF Apart, Own, Holds, Exclusive, Renamed, Renames, Erased, Versioned, Refers, Entered, Entering
  <2> QED
    BY <2>1, <2>2, <2>3
<1> QED
  BY <1>2, <1>3, <1>4, <1>5 DEF IInv, Orderly

LEMMA RowsStay ==
  ASSUME UNCHANGED <<prompt, version, config>>
  PROVE  /\ \A i : (Live(i)' <=> Live(i)) /\ (Referenced(i)' <=> Referenced(i)) /\ Numbers(i)' = Numbers(i)
         /\ \A name : Named(name)' = Named(name)
BY DEF Live, Referenced, Numbers, VersionsOf, Named

LEMMA OthersStay ==
  ASSUME NEW t \in Txns, Only(t), req' = req, NEW u \in Txns \ {t}
  PROVE  /\ Own(u)' = Own(u) /\ (Holds(u)' <=> Holds(u)) /\ (Exclusive(u)' <=> Exclusive(u))
         /\ (Entered(u)' <=> Entered(u)) /\ pc'[u] = pc[u]
BY DEF Only, Own, Holds, Exclusive, Renamed, Renames, Erased, Versioned, Refers, Entered, Entering

LEMMA ApartAfter ==
  ASSUME IInv, NEW t \in Txns, Only(t), req' = req, pc[t] # "idle" \/ req[t].op # "create",
         \A u \in Txns \ {t} :
           /\ Own(t)' = Own(u) /\ Exclusive(t)' => ~Holds(u)
           /\ Own(t)' = Own(u) /\ Holds(t)' => ~Exclusive(u)
           /\ Entered(t)' /\ Entered(u) => req[t].name # req[u].name
  PROVE  \A u \in Txns \ {t} : Apart(t, u)'
<1> SUFFICES ASSUME NEW u \in Txns \ {t}
             PROVE  Apart(t, u)'
  OBVIOUS
<1>1. Apart(t, u)
  BY DEF IInv, Orderly
<1> QED
  BY <1>1, OthersStay DEF Apart

(* A step that locks nothing more and enters no name.                       *)
LEMMA QuietApart ==
  ASSUME IInv, NEW t \in Txns, Only(t), req' = req, pc[t] # "idle" \/ req[t].op # "create",
         Holds(t)' => Holds(t) /\ Own(t)' = Own(t),
         Exclusive(t)' => Exclusive(t),
         Entered(t)' => Entered(t)
  PROVE  \A u \in Txns \ {t} : Apart(t, u)'
<1>1. Exclusive(t)' => Holds(t)'
  BY DEF Holds
<1>2. \A u \in Txns \ {t} : Apart(t, u)
  BY DEF IInv, Orderly
<1> QED
  BY <1>1, <1>2, ApartAfter DEF Apart

(* The step ends the transaction and tells it nothing.                      *)
LEMMA EndKeeps ==
  ASSUME IInv, NEW t \in Txns, NEW p \in {"missing", "conflict", "failed"},
         pc[t] \in Running \/ (pc[t] = "idle" /\ req[t].op # "create"),
         Moves(t, p, seen[t], number[t], answer[t])
  PROVE  IInv'
<1>1. /\ pc'[t] = p /\ seen'[t] = seen[t] /\ number'[t] = number[t] /\ answer'[t] = answer[t]
      /\ Only(t) /\ UNCHANGED <<prompt, version, config, req>>
  BY MovesAre DEF IInv
<1>2. p \in Ended /\ p \notin Running /\ p # "idle" /\ p # "done" /\ pc[t] # "done"
  BY DEF Ended, Running
<1>3. Stage(t) /\ Tied(t)
  BY DEF IInv, Orderly
<1>4. Stage(t)'
  BY <1>1, <1>2, <1>3 DEF Stage, Own, Renames, Entering, Writes
<1>5. ~Holds(t)' /\ ~Exclusive(t)' /\ ~Entered(t)' /\ ~Erased(t)' /\ ~Numbering(t)'
  BY <1>1, <1>2 DEF Holds, Exclusive, Renamed, Erased, Versioned, Refers, Entered, Numbering, Running
<1>6. Tied(t)'
  <2>1. seen[t].current \in Txns => pc'[seen[t].current] = "done"
    BY <1>1, <1>2, <1>3 DEF Tied, Only
  <2> QED
    BY <1>1, <1>2, <1>3, <1>5, <2>1, RowsStay DEF Tied, Own
<1>7. \A u \in Txns \ {t} : Apart(t, u)'
  <2>1. pc[t] # "idle" \/ req[t].op # "create"
    BY DEF Running
  <2> QED
    BY <1>1, <1>5, <2>1, QuietApart
<1>8. seen[t] \in Loaded /\ number[t] \in Nat /\ answer[t] \in Contents \cup {None}
  BY DEF IInv, TypeOK
<1> QED
  BY <1>1, <1>2, <1>4, <1>6, <1>7, <1>8, MovesKeep
-------------------------------------------------------------------------------
(* The steps, one by one                                                    *)

LEMMA RequestIs ==
  ASSUME IInv, NEW t \in Txns
  PROVE  /\ req[t] \in Request
         /\ req[t].op \in {"create", "update", "delete", "attach"} => req[t].id \in Ids
         /\ req[t].op \in {"create", "post", "show"} => req[t].name \in Names
         /\ req[t].op \in {"create", "post"} => req[t].content \in Contents
         /\ req[t].op \in {"attach", "run"} => req[t].config \in Configs
<1>1. req[t] \in Requests /\ Requests \subseteq Request
  BY SystemPromptsAssumption DEF IInv, TypeOK
<1>2. req[t] \in Request
  BY <1>1
<1>3. /\ req[t].op \in {"create", "update", "delete", "attach"} => req[t].id # None
      /\ req[t].op \in {"create", "post", "show"} => req[t].name # None
      /\ req[t].op \in {"create", "post"} => req[t].content # None
      /\ req[t].op \in {"attach", "run"} => req[t].config # None
  BY <1>1, SystemPromptsAssumption
<1> QED
  BY <1>2, <1>3 DEF Request

(* The current version of a live prompt is there, and committed.            *)
LEMMA CurrentIs ==
  ASSUME IInv, NEW i \in Ids, Live(i)
  PROVE  /\ prompt[i].current \in Versions /\ prompt[i].current # None /\ prompt[i].name \in Names
         /\ version[prompt[i].current].prompt = i
         /\ prompt[i].current \in Txns => pc[prompt[i].current] = "done"
<1>1. prompt[i] \in Prompt
  BY DEF IInv, TypeOK
<1>2. prompt[i].current \in Versions /\ prompt[i].current # None /\ prompt[i].name \in Names
  BY <1>1, SystemPromptsAssumption DEF Prompt, Versions
<1>3. version[prompt[i].current].prompt = i
  BY DEF IInv, Integrity
<1>4. i # None
  BY SystemPromptsAssumption
<1> QED
  BY <1>2, <1>3, <1>4 DEF IInv, Orderly, Tied

LEMMA CreateKeeps ==
  ASSUME IInv, NEW t \in Txns, BeginCreate(t)
  PROVE  IInv'
<1> DEFINE s == [seen[t] EXCEPT !.id = req[t].id]
<1>1. pc[t] = "idle" /\ req[t].op = "create" /\ prompt[req[t].id].state = "absent"
  BY DEF BeginCreate
<1>2. PICK p \in {"enter", "conflict"} : Moves(t, p, s, number[t], answer[t])
  BY DEF BeginCreate, Goto, Moves, IInv, TypeOK, Loaded
<1>3. /\ pc'[t] = p /\ seen'[t] = s /\ number'[t] = number[t] /\ answer'[t] = answer[t]
      /\ Only(t) /\ UNCHANGED <<prompt, version, config, req>>
  BY <1>2, MovesAre DEF IInv
<1>4. Stage(t) /\ Tied(t) /\ seen[t] \in Loaded /\ number[t] \in Nat /\ answer[t] \in Contents \cup {None}
  BY DEF IInv, Orderly, TypeOK
<1>5. s \in Loaded /\ s.id = req[t].id /\ s.current = None /\ number[t] = 0 /\ req[t].id \in Ids
  BY <1>1, <1>4, RequestIs DEF Loaded, Stage
<1> HIDE DEF s
<1>6. p \in Running \cup Ended
  BY DEF Running, Ended
<1>7. Stage(t)'
  BY <1>1, <1>3, <1>5 DEF Stage, Own, Entering, Writes
<1>8. ~Holds(t)' /\ ~Exclusive(t)' /\ ~Entered(t)' /\ ~Erased(t)' /\ ~Numbering(t)'
  BY <1>1, <1>3, <1>5 DEF Holds, Exclusive, Renamed, Renames, Erased, Versioned, Refers, Entered, Numbering, Running
<1>9. None \notin Txns
  BY SystemPromptsAssumption
<1>10. Tied(t)'
  BY <1>1, <1>3, <1>4, <1>5, <1>8, <1>9, RowsStay DEF Tied, Own, Writes
<1>11. \A u \in Txns \ {t} : Apart(t, u)'
  BY <1>3, <1>8, OthersStay DEF BeginCreate, Apart
<1> QED
  BY <1>1, <1>2, <1>4, <1>5, <1>6, <1>7, <1>10, <1>11, MovesKeep

LEMMA LookupKeeps ==
  ASSUME IInv, NEW t \in Txns, BeginLookup(t)
  PROVE  IInv'
<1>1. pc[t] = "idle" /\ req[t].op \in {"update", "delete", "post", "show"}
  BY DEF BeginLookup
<1>2. CASE Goto(t, "missing") /\ UNCHANGED seen
  <2>1. Moves(t, "missing", seen[t], number[t], answer[t])
    BY <1>2 DEF BeginLookup, Goto, Moves, IInv, TypeOK
  <2> QED
    BY <1>1, <2>1, EndKeeps
<1>3. CASE \E i \in Wanted(t) :
             Load(t, i) /\ IF req[t].op = "delete" /\ Referenced(i) THEN Goto(t, "conflict") ELSE Goto(t, FirstPoint(t))
  <2>1. PICK i \in Wanted(t) :
          Load(t, i) /\ IF req[t].op = "delete" /\ Referenced(i) THEN Goto(t, "conflict") ELSE Goto(t, FirstPoint(t))
    BY <1>3
  <2>2. i \in Ids /\ Live(i)
    BY DEF Wanted, Named
  <2> DEFINE s == [id |-> i, name |-> prompt[i].name, current |-> prompt[i].current]
  <2>3. PICK p : Goto(t, p) /\ (p = "conflict" \/ p = FirstPoint(t))
    BY <2>1
  <2>4. Moves(t, p, s, number[t], answer[t])
    BY <2>1, <2>3 DEF BeginLookup, Load, Goto, Moves, IInv, TypeOK
  <2>5. /\ pc'[t] = p /\ seen'[t] = s /\ number'[t] = number[t] /\ answer'[t] = answer[t]
        /\ Only(t) /\ UNCHANGED <<prompt, version, config, req>>
    BY <2>4, MovesAre DEF IInv
  <2>6. Stage(t) /\ Tied(t) /\ number[t] \in Nat /\ answer[t] \in Contents \cup {None} /\ number[t] = 0
    BY <1>1 DEF IInv, Orderly, TypeOK, Stage
  <2>7. s \in Loaded /\ s.id = i /\ s.current = prompt[i].current /\ i # None
    BY <2>2, CurrentIs, SystemPromptsAssumption DEF Loaded
  <2> HIDE DEF s
  <2>8. /\ p \in {"conflict", "erase", "number", "read", "check", "content"}
        /\ p = "erase" => req[t].op = "delete"
        /\ p = "number" => req[t].op = "post" /\ req[t].content # None
        /\ p = "read" => req[t].op = "show"
        /\ p = "check" => req[t].op = "update" /\ req[t].name # None
        /\ p = "content" => req[t].op = "update" /\ req[t].name = None
    BY <1>1, <2>3, RequestIs, SystemPromptsAssumption DEF FirstPoint
  <2>9. p \in Running \cup Ended
    BY <2>8 DEF Running, Ended
  <2>10. Stage(t)'
    BY <1>1, <2>2, <2>5, <2>6, <2>7, <2>8, CurrentIs DEF Stage, Own, Writes, Running
  <2>11. ~Holds(t)' /\ ~Exclusive(t)' /\ ~Entered(t)' /\ ~Erased(t)' /\ ~Numbering(t)'
    BY <1>1, <2>5, <2>6, <2>8 DEF Holds, Exclusive, Renamed, Renames, Erased, Versioned, Refers, Entered, Entering, Numbering, Running
  <2>12. Tied(t)'
    <3>1. prompt[i].current \in Txns => pc'[prompt[i].current] = "done"
      BY <1>1, <2>2, <2>5, CurrentIs DEF Only
    <3>2. prompt[i].state # "absent"
      BY <2>2 DEF Live
    <3> QED
      BY <1>1, <2>2, <2>5, <2>6, <2>7, <2>8, <2>11, <3>1, <3>2, CurrentIs, RowsStay DEF Tied, Own, Writes
  <2>13. \A u \in Txns \ {t} : Apart(t, u)'
    BY <1>1, <2>5, <2>11, QuietApart
  <2> QED
    BY <1>1, <2>4, <2>6, <2>7, <2>9, <2>10, <2>12, <2>13, MovesKeep
<1> QED
  BY <1>2, <1>3 DEF BeginLookup

(* Waiting for the row and finding it locked by nobody.                     *)
LEMMA FreeMeans ==
  ASSUME NEW t \in Txns, Free(t), NEW u \in Txns \ {t}, Own(t) = Own(u)
  PROVE  /\ pc[t] \in {"rename", "erase"} => ~Holds(u)
         /\ pc[t] \in {"rename", "erase", "insert", "refer"} => ~Exclusive(u)
BY DEF Free, Waits, Holds

(* The current version is read anew.                                        *)
LEMMA RefreshKeeps ==
  ASSUME IInv, NEW t \in Txns, pc[t] \in {"check", "enter"}, req[t].op = "update", Live(Own(t)),
         Refresh(t), Goto(t, "content"), UNCHANGED <<Data, req, number, answer>>,
         pc[t] = "check" => ~Renames(t),
         Renames(t) => Named(req[t].name) \subseteq {Own(t)},
         Renames(t) => \A u \in Txns \ {t} : Entered(u) => req[u].name # req[t].name
  PROVE  IInv'
<1> DEFINE s == [seen[t] EXCEPT !.current = prompt[Own(t)].current]
<1>1. Stage(t) /\ Tied(t) /\ seen[t] \in Loaded /\ number[t] \in Nat /\ answer[t] \in Contents \cup {None}
  BY DEF IInv, Orderly, TypeOK
<1>2. Own(t) \in Ids /\ number[t] = 0 /\ Own(t) # None
  BY <1>1, SystemPromptsAssumption DEF Stage, Running, Ended
<1>3. /\ s \in Loaded /\ s.id = seen[t].id /\ s.name = seen[t].name /\ s.current = prompt[Own(t)].current
      /\ s.current # None
  BY <1>1, <1>2, CurrentIs DEF Loaded
<1>4. Moves(t, "content", s, number[t], answer[t])
  BY <1>1 DEF Refresh, Goto, Moves, IInv, TypeOK, Loaded
<1>5. /\ pc'[t] = "content" /\ seen'[t] = s /\ number'[t] = number[t] /\ answer'[t] = answer[t]
      /\ Only(t) /\ UNCHANGED <<prompt, version, config, req>>
  BY <1>4, MovesAre DEF IInv
<1> HIDE DEF s
<1>6. "content" \in Running \cup Ended
  BY DEF Running
<1>7. Own(t)' = Own(t) /\ (Renames(t)' <=> Renames(t)) /\ (Entering(t)' <=> Renames(t)) /\ (Writes(t)' <=> Writes(t))
  BY <1>3, <1>5 DEF Own, Renames, Entering, Writes
<1>8. Stage(t)'
  BY <1>1, <1>2, <1>3, <1>5, <1>7 DEF Stage, Own, Running
<1>9. /\ (Holds(t)' => Holds(t)) /\ (Exclusive(t)' => Exclusive(t)) /\ ~Erased(t)' /\ ~Numbering(t)'
      /\ Entered(t)' => Renames(t)
  BY <1>2, <1>5, <1>7 DEF Holds, Exclusive, Renamed, Erased, Versioned, Refers, Numbering, Entered
<1>10. Tied(t)'
  <2>1. prompt[Own(t)].current \in Txns => pc'[prompt[Own(t)].current] = "done"
    BY <1>2, <1>5, CurrentIs DEF Only
  <2> QED
    BY <1>1, <1>2, <1>3, <1>5, <1>7, <1>9, <2>1, CurrentIs, RowsStay DEF Tied
<1>11. \A u \in Txns \ {t} : Apart(t, u)'
  <2>1. \A u \in Txns \ {t} : Apart(t, u)
    BY DEF IInv, Orderly
  <2> QED
    BY <1>5, <1>7, <1>9, <2>1, ApartAfter DEF Apart
<1> QED
  BY <1>1, <1>3, <1>4, <1>6, <1>8, <1>10, <1>11, MovesKeep

(* The transaction goes on with what it knows.                              *)
LEMMA GoesOn ==
  ASSUME IInv, NEW t \in Txns, NEW p \in Running, p \notin {"idle", "lookup", "read"}, pc[t] \in Running,
         Goto(t, p), UNCHANGED <<Data, req, seen, number, answer>>,
         Stage(t)',
         Holds(t)' /\ ~Erased(t)' => Live(Own(t)),
         Erased(t)' => ~Referenced(Own(t)),
         req[t].op = "create" => pc[t] = "enter",
         Entered(t)' => Named(req[t].name) \subseteq {Own(t)},
         Numbering(t)' => Numbering(t),
         p = "commit" /\ Writes(t) /\ req[t].content # None /\ number[t] = 0 /\ Live(Own(t)) /\ ~Replaced(t)
           => version[seen[t].current].content = req[t].content,
         \A u \in Txns \ {t} :
           /\ Own(t) = Own(u) /\ Exclusive(t)' => ~Holds(u)
           /\ Own(t) = Own(u) /\ Holds(t)' => ~Exclusive(u)
           /\ Entered(t)' /\ Entered(u) => req[t].name # req[u].name
  PROVE  IInv'
<1>1. Stage(t) /\ Tied(t) /\ seen[t] \in Loaded /\ number[t] \in Nat /\ answer[t] \in Contents \cup {None}
  BY DEF IInv, Orderly, TypeOK
<1>2. Moves(t, p, seen[t], number[t], answer[t])
  BY DEF Goto, Moves, IInv, TypeOK
<1>3. /\ pc'[t] = p /\ seen'[t] = seen[t] /\ number'[t] = number[t] /\ answer'[t] = answer[t]
      /\ Only(t) /\ UNCHANGED <<prompt, version, config, req>>
  BY <1>2, MovesAre DEF IInv
<1>4. pc[t] # "done" /\ p # "done" /\ pc[t] # "idle"
  BY DEF Running
<1>5. Own(t)' = Own(t) /\ (Writes(t)' <=> Writes(t)) /\ (Replaced(t)' <=> Replaced(t))
  BY <1>3 DEF Own, Writes, Replaced
<1>6. Tied(t)'
  <2>1. seen[t].current \in Txns => pc'[seen[t].current] = "done"
    BY <1>1, <1>3, <1>4 DEF Tied, Only
  <2> QED
    BY <1>1, <1>3, <1>4, <1>5, <2>1, RowsStay DEF Tied
<1>7. \A u \in Txns \ {t} : Apart(t, u)'
  BY <1>3, <1>4, <1>5, ApartAfter
<1> QED
  BY <1>1, <1>2, <1>4, <1>6, <1>7, MovesKeep

(* GoesOn's premises that hold of most steps.                               *)
LEMMA GoneTo ==
  ASSUME IInv, NEW t \in Txns, NEW p, Goto(t, p), UNCHANGED <<Data, req, seen, number, answer>>
  PROVE  /\ pc'[t] = p /\ seen'[t] = seen[t] /\ number'[t] = number[t] /\ answer'[t] = answer[t] /\ req' = req
         /\ Stage(t) /\ Tied(t) /\ number[t] \in Nat
         /\ Moves(t, p, seen[t], number[t], answer[t])
BY DEF IInv, TypeOK, Orderly, Goto, Moves

LEMMA CheckNameKeeps ==
  ASSUME IInv, NEW t \in Txns, CheckName(t)
  PROVE  IInv'
<1>1. pc[t] = "check" /\ pc[t] \in Running /\ UNCHANGED <<Data, req, number, answer>>
  BY DEF CheckName, Running
<1>2. Stage(t)
  BY DEF IInv, Orderly
<1>3. req[t].op = "update" /\ req[t].name # None /\ Own(t) \in Ids
  BY <1>1, <1>2 DEF Stage
<1>4. CASE Renames(t) /\ Named(req[t].name) = {} /\ Goto(t, "rename") /\ UNCHANGED seen
  <2>1. pc'[t] = "rename" /\ seen'[t] = seen[t] /\ number'[t] = number[t] /\ number[t] \in Nat
    BY <1>1, <1>4, GoneTo
  <2>2. "rename" \in Running /\ number[t] = 0
    BY <1>1, <1>2, <2>1 DEF Running, Stage, Ended
  <2>3. Stage(t)'
    BY <1>1, <1>2, <1>3, <1>4, <2>1, <2>2 DEF Stage, Own, Renames, Entering, Writes
  <2>4. ~Holds(t)' /\ ~Exclusive(t)' /\ ~Entered(t)' /\ ~Erased(t)' /\ ~Numbering(t)'
    BY <2>1, <2>2 DEF Holds, Exclusive, Renamed, Erased, Versioned, Refers, Entered, Numbering
  <2> QED
    BY <1>1, <1>3, <1>4, <2>2, <2>3, <2>4, GoesOn
<1>5. CASE \E p \in {"conflict", "failed"} : Goto(t, p) /\ UNCHANGED seen
  BY <1>1, <1>5, GoneTo, EndKeeps
<1>6. CASE ~Renames(t) /\ Live(Own(t)) /\ Refresh(t) /\ Goto(t, "content")
  BY <1>1, <1>3, <1>6, RefreshKeeps
<1> QED
  BY <1>4, <1>5, <1>6 DEF CheckName

LEMMA RenameKeeps ==
  ASSUME IInv, NEW t \in Txns, Rename(t)
  PROVE  IInv'
<1>1. pc[t] = "rename" /\ pc[t] \in Running /\ Free(t) /\ UNCHANGED <<Data, req, seen, number, answer>>
  BY DEF Rename, Running
<1>2. CASE ~Live(Own(t))
  <2>1. Goto(t, "failed")
    BY <1>2 DEF Rename
  <2> QED
    BY <1>1, <2>1, GoneTo, EndKeeps
<1>3. CASE Live(Own(t))
  <2>1. Goto(t, "enter")
    BY <1>3 DEF Rename
  <2>2. pc'[t] = "enter" /\ seen'[t] = seen[t] /\ number'[t] = number[t] /\ number[t] \in Nat /\ req' = req /\ Stage(t)
    BY <1>1, <2>1, GoneTo
  <2>3. "enter" \in Running /\ number[t] = 0 /\ Renames(t) /\ req[t].op = "update"
    BY <1>1, <2>2 DEF Running, Stage, Ended
  <2>4. Stage(t)'
    BY <1>1, <2>2, <2>3 DEF Stage, Own, Renames, Entering, Writes
  <2>5. ~Entered(t)' /\ ~Erased(t)' /\ ~Numbering(t)'
    BY <2>2, <2>3 DEF Erased, Entered, Numbering
  <2>6. \A u \in Txns \ {t} : Own(t) = Own(u) => ~Holds(u) /\ ~Exclusive(u)
    BY <1>1, FreeMeans
  <2> QED
    BY <1>1, <1>3, <2>1, <2>3, <2>4, <2>5, <2>6, GoesOn
<1> QED
  BY <1>2, <1>3

LEMMA EnterKeeps ==
  ASSUME IInv, NEW t \in Txns, Enter(t)
  PROVE  IInv'
<1>1. pc[t] = "enter" /\ pc[t] \in Running /\ UNCHANGED <<Data, req, number, answer>> /\ Stage(t) /\ Tied(t)
  BY DEF Enter, Running, IInv, Orderly
<1>2. \A u \in Txns \ {t} : Entered(u) => req[u].name # req[t].name
  BY DEF Enter, WaitsForName
<1>3. Entering(t) /\ Own(t) \in Ids
  BY <1>1 DEF Stage
<1>4. CASE Named(req[t].name) \ {Own(t)} # {}
  <2>1. Goto(t, "conflict") /\ UNCHANGED seen
    BY <1>4 DEF Enter, EnterName
  <2> QED
    BY <1>1, <2>1, GoneTo, EndKeeps
<1>5. CASE Named(req[t].name) \subseteq {Own(t)} /\ req[t].op = "create"
  <2>1. Goto(t, "commit") /\ UNCHANGED seen
    BY <1>5 DEF Enter, EnterName
  <2>2. pc'[t] = "commit" /\ seen'[t] = seen[t] /\ number'[t] = number[t] /\ number[t] \in Nat /\ req' = req
    BY <1>1, <2>1, GoneTo
  <2>3. "commit" \in Running /\ number[t] = 0
    BY <1>1, <2>2 DEF Running, Stage, Ended
  <2>4. Stage(t)'
    BY <1>1, <1>5, <2>2, <2>3 DEF Stage, Own, Renames, Entering, Writes
  <2>5. ~Holds(t)' /\ ~Exclusive(t)' /\ ~Erased(t)' /\ ~Numbering(t)' /\ ~Writes(t)
    BY <1>5, <2>2, <2>3 DEF Holds, Exclusive, Renamed, Renames, Erased, Versioned, Refers, Numbering, Writes
  <2> QED
    BY <1>1, <1>2, <1>5, <2>1, <2>3, <2>4, <2>5, GoesOn
<1>6. CASE Named(req[t].name) \subseteq {Own(t)} /\ req[t].op # "create"
  <2>1. Refresh(t) /\ Goto(t, "content")
    BY <1>6 DEF Enter, EnterName
  <2>2. req[t].op = "update" /\ Renamed(t) /\ Holds(t) /\ ~Erased(t)
    BY <1>1, <1>3, <1>6 DEF Entering, Renames, Renamed, Holds, Exclusive, Erased
  <2>3. Live(Own(t))
    BY <1>1, <2>2 DEF Tied
  <2> QED
    BY <1>1, <1>2, <1>6, <2>1, <2>2, <2>3, RefreshKeeps
<1> QED
  BY <1>4, <1>5, <1>6

LEMMA ReadContentKeeps ==
  ASSUME IInv, NEW t \in Txns, ReadContent(t)
  PROVE  IInv'
<1>1. pc[t] = "content" /\ pc[t] \in Running /\ UNCHANGED <<Data, req, seen, number, answer>> /\ Stage(t) /\ Tied(t)
  BY DEF ReadContent, Running, IInv, Orderly
<1>2. PICK p \in {"commit", "number"} :
        /\ Goto(t, p) /\ (p = "number" => req[t].content # None)
        /\ p = "commit" /\ req[t].content # None => req[t].content = CurrentContent(t)
  BY DEF ReadContent
<1>3. pc'[t] = p /\ seen'[t] = seen[t] /\ number'[t] = number[t] /\ number[t] \in Nat /\ req' = req
  BY <1>1, <1>2, GoneTo
<1>4. p \in Running /\ number[t] = 0 /\ req[t].op = "update"
  BY <1>1, <1>3 DEF Running, Stage, Ended
<1>5. Stage(t)'
  BY <1>1, <1>2, <1>3, <1>4 DEF Stage, Own, Renames, Entering, Writes
<1>6. /\ (Holds(t)' => Holds(t)) /\ (Exclusive(t)' => Exclusive(t)) /\ (Entered(t)' => Entered(t))
      /\ ~Erased(t)' /\ ~Numbering(t)' /\ ~Erased(t)
  BY <1>1, <1>3, <1>4 DEF Holds, Exclusive, Renamed, Renames, Erased, Versioned, Refers, Entered, Entering, Numbering, Running
<1>7. req[t].content # None /\ p = "commit" /\ Live(Own(t)) => version[seen[t].current].content = req[t].content
  BY <1>2 DEF CurrentContent
<1>8. \A u \in Txns \ {t} : Apart(t, u)
  BY DEF IInv, Orderly
<1> QED
  BY <1>1, <1>2, <1>4, <1>5, <1>6, <1>7, <1>8, GoesOn DEF Apart, Tied

LEMMA NewestIs ==
  ASSUME NEW i, NEW n \in Nat, Numbers(i) = 1 .. n
  PROVE  Newest(i) = n
<1>1. CASE n = 0
  <2>1. Numbers(i) = {}
    BY <1>1
  <2> QED
    BY <1>1, <2>1 DEF Newest
<1>2. CASE n # 0
  <2>1. n \in 1 .. n /\ (\A m \in 1 .. n : m <= n) /\ 1 .. n # {}
    BY <1>2
  <2>2. \A k \in 1 .. n : (\A m \in 1 .. n : m <= k) => k = n
    BY <1>2, <2>1
  <2>3. Newest(i) = CHOOSE k \in 1 .. n : \A m \in 1 .. n : m <= k
    BY <2>1 DEF Newest
  <2> QED
    BY <2>1, <2>2, <2>3
<1> QED
  BY <1>1, <1>2

LEMMA TakeNumberKeeps ==
  ASSUME IInv, NEW t \in Txns, TakeNumber(t)
  PROVE  IInv'
<1>1. pc[t] = "number" /\ Stage(t) /\ Tied(t) /\ seen[t] \in Loaded /\ number[t] \in Nat /\ answer[t] \in Contents \cup {None}
  BY DEF TakeNumber, IInv, Orderly, TypeOK
<1>2. Own(t) \in Ids /\ Writes(t) /\ req[t].content # None /\ number[t] = 0
  BY <1>1 DEF Stage, Running, Ended
<1>3. PICK n \in Nat : Numbers(Own(t)) = 1 .. n
  BY <1>2 DEF IInv, Gapless
<1>4. Newest(Own(t)) = n
  BY <1>3, NewestIs
<1>5. Moves(t, "insert", seen[t], n + 1, answer[t])
  BY <1>4 DEF TakeNumber, Goto, Moves, IInv, TypeOK, Data
<1>6. /\ pc'[t] = "insert" /\ seen'[t] = seen[t] /\ number'[t] = n + 1 /\ answer'[t] = answer[t]
      /\ Only(t) /\ UNCHANGED <<prompt, version, config, req>>
  BY <1>5, MovesAre DEF IInv
<1>7. "insert" \in Running \cup Ended /\ n + 1 \in Nat /\ n + 1 > 0
  BY DEF Running
<1>8. Stage(t)'
  BY <1>1, <1>2, <1>6, <1>7 DEF Stage, Own, Renames, Entering, Writes, Running
<1>9. /\ (Holds(t)' => Holds(t)) /\ (Exclusive(t)' => Exclusive(t)) /\ (Entered(t)' => Entered(t))
      /\ ~Erased(t)' /\ ~Erased(t) /\ Own(t)' = Own(t)
  BY <1>1, <1>2, <1>6 DEF Holds, Exclusive, Renamed, Renames, Erased, Versioned, Refers, Entered, Entering, Own, Running
<1>10. Tied(t)'
  <2>1. seen[t].current \in Txns => pc'[seen[t].current] = "done"
    BY <1>1, <1>6 DEF Tied, Only
  <2>2. 1 .. (n + 1) - 1 \subseteq Numbers(Own(t)) /\ \A m \in Numbers(Own(t)) : m < n + 1
    BY <1>3
  <2> QED
    BY <1>1, <1>2, <1>6, <1>9, <2>1, <2>2, RowsStay DEF Tied, Writes
<1>11. \A u \in Txns \ {t} : Apart(t, u)'
  BY <1>1, <1>6, <1>9, QuietApart
<1> QED
  BY <1>1, <1>5, <1>7, <1>8, <1>10, <1>11, MovesKeep

LEMMA InsertKeeps ==
  ASSUME IInv, NEW t \in Txns, InsertVersion(t)
  PROVE  IInv'
<1>1. pc[t] = "insert" /\ pc[t] \in Running /\ Free(t) /\ UNCHANGED <<Data, req, seen, number, answer>>
  BY DEF InsertVersion, Running
<1>2. CASE ~Live(Own(t))
  <2>1. Goto(t, "failed")
    BY <1>2 DEF InsertVersion
  <2> QED
    BY <1>1, <2>1, GoneTo, EndKeeps
<1>3. CASE Live(Own(t))
  <2>1. Goto(t, "current")
    BY <1>3 DEF InsertVersion
  <2>2. pc'[t] = "current" /\ seen'[t] = seen[t] /\ number'[t] = number[t] /\ number[t] \in Nat /\ req' = req /\ Stage(t) /\ Tied(t)
    BY <1>1, <2>1, GoneTo
  <2>3. "current" \in Running /\ number[t] > 0 /\ Writes(t)
    BY <1>1, <2>2 DEF Running, Stage
  <2>4. Stage(t)'
    BY <1>1, <2>2, <2>3 DEF Stage, Own, Renames, Entering, Writes
  <2>5. /\ (Exclusive(t)' => Exclusive(t)) /\ (Entered(t)' => Entered(t)) /\ ~Erased(t)' /\ Numbering(t)
        /\ Exclusive(t) => Holds(t)
    BY <1>1, <2>2, <2>3 DEF Holds, Exclusive, Renamed, Renames, Erased, Entered, Entering, Numbering, Writes, Running
  <2>6. \A u \in Txns \ {t} : (Own(t) = Own(u) => ~Exclusive(u)) /\ Apart(t, u)
    BY <1>1, FreeMeans DEF IInv, Orderly
  <2>7. Entered(t) => Named(req[t].name) \subseteq {Own(t)}
    BY <2>2 DEF Tied
  <2>8. req[t].op # "create"
    BY <2>3 DEF Writes
  <2> QED
    BY <1>1, <1>3, <2>1, <2>3, <2>4, <2>5, <2>6, <2>7, <2>8, GoesOn DEF Apart
<1> QED
  BY <1>2, <1>3

LEMMA SetCurrentKeeps ==
  ASSUME IInv, NEW t \in Txns, SetCurrent(t)
  PROVE  IInv'
<1>1. pc[t] = "current" /\ pc[t] \in Running /\ Goto(t, "commit") /\ UNCHANGED <<Data, req, seen, number, answer>>
  BY DEF SetCurrent, Running
<1>2. pc'[t] = "commit" /\ seen'[t] = seen[t] /\ number'[t] = number[t] /\ number[t] \in Nat /\ req' = req /\ Stage(t) /\ Tied(t)
  BY <1>1, GoneTo
<1>3. "commit" \in Running /\ number[t] > 0 /\ Writes(t)
  BY <1>1, <1>2 DEF Running, Stage
<1>4. Stage(t)'
  BY <1>1, <1>2, <1>3 DEF Stage, Own, Renames, Entering, Writes
<1>5. /\ (Exclusive(t)' => Exclusive(t)) /\ (Entered(t)' => Entered(t)) /\ ~Erased(t)' /\ Numbering(t)
      /\ Holds(t) /\ ~Erased(t)
  BY <1>1, <1>2, <1>3 DEF Holds, Exclusive, Renamed, Renames, Erased, Refers, Entered, Entering, Numbering, Writes, Running
<1>6. \A u \in Txns \ {t} : Apart(t, u)
  BY DEF IInv, Orderly
<1>7. (Entered(t) => Named(req[t].name) \subseteq {Own(t)}) /\ Live(Own(t))
  BY <1>2, <1>5 DEF Tied
<1>8. req[t].op # "create" /\ ~(number[t] = 0)
  BY <1>3 DEF Writes
<1> QED
  BY <1>1, <1>3, <1>4, <1>5, <1>6, <1>7, <1>8, GoesOn DEF Apart

LEMMA EraseKeeps ==
  ASSUME IInv, NEW t \in Txns, Erase(t)
  PROVE  IInv'
<1>1. pc[t] = "erase" /\ pc[t] \in Running /\ Free(t) /\ UNCHANGED <<Data, req, seen, number, answer>>
  BY DEF Erase, Running
<1>2. CASE Live(Own(t)) /\ Referenced(Own(t))
  <2>1. Goto(t, "failed")
    BY <1>2 DEF Erase
  <2> QED
    BY <1>1, <2>1, GoneTo, EndKeeps
<1>3. CASE ~(Live(Own(t)) /\ Referenced(Own(t)))
  <2>1. Goto(t, "commit")
    BY <1>3 DEF Erase
  <2>2. pc'[t] = "commit" /\ seen'[t] = seen[t] /\ number'[t] = number[t] /\ number[t] \in Nat /\ req' = req /\ Stage(t) /\ Tied(t)
    BY <1>1, <2>1, GoneTo
  <2>3. "commit" \in Running /\ req[t].op = "delete" /\ Own(t) \in Ids /\ number[t] = 0
    BY <1>1, <2>2 DEF Running, Stage, Writes
  <2>4. Stage(t)'
    BY <1>1, <2>2, <2>3 DEF Stage, Own, Renames, Entering, Writes
  <2>5. Erased(t)' /\ ~Entered(t)' /\ ~Numbering(t)' /\ ~Writes(t)
    BY <2>2, <2>3 DEF Erased, Entered, Entering, Renames, Numbering, Writes
  <2>6. ~Referenced(Own(t))
    <3>1. Own(t) # None
      BY <2>3, SystemPromptsAssumption
    <3> QED
      BY <1>3, <3>1 DEF Referenced, IInv, Integrity
  <2>7. \A u \in Txns \ {t} : Own(t) = Own(u) => ~Holds(u) /\ ~Exclusive(u)
    BY <1>1, FreeMeans
  <2> QED
    BY <1>1, <2>1, <2>3, <2>4, <2>5, <2>6, <2>7, GoesOn
<1> QED
  BY <1>2, <1>3

LEMMA ReferKeeps ==
  ASSUME IInv, NEW t \in Txns, Refer(t)
  PROVE  IInv'
<1>1. pc[t] = "refer" /\ pc[t] \in Running /\ Free(t) /\ UNCHANGED <<Data, req, seen, number, answer>>
  BY DEF Refer, Running
<1>2. CASE ~Live(Own(t))
  <2>1. Goto(t, "conflict")
    BY <1>2 DEF Refer
  <2> QED
    BY <1>1, <2>1, GoneTo, EndKeeps
<1>3. CASE Live(Own(t))
  <2>1. Goto(t, "commit")
    BY <1>3 DEF Refer
  <2>2. pc'[t] = "commit" /\ seen'[t] = seen[t] /\ number'[t] = number[t] /\ number[t] \in Nat /\ req' = req /\ Stage(t) /\ Tied(t)
    BY <1>1, <2>1, GoneTo
  <2>3. "commit" \in Running /\ req[t].op = "attach" /\ number[t] = 0
    BY <1>1, <2>2 DEF Running, Stage, Writes
  <2>4. Stage(t)'
    BY <1>1, <2>2, <2>3 DEF Stage, Own, Renames, Entering, Writes
  <2>5. ~Exclusive(t)' /\ ~Erased(t)' /\ ~Entered(t)' /\ ~Numbering(t)' /\ ~Writes(t)
    BY <2>2, <2>3 DEF Exclusive, Renamed, Erased, Entered, Entering, Renames, Numbering, Writes
  <2>6. \A u \in Txns \ {t} : Own(t) = Own(u) => ~Exclusive(u)
    BY <1>1, FreeMeans
  <2> QED
    BY <1>1, <1>3, <2>1, <2>3, <2>4, <2>5, <2>6, GoesOn
<1> QED
  BY <1>2, <1>3

(* Attaching a prompt and running a model begin with an id alone.           *)
LEMMA BeginKeeps ==
  ASSUME IInv, NEW t \in Txns, BeginAttach(t) \/ BeginRun(t)
  PROVE  IInv'
<1> DEFINE i == IF req[t].op = "attach" THEN req[t].id ELSE config[req[t].config]
           s == [seen[t] EXCEPT !.id = i]
<1>1. pc[t] = "idle" /\ req[t].op \in {"attach", "run"}
  BY DEF BeginAttach, BeginRun
<1>2. Stage(t) /\ Tied(t) /\ seen[t] \in Loaded /\ number[t] \in Nat /\ answer[t] \in Contents \cup {None}
  BY DEF IInv, Orderly, TypeOK
<1>3. /\ req[t].op = "attach" => i \in Ids
      /\ req[t].op = "run" => i \in Ids \cup {None} /\ (i # None => Live(i))
  BY RequestIs DEF IInv, TypeOK, Integrity
<1>4. PICK p \in {"done", "refer", "lookup"} :
        /\ Moves(t, p, s, number[t], answer[t])
        /\ p = "refer" => req[t].op = "attach"
        /\ p = "lookup" => req[t].op = "run" /\ i # None
        /\ p = "done" /\ req[t].op = "run" => i = None
  BY <1>1 DEF BeginAttach, BeginRun, Goto, Moves, IInv, TypeOK, Loaded
<1>5. /\ pc'[t] = p /\ seen'[t] = s /\ number'[t] = number[t] /\ answer'[t] = answer[t]
      /\ Only(t) /\ UNCHANGED <<prompt, version, config, req>>
  BY <1>4, MovesAre DEF IInv
<1>6. s \in Loaded /\ s.id = i /\ s.current = None /\ number[t] = 0
  BY <1>1, <1>2, <1>3 DEF Loaded, Stage
<1> HIDE DEF i, s
<1>7. p \in Running \cup Ended /\ (p = "done" => p \notin Running)
  BY DEF Running, Ended
<1>8. Stage(t)'
  BY <1>1, <1>3, <1>4, <1>5, <1>6, <1>7 DEF Stage, Own, Writes
<1>9. ~Holds(t)' /\ ~Exclusive(t)' /\ ~Entered(t)' /\ ~Erased(t)' /\ ~Numbering(t)' /\ ~Writes(t)
  BY <1>1, <1>4, <1>5, <1>6 DEF Holds, Exclusive, Renamed, Renames, Erased, Versioned, Refers, Entered, Entering, Numbering, Writes
<1>10. Tied(t)'
  <2>1. None \notin Txns /\ None \notin Ids
    BY SystemPromptsAssumption
  <2>2. req[t].op = "run" /\ i \in Ids => prompt[i].state # "absent"
    BY <1>3, <2>1 DEF Live
  <2> QED
    BY <1>1, <1>2, <1>4, <1>5, <1>6, <1>9, <2>1, <2>2, RowsStay DEF Tied, Own
<1>11. \A u \in Txns \ {t} : Apart(t, u)'
  BY <1>1, <1>5, <1>9, QuietApart
<1> QED
  BY <1>1, <1>2, <1>4, <1>6, <1>7, <1>8, <1>10, <1>11, MovesKeep

(* A prompt that is not live any more is deleted.                           *)
LEMMA NotLive ==
  ASSUME IInv, NEW i \in Ids, prompt[i].state # "absent", ~Live(i)
  PROVE  prompt[i].state = "deleted"
BY DEF IInv, TypeOK, Prompt, Live

LEMMA RunLookupKeeps ==
  ASSUME IInv, NEW t \in Txns, Lookup(t)
  PROVE  IInv'
<1> DEFINE i == Own(t)
           s == IF Live(i) THEN [id |-> i, name |-> prompt[i].name, current |-> prompt[i].current] ELSE seen[t]
           p == IF Live(i) THEN "read" ELSE "done"
<1>1. pc[t] = "lookup" /\ Stage(t) /\ Tied(t) /\ seen[t] \in Loaded /\ number[t] \in Nat /\ answer[t] \in Contents \cup {None}
  BY DEF Lookup, IInv, Orderly, TypeOK
<1>2. req[t].op = "run" /\ i \in Ids /\ number[t] = 0 /\ i # None /\ prompt[i].state # "absent"
  BY <1>1, SystemPromptsAssumption DEF Stage, Tied, Running, Ended
<1>3. Moves(t, p, s, number[t], answer[t])
  BY DEF Lookup, Load, Goto, Moves, IInv, TypeOK
<1>4. s \in Loaded /\ s.id = i /\ (Live(i) => s.current = prompt[i].current /\ s.current # None) /\ (~Live(i) => s.current = seen[t].current)
  BY <1>1, <1>2, CurrentIs DEF Loaded, Own
<1>5. (Live(i) /\ p = "read") \/ (~Live(i) /\ p = "done")
  OBVIOUS
<1>6. Own(t) = i
  OBVIOUS
<1> HIDE DEF i, s, p
<1>7. /\ pc'[t] = p /\ seen'[t] = s /\ number'[t] = number[t] /\ answer'[t] = answer[t]
      /\ Only(t) /\ UNCHANGED <<prompt, version, config, req>>
  BY <1>3, MovesAre DEF IInv
<1>8. p \in Running \cup Ended /\ (p = "done" => p \notin Running)
  BY <1>5 DEF Running, Ended
<1>9. Stage(t)'
  BY <1>1, <1>2, <1>4, <1>5, <1>6, <1>7, <1>8 DEF Stage, Own, Writes
<1>10. ~Holds(t)' /\ ~Exclusive(t)' /\ ~Entered(t)' /\ ~Erased(t)' /\ ~Numbering(t)' /\ ~Writes(t)
  BY <1>2, <1>5, <1>7 DEF Holds, Exclusive, Renamed, Renames, Erased, Versioned, Refers, Entered, Entering, Numbering, Writes
<1>11. Tied(t)'
  <2>1. s.current \in Txns => pc'[s.current] = "done"
    BY <1>1, <1>2, <1>4, <1>7, CurrentIs DEF Tied, Only
  <2>2. ~Live(i) => prompt[i].state = "deleted"
    BY <1>2, NotLive
  <2> QED
    BY <1>1, <1>2, <1>4, <1>5, <1>7, <1>10, <2>1, <2>2, CurrentIs, RowsStay DEF Tied, Own
<1>12. \A u \in Txns \ {t} : Apart(t, u)'
  BY <1>1, <1>7, <1>10, QuietApart
<1> QED
  BY <1>1, <1>3, <1>4, <1>8, <1>9, <1>11, <1>12, MovesKeep

LEMMA ReadKeeps ==
  ASSUME IInv, NEW t \in Txns, Read(t)
  PROVE  IInv'
<1>1. /\ pc[t] = "read" /\ pc[t] \in Running /\ UNCHANGED <<Data, req, seen, number>>
      /\ Stage(t) /\ Tied(t) /\ seen[t] \in Loaded /\ number[t] \in Nat /\ answer[t] \in Contents \cup {None}
  BY DEF Read, Running, IInv, Orderly, TypeOK
<1>2. req[t].op \in {"run", "show"} /\ seen[t].current # None /\ Own(t) \in Ids /\ Own(t) # None /\ number[t] = 0
  BY <1>1, SystemPromptsAssumption DEF Stage, Running, Ended
<1>3. CASE Goto(t, "missing") /\ UNCHANGED answer
  BY <1>1, <1>3, GoneTo, EndKeeps
<1>4. CASE Goto(t, "done") /\ ~(Goto(t, "missing") /\ UNCHANGED answer)
  <2>1. PICK a : /\ a \in Contents \/ a = None
                 /\ Moves(t, "done", seen[t], number[t], a)
                 /\ a = None /\ req[t].op = "run" => ~Exists(seen[t].current)
    <3>1. CASE Exists(seen[t].current) /\ answer' = [answer EXCEPT ![t] = version[seen[t].current].content]
      <4>1. version[seen[t].current].content \in Contents
        BY <1>1, <1>2 DEF Loaded, IInv, TypeOK, Version
      <4> WITNESS version[seen[t].current].content
      <4> QED
        BY <1>1, <1>4, <3>1, <4>1, SystemPromptsAssumption DEF Moves, Goto, IInv, TypeOK
    <3>2. CASE ~Exists(seen[t].current) /\ UNCHANGED answer
      <4> WITNESS answer[t]
      <4> QED
        BY <1>1, <1>4, <3>2 DEF Moves, Goto, IInv, TypeOK
    <3> QED
      BY <3>1, <3>2 DEF Read
  <2>2. /\ pc'[t] = "done" /\ seen'[t] = seen[t] /\ number'[t] = number[t] /\ answer'[t] = a
        /\ Only(t) /\ UNCHANGED <<prompt, version, config, req>>
    BY <2>1, MovesAre DEF IInv
  <2>3. "done" \in Running \cup Ended /\ "done" \notin Running
    BY DEF Running, Ended
  <2>4. Stage(t)'
    BY <1>1, <1>2, <2>2, <2>3 DEF Stage, Own, Writes
  <2>5. ~Holds(t)' /\ ~Exclusive(t)' /\ ~Entered(t)' /\ ~Erased(t)' /\ ~Numbering(t)'
    BY <2>2, <2>3 DEF Holds, Exclusive, Renamed, Erased, Versioned, Refers, Entered, Numbering
  <2>6. Tied(t)'
    <3>1. seen[t].current \in Txns => pc'[seen[t].current] = "done"
      BY <1>1, <2>2 DEF Tied, Only
    <3>2. a = None /\ req[t].op = "run" => prompt[Own(t)].state = "deleted"
      BY <1>1, <1>2, <2>1, NotLive DEF Tied, Exists
    <3> QED
      BY <1>1, <1>2, <2>2, <2>5, <3>1, <3>2, RowsStay DEF Tied, Own
  <2>7. \A u \in Txns \ {t} : Apart(t, u)'
    BY <1>1, <2>2, <2>5, QuietApart
  <2> QED
    BY <1>1, <2>1, <2>3, <2>4, <2>6, <2>7, MovesKeep
<1> QED
  BY <1>3, <1>4 DEF Read

LEMMA StopKeeps ==
  ASSUME IInv, NEW t \in Txns, Gone(t) \/ Fail(t)
  PROVE  IInv'
<1>1. pc[t] \in Running /\ UNCHANGED <<Data, req, seen, number, answer>>
  BY DEF Gone, Fail, Unwritten, Running
<1>2. Goto(t, "missing") \/ Goto(t, "failed")
  BY DEF Gone, Fail
<1> QED
  BY <1>1, <1>2, GoneTo, EndKeeps
-------------------------------------------------------------------------------
(* The end of a transaction                                                 *)

NumbersIn(rows, j) == {rows[v].number : v \in {w \in Versions : rows[w].prompt = j}}

LEMMA NumbersAre ==
  ASSUME NEW j
  PROVE  Numbers(j) = NumbersIn(version, j) /\ Numbers(j)' = NumbersIn(version', j)
BY DEF Numbers, VersionsOf, NumbersIn

(* What a commit does to the rows, as the others may see it.                *)
Change(t) ==
  /\ \A j \in Ids :
       /\ prompt[j].state # "absent" => prompt'[j].state # "absent"
       /\ prompt[j].state = "deleted" => prompt'[j].state = "deleted"
       /\ prompt[j].state = "absent" /\ prompt'[j].state # "absent" => req[t].op = "create" /\ j = Own(t)
       /\ prompt[j].state = "live" /\ prompt'[j].state # "live" => Erased(t) /\ j = Own(t)
  /\ \A j \in Ids : prompt[j].state = "live" /\ prompt'[j].state = "live" =>
       /\ \A v \in Versions : version[v].prompt = j => version'[v] = version[v]
       /\ \/ prompt'[j].current = prompt[j].current /\ NumbersIn(version', j) = NumbersIn(version, j)
          \/ prompt'[j].current = t /\ NumbersIn(version, j) \subseteq NumbersIn(version', j)
  /\ \A v \in Txns \ {t} : version[v].prompt = None => version'[v].prompt = None
  /\ \A j \in Ids : prompt'[j].state = "live" =>
       \/ prompt[j].state = "live" /\ prompt'[j].name = prompt[j].name
       \/ Entered(t) /\ j = Own(t) /\ prompt'[j].name = req[t].name
  /\ \A c \in Configs : config'[c] = config[c] \/ (Refers(t) /\ config'[c] = Own(t))

Finishes(t) == pc[t] = "commit" /\ Goto(t, "done") /\ UNCHANGED <<req, seen, number, answer>>

LEMMA CommitFrame ==
  ASSUME IInv, NEW t \in Txns, Finishes(t)
  PROVE  /\ pc'[t] = "done" /\ Only(t) /\ seen' = seen /\ number' = number /\ answer' = answer /\ req' = req
         /\ \A u \in Txns : Stage(u)'
         /\ \A u \in Txns : \A v \in Txns \ {u} : Apart(u, v)'
         /\ ~Holds(t)' /\ ~Erased(t)' /\ ~Entered(t)' /\ ~Numbering(t)'
<1>1. pc'[t] = "done" /\ Only(t) /\ seen' = seen /\ number' = number /\ answer' = answer /\ req' = req
  BY DEF Finishes, Goto, Only, IInv, TypeOK
<1>2. "done" \in Ended /\ "done" \notin Running /\ pc[t] = "commit"
  BY DEF Ended, Running, Finishes
<1>3. ~Holds(t)' /\ ~Erased(t)' /\ ~Entered(t)' /\ ~Numbering(t)' /\ ~Exclusive(t)'
  BY <1>1, <1>2 DEF Holds, Exclusive, Renamed, Erased, Versioned, Refers, Entered, Numbering
<1>4. ASSUME NEW u \in Txns
      PROVE  Stage(u)'
  <2>1. Stage(u)
    BY DEF IInv, Orderly
  <2>2. CASE u = t
    BY <1>1, <1>2, <2>1, <2>2 DEF Stage, Own, Renames, Entering, Writes
  <2>3. CASE u # t
    <3>1. pc'[u] = pc[u]
      BY <1>1, <2>3 DEF Only
    <3> QED
      BY <1>1, <2>1, <3>1 DEF Stage, Own, Renames, Entering, Writes
  <2> QED
    BY <2>2, <2>3
<1>5. ASSUME NEW u \in Txns, NEW v \in Txns \ {u}
      PROVE  Apart(u, v)'
  <2>1. Apart(u, v)
    BY DEF IInv, Orderly
  <2>2. \A w \in Txns : Own(w)' = Own(w)
    BY <1>1 DEF Own
  <2>3. \A w \in Txns : (Holds(w)' => Holds(w)) /\ (Exclusive(w)' => Exclusive(w)) /\ (Entered(w)' => Entered(w))
    BY <1>1, <1>3, OthersStay
  <2>4. \A w \in Txns : pc'[w] # "idle" => pc[w] # "idle"
    BY <1>1, <1>2 DEF Only
  <2> QED
    BY <1>1, <2>1, <2>2, <2>3, <2>4 DEF Apart
<1> QED
  BY <1>1, <1>3, <1>4, <1>5

LEMMA TiedAfter ==
  ASSUME IInv, NEW t \in Txns, Finishes(t), Change(t), NEW u \in Txns
  PROVE  Tied(u)'
<1>1. Stage(u) /\ Tied(u) /\ (u # t => Apart(u, t)) /\ seen[u] \in Loaded /\ pc[t] = "commit" /\ Stage(t)
  BY DEF IInv, Orderly, TypeOK, Finishes
<1>2. /\ pc'[t] = "done" /\ Only(t) /\ seen' = seen /\ number' = number /\ answer' = answer /\ req' = req
      /\ ~Holds(t)' /\ ~Erased(t)' /\ ~Entered(t)' /\ ~Numbering(t)'
  BY CommitFrame
<1>3. Own(u)' = Own(u) /\ (Writes(u)' <=> Writes(u)) /\ Own(u) \in Ids \cup {None} /\ (pc[u] \in Running => Own(u) \in Ids)
  BY <1>1, <1>2 DEF Own, Writes, Loaded, Stage
<1>4. u # t => /\ pc'[u] = pc[u] /\ (Holds(u)' <=> Holds(u)) /\ (Entered(u)' <=> Entered(u))
               /\ (Erased(u)' <=> Erased(u)) /\ (Numbering(u)' <=> Numbering(u))
  BY <1>2, OthersStay DEF Erased, Numbering
<1>5. /\ Holds(u) \/ Numbering(u) => Own(u) \in Ids
      /\ pc[u] \in {"enter", "commit"} => Own(u) \in Ids
  BY <1>3 DEF Holds, Exclusive, Renamed, Erased, Versioned, Refers, Numbering, Running
<1>6. None \notin Ids /\ None \notin Txns
  BY SystemPromptsAssumption
<1>21. \A j \in Ids :
         /\ prompt[j].state # "absent" => prompt'[j].state # "absent"
         /\ prompt[j].state = "deleted" => prompt'[j].state = "deleted"
         /\ prompt[j].state = "absent" /\ prompt'[j].state # "absent" => req[t].op = "create" /\ j = Own(t)
         /\ prompt[j].state = "live" /\ prompt'[j].state # "live" => Erased(t) /\ j = Own(t)
  BY DEF Change, Live
<1>22. \A j \in Ids : prompt[j].state = "live" /\ prompt'[j].state = "live" =>
         \/ prompt'[j].current = prompt[j].current /\ NumbersIn(version', j) = NumbersIn(version, j)
         \/ prompt'[j].current = t /\ NumbersIn(version, j) \subseteq NumbersIn(version', j)
  BY DEF Change
<1>23. (Live(Own(u)) <=> prompt[Own(u)].state = "live") /\ (Live(Own(u))' <=> prompt'[Own(u)].state = "live")
  BY <1>3 DEF Live
(* A prompt it loaded is live as before, if it is live at all.              *)
<1>7. req[u].op \notin {"create", "attach"} /\ Own(u) \in Ids /\ Live(Own(u))' => Live(Own(u))
  <2>1. req[u].op \notin {"create", "attach"} /\ Own(u) \in Ids => prompt[Own(u)].state # "absent"
    BY <1>1 DEF Tied
  <2>2. Own(u) \in Ids => prompt[Own(u)].state \in {"absent", "live", "deleted"}
    BY DEF IInv, TypeOK, Prompt
  <2> QED
    BY <1>21, <1>23, <2>1, <2>2
<1>8. Holds(u)' /\ ~Erased(u)' => Live(Own(u))'
  <2> SUFFICES ASSUME Holds(u)', ~Erased(u)'
               PROVE  Live(Own(u))'
    OBVIOUS
  <2>1. u # t /\ Holds(u) /\ ~Erased(u) /\ Live(Own(u)) /\ Own(u) \in Ids
    BY <1>1, <1>2, <1>4, <1>5 DEF Tied
  <2>2. ~(Erased(t) /\ Own(u) = Own(t))
    BY <1>1, <2>1 DEF Apart, Exclusive
  <2> QED
    BY <1>21, <1>23, <2>1, <2>2
<1>9. Erased(u)' => ~Referenced(Own(u))'
  <2> SUFFICES ASSUME Erased(u)'
               PROVE  \A c \in Configs : config'[c] # Own(u)
    BY <1>3 DEF Referenced
  <2>1. u # t /\ Erased(u) /\ \A c \in Configs : config[c] # Own(u)
    BY <1>1, <1>2, <1>4 DEF Tied, Referenced
  <2>2. ~(Refers(t) /\ Own(u) = Own(t))
    BY <1>1, <2>1 DEF Apart, Exclusive, Holds
  <2> QED
    BY <2>1, <2>2 DEF Change
<1>10. Own(u) \in Ids /\ req[u].op \notin {"create", "attach"} => prompt'[Own(u)].state # "absent"
  BY <1>1, <1>21 DEF Tied
<1>11. req[u].op = "create" /\ pc'[u] \in {"enter", "commit"} => prompt'[Own(u)].state = "absent"
  <2> SUFFICES ASSUME req[u].op = "create", pc'[u] \in {"enter", "commit"}, prompt'[Own(u)].state # "absent"
               PROVE  FALSE
    OBVIOUS
  <2>1. u # t /\ pc[u] \in {"enter", "commit"} /\ prompt[Own(u)].state = "absent" /\ Own(u) \in Ids
    BY <1>1, <1>2, <1>4, <1>5 DEF Tied
  <2>2. req[t].op = "create" /\ Own(t) = Own(u)
    BY <1>21, <2>1
  <2>3. Own(u) = req[u].id /\ Own(t) = req[t].id
    BY <1>1, <1>6, <2>1, <2>2 DEF Stage
  <2> QED
    BY <1>1, <2>1, <2>2, <2>3 DEF Apart
<1>12. Entered(u)' => Named(req[u].name)' \subseteq {Own(u)}
  <2> SUFFICES ASSUME Entered(u)', NEW j \in Ids, Live(j)', prompt'[j].name = req[u].name
               PROVE  j = Own(u)
    BY <1>2 DEF Named, Live
  <2>1. u # t /\ Entered(u) /\ Named(req[u].name) \subseteq {Own(u)}
    BY <1>1, <1>2, <1>4 DEF Tied
  <2>2. ~(Entered(t) /\ req[t].name = req[u].name)
    BY <1>1, <2>1 DEF Apart
  <2>3. Live(j) /\ prompt[j].name = req[u].name
    BY <2>2 DEF Change, Live
  <2> QED
    BY <2>1, <2>3 DEF Named
<1>13. pc'[u] # "done" => version'[u].prompt = None
  BY <1>1, <1>2, <1>4 DEF Tied, Change
<1>14. seen[u].current \in Txns => pc'[seen[u].current] = "done"
  BY <1>1, <1>2 DEF Tied, Only
(* The version it saw stays what it is.                                     *)
<1>15. seen[u].current # None /\ Live(Own(u))' =>
         /\ Live(Own(u)) /\ Own(u) \in Ids /\ version[seen[u].current].prompt = Own(u)
         /\ version'[seen[u].current] = version[seen[u].current]
  <2> SUFFICES ASSUME seen[u].current # None, Live(Own(u))'
               PROVE  /\ Live(Own(u)) /\ Own(u) \in Ids /\ version[seen[u].current].prompt = Own(u)
                      /\ version'[seen[u].current] = version[seen[u].current]
    OBVIOUS
  <2>1. Own(u) \in Ids /\ req[u].op \notin {"create", "attach"}
    BY <1>1, <1>3 DEF Stage
  <2>2. Live(Own(u)) /\ version[seen[u].current].prompt = Own(u)
    BY <1>1, <1>7, <2>1 DEF Tied
  <2>3. seen[u].current \in Versions
    BY <1>1 DEF Loaded
  <2>4. \A j \in Ids : prompt[j].state = "live" /\ prompt'[j].state = "live" =>
          \A v \in Versions : version[v].prompt = j => version'[v] = version[v]
    BY DEF Change
  <2> QED
    BY <1>23, <2>1, <2>2, <2>3, <2>4
(* The current version it saw is current, and no version came since.        *)
<1>16. Writes(u) /\ Own(u) \in Ids /\ Live(Own(u))' =>
         /\ Live(Own(u)) /\ Numbers(Own(u)) \subseteq Numbers(Own(u))'
         /\ ~Replaced(u)' => ~Replaced(u) /\ Numbers(Own(u))' = Numbers(Own(u))
  <2> SUFFICES ASSUME Writes(u), Own(u) \in Ids, Live(Own(u))'
               PROVE  /\ Live(Own(u)) /\ Numbers(Own(u)) \subseteq Numbers(Own(u))'
                      /\ ~Replaced(u)' => ~Replaced(u) /\ Numbers(Own(u))' = Numbers(Own(u))
    OBVIOUS
  <2>1. Live(Own(u))
    BY <1>7 DEF Writes
  <2> DEFINE j == Own(u)
  <2>2. j \in Ids /\ prompt[j].state = "live" /\ prompt'[j].state = "live"
    BY <1>23, <2>1 DEF Live
  <2>3. Numbers(Own(u))' = NumbersIn(version', j) /\ Numbers(Own(u)) = NumbersIn(version, j)
    BY <1>3 DEF Numbers, VersionsOf, NumbersIn
  <2>4. Replaced(u)' <=> prompt'[j].current # seen[u].current
    BY <1>2, <1>3 DEF Replaced
  <2>5. Replaced(u) <=> prompt[j].current # seen[u].current
    BY DEF Replaced
  <2> HIDE DEF j
  <2>6. \/ prompt'[j].current = prompt[j].current /\ NumbersIn(version', j) = NumbersIn(version, j)
        \/ prompt'[j].current = t /\ NumbersIn(version, j) \subseteq NumbersIn(version', j)
    BY <1>22, <2>2
  <2>7. seen[u].current # t
    BY <1>1 DEF Tied
  <2> QED
    BY <2>1, <2>3, <2>4, <2>5, <2>6, <2>7
<1>17. Numbering(u)' /\ Live(Own(u))' =>
         /\ 1 .. number[u] - 1 \subseteq Numbers(Own(u))'
         /\ ~Replaced(u)' => \A m \in Numbers(Own(u))' : m < number[u]
  <2> SUFFICES ASSUME Numbering(u)', Live(Own(u))'
               PROVE  /\ 1 .. number[u] - 1 \subseteq Numbers(Own(u))'
                      /\ ~Replaced(u)' => \A m \in Numbers(Own(u))' : m < number[u]
    OBVIOUS
  <2>1. Numbering(u) /\ Own(u) \in Ids /\ Writes(u)
    BY <1>1, <1>2, <1>4, <1>5 DEF Stage, Numbering
  <2> QED
    BY <1>1, <1>16, <2>1 DEF Tied
<1>18. pc'[u] = "commit" /\ Writes(u) /\ req[u].content # None /\ number[u] = 0 /\ Live(Own(u))' /\ ~Replaced(u)'
         => version'[seen[u].current].content = req[u].content
  <2> SUFFICES ASSUME pc'[u] = "commit", Writes(u), req[u].content # None, number[u] = 0, Live(Own(u))', ~Replaced(u)'
               PROVE  version'[seen[u].current].content = req[u].content
    OBVIOUS
  <2>1. pc[u] = "commit" /\ Own(u) \in Ids /\ seen[u].current # None
    BY <1>1, <1>2, <1>4, <1>5, <1>6 DEF Stage
  <2> QED
    BY <1>1, <1>15, <1>16, <2>1 DEF Tied
<1>19. pc'[u] = "done" /\ req[u].op = "run" /\ Own(u) \in Ids /\ answer[u] = None => prompt'[Own(u)].state = "deleted"
  <2>1. CASE u = t
    BY <1>1, <2>1 DEF Stage
  <2>2. CASE u # t
    BY <1>1, <1>4, <1>21, <2>2 DEF Tied
  <2> QED
    BY <2>1, <2>2
<1>20. seen[u].current # None /\ Live(Own(u))' => version'[seen[u].current].prompt = Own(u)
  BY <1>15
<1> QED
  BY <1>2, <1>3, <1>8, <1>9, <1>10, <1>11, <1>12, <1>13, <1>14, <1>17, <1>18, <1>19, <1>20 DEF Tied

(* What is left to show of a commit.                                        *)
LEMMA CommitKeepsFrom ==
  ASSUME IInv, NEW t \in Txns, Finishes(t), Change(t), Integrity', Gapless',
         prompt' \in [Ids -> Prompt], version' \in [Versions -> Version], config' \in [Configs -> Ids \cup {None}]
  PROVE  IInv'
<1>1. TypeOK'
  <2>1. pc' \in [Txns -> {"idle"} \cup Running \cup Ended]
    BY DEF Finishes, Goto, IInv, TypeOK, Ended
  <2> QED
    BY <2>1, CommitFrame DEF IInv, TypeOK
<1>2. Orderly'
  BY CommitFrame, TiedAfter DEF Orderly
<1> QED
  BY <1>1, <1>2 DEF IInv

(* The version of a transaction that has not committed is not there, and    *)
(* no prompt has it for its current one.                                    *)
LEMMA OwnVersion ==
  ASSUME IInv, NEW t \in Txns, pc[t] = "commit"
  PROVE  /\ version[t].prompt = None /\ t \in Versions /\ Own(t) \in Ids /\ Own(t) # None
         /\ \A j \in Ids : j # None /\ (prompt[j].state = "live" => prompt[j].current # t /\ prompt[j].current \in Versions)
<1>1. Stage(t) /\ Tied(t) /\ \A j \in Ids : j # None
  BY SystemPromptsAssumption DEF IInv, Orderly
<1>2. version[t].prompt = None /\ Own(t) \in Ids /\ t \in Versions
  BY <1>1 DEF Stage, Tied, Running, Versions
<1>3. \A j \in Ids : prompt[j].state = "live" => version[prompt[j].current].prompt = j /\ prompt[j].current \in Versions
  BY DEF IInv, Integrity, Live, TypeOK, Prompt
<1> QED
  BY <1>1, <1>2, <1>3

LEMMA AttachCommits ==
  ASSUME IInv, NEW t \in Txns, Finishes(t), CommitAttach(t)
  PROVE  IInv'
<1>1. pc[t] = "commit" /\ req[t].op = "attach" /\ prompt' = prompt /\ version' = version
  BY DEF Finishes, CommitAttach
<1>2. config' = [config EXCEPT ![req[t].config] = Own(t)]
  BY DEF CommitAttach
<1>3. Own(t) \in Ids /\ req[t].config \in Configs
  BY <1>1, OwnVersion, RequestIs
<1>4. Refers(t) /\ Live(Own(t))
  BY <1>1 DEF Refers, Holds, Erased, IInv, Orderly, Tied
<1>5. \A c \in Configs : config'[c] = config[c] \/ config'[c] = Own(t)
  BY <1>2 DEF IInv, TypeOK
<1>6. Change(t)
  BY <1>1, <1>4, <1>5 DEF Change
<1>7. Integrity'
  <2>1. \A c \in Configs : config'[c] # None => prompt[config'[c]].state = "live"
    BY <1>4, <1>5 DEF IInv, Integrity, Live
  <2> QED
    BY <1>1, <2>1 DEF IInv, Integrity, Live, Exists
<1>8. Gapless'
  BY <1>1 DEF IInv, Gapless, Numbers, VersionsOf
<1>9. prompt' \in [Ids -> Prompt] /\ version' \in [Versions -> Version] /\ config' \in [Configs -> Ids \cup {None}]
  BY <1>1, <1>2, <1>3 DEF IInv, TypeOK
<1> QED
  BY <1>6, <1>7, <1>8, <1>9, CommitKeepsFrom

LEMMA DeleteCommits ==
  ASSUME IInv, NEW t \in Txns, Finishes(t), CommitDelete(t)
  PROVE  IInv'
<1> DEFINE i == Own(t)
<1>1. pc[t] = "commit" /\ req[t].op = "delete" /\ config' = config
  BY DEF Finishes, CommitDelete
<1>2. i \in Ids /\ i # None /\ Erased(t) /\ Tied(t) /\ Own(t) = i
  BY <1>1, OwnVersion DEF Erased, IInv, Orderly
<1>3. prompt[i].state # "absent" /\ \A c \in Configs : config[c] # i
  BY <1>1, <1>2 DEF Tied, Referenced
<1>4. prompt' = [prompt EXCEPT ![i].state = "deleted"]
  BY DEF CommitDelete
<1>5. version' = [v \in Versions |-> IF version[v].prompt = i THEN NoVersion ELSE version[v]]
  BY DEF CommitDelete
<1> HIDE DEF i
<1>6. prompt'[i].state = "deleted" /\ \A j \in Ids \ {i} : prompt'[j] = prompt[j]
  BY <1>2, <1>4 DEF IInv, TypeOK, Prompt
<1>7. /\ \A v \in Versions : version[v].prompt # i => version'[v] = version[v]
      /\ \A v \in Versions : version[v].prompt = i => version'[v].prompt = None
  BY <1>5 DEF NoVersion
<1>8. NoVersion \in Version
  BY SystemPromptsAssumption DEF NoVersion, Version
<1>9. \A j \in Ids \ {i} : NumbersIn(version', j) = NumbersIn(version, j)
  <2> SUFFICES ASSUME NEW j \in Ids \ {i}
               PROVE  NumbersIn(version', j) = NumbersIn(version, j)
    OBVIOUS
  <2>1. j # None
    BY SystemPromptsAssumption
  <2>2. \A v \in Versions : (version'[v].prompt = j <=> version[v].prompt = j) /\ (version[v].prompt = j => version'[v] = version[v])
    BY <1>7, <2>1
  <2> QED
    BY <2>2 DEF NumbersIn
<1>10. Change(t)
  <2>1. \A v \in Txns : version[v].prompt = None => version'[v].prompt = None
    BY <1>2, <1>7 DEF Versions
  <2> QED
    BY <1>1, <1>2, <1>3, <1>6, <1>7, <1>9, <2>1 DEF Change
<1>11. Integrity'
  <2>1. \A j, k \in Ids : prompt'[j].state = "live" /\ prompt'[k].state = "live" /\ prompt'[j].name = prompt'[k].name => j = k
    BY <1>6 DEF IInv, Integrity, Live
  <2>2. \A j \in Ids : prompt'[j].state = "live" => version'[prompt'[j].current].prompt = j
    <3> SUFFICES ASSUME NEW j \in Ids, prompt'[j].state = "live"
                 PROVE  version'[prompt'[j].current].prompt = j
      OBVIOUS
    <3>1. j # i /\ prompt'[j] = prompt[j] /\ prompt[j].state = "live"
      BY <1>6
    <3>2. prompt[j].current \in Versions /\ version[prompt[j].current].prompt = j
      BY <1>1, <3>1, OwnVersion DEF IInv, Integrity, Live
    <3> QED
      BY <1>7, <3>1, <3>2
  <2>3. \A v \in Versions : version'[v].prompt # None => prompt'[version'[v].prompt].state = "live"
    <3> SUFFICES ASSUME NEW v \in Versions, version'[v].prompt # None
                 PROVE  prompt'[version'[v].prompt].state = "live"
      OBVIOUS
    <3>1. version[v].prompt # i /\ version'[v] = version[v] /\ version[v].prompt \in Ids
      BY <1>7 DEF IInv, TypeOK, Version
    <3>2. prompt[version[v].prompt].state = "live"
      BY <3>1 DEF IInv, Integrity, Exists, Live
    <3> QED
      BY <1>6, <3>1, <3>2
  <2>4. \A c \in Configs : config[c] # None => prompt'[config[c]].state = "live"
    <3>1. \A c \in Configs : config[c] # None => prompt[config[c]].state = "live" /\ config[c] \in Ids
      BY DEF IInv, Integrity, Live, TypeOK
    <3> QED
      BY <1>3, <1>6, <3>1
  <2> QED
    BY <1>1, <2>1, <2>2, <2>3, <2>4 DEF Integrity, Live, Exists
<1>12. Gapless'
  <2> SUFFICES ASSUME NEW j \in Ids
               PROVE  \E n \in Nat : NumbersIn(version', j) = 1 .. n
    BY NumbersAre DEF Gapless
  <2>1. CASE j = i
    <3>1. NumbersIn(version', i) = {}
      BY <1>2, <1>7 DEF NumbersIn
    <3>2. 1 .. 0 = {} /\ 0 \in Nat
      OBVIOUS
    <3> QED
      BY <2>1, <3>1, <3>2
  <2>2. CASE j # i
    BY <1>9, <2>2, NumbersAre DEF IInv, Gapless
  <2> QED
    BY <2>1, <2>2
<1>13. prompt' \in [Ids -> Prompt] /\ version' \in [Versions -> Version] /\ config' \in [Configs -> Ids \cup {None}]
  BY <1>1, <1>2, <1>4, <1>5, <1>8 DEF IInv, TypeOK, Prompt
<1> QED
  BY <1>10, <1>11, <1>12, <1>13, CommitKeepsFrom

(* The names stay apart whatever a transaction calls its prompt.            *)
LEMMA NamesApart ==
  ASSUME IInv, NEW t \in Txns, NEW i \in Ids, i = Own(t),
         \A j \in Ids \ {i} : prompt'[j] = prompt[j],
         \/ prompt[i].state = "live" /\ prompt'[i].name = prompt[i].name
         \/ Entered(t) /\ prompt'[i].name = req[t].name
  PROVE  \A j, k \in Ids : prompt'[j].state = "live" /\ prompt'[k].state = "live" /\ prompt'[j].name = prompt'[k].name => j = k
<1>1. \A j, k \in Ids : prompt[j].state = "live" /\ prompt[k].state = "live" /\ prompt[j].name = prompt[k].name => j = k
  BY DEF IInv, Integrity, Live
<1>2. Entered(t) => \A j \in Ids : prompt[j].state = "live" /\ prompt[j].name = req[t].name => j = i
  BY DEF IInv, Orderly, Tied, Named, Live
<1> QED
  BY <1>1, <1>2

(* A version is written, and becomes current.                               *)
LEMMA VersionCommits ==
  ASSUME IInv, NEW t \in Txns, Finishes(t), NEW i \in Ids, i = Own(t), NEW k \in Nat \ {0}, NEW content \in Contents,
         version' = [version EXCEPT ![t] = [prompt |-> i, number |-> k, content |-> content]],
         config' = config, prompt' \in [Ids -> Prompt],
         \A j \in Ids \ {i} : prompt'[j] = prompt[j],
         prompt'[i].state = "live" /\ prompt'[i].current = t,
         prompt[i].state = "live" \/ (prompt[i].state = "absent" /\ req[t].op = "create"),
         \/ prompt[i].state = "live" /\ prompt'[i].name = prompt[i].name
         \/ Entered(t) /\ prompt'[i].name = req[t].name,
         1 .. k - 1 \subseteq Numbers(i)
  PROVE  IInv'
<1>1. pc[t] = "commit"
  BY DEF Finishes
<1>2. /\ version[t].prompt = None /\ t \in Versions /\ i # None
      /\ \A j \in Ids : j # None /\ (prompt[j].state = "live" => prompt[j].current # t /\ prompt[j].current \in Versions)
  BY <1>1, OwnVersion
<1>3. version'[t].prompt = i /\ version'[t].number = k /\ \A v \in Versions \ {t} : version'[v] = version[v]
  BY <1>2 DEF IInv, TypeOK
<1>4. \A j \in Ids \ {i} : NumbersIn(version', j) = NumbersIn(version, j)
  <2> SUFFICES ASSUME NEW j \in Ids \ {i}
               PROVE  NumbersIn(version', j) = NumbersIn(version, j)
    OBVIOUS
  <2>1. \A v \in Versions : (version'[v].prompt = j <=> version[v].prompt = j) /\ (version[v].prompt = j => version'[v] = version[v])
    BY <1>2, <1>3
  <2> QED
    BY <2>1 DEF NumbersIn
<1>5. NumbersIn(version', i) = NumbersIn(version, i) \cup {k}
  <2>1. \A v \in Versions : version'[v].prompt = i <=> version[v].prompt = i \/ v = t
    BY <1>3
  <2> QED
    BY <1>2, <1>3, <2>1 DEF NumbersIn
<1>6. Change(t)
  <2>1. \A v \in Txns \ {t} : version[v].prompt = None => version'[v].prompt = None
    BY <1>3 DEF Versions
  <2>2. \A j \in Ids : \A v \in Versions : version[v].prompt = j => version'[v] = version[v]
    BY <1>2, <1>3
  <2>3. \A j \in Ids :
          \/ prompt'[j].current = prompt[j].current /\ NumbersIn(version', j) = NumbersIn(version, j)
          \/ prompt'[j].current = t /\ NumbersIn(version, j) \subseteq NumbersIn(version', j)
    BY <1>4, <1>5
  <2>4. \A j \in Ids : prompt'[j].state = "live" =>
          \/ prompt[j].state = "live" /\ prompt'[j].name = prompt[j].name
          \/ Entered(t) /\ j = Own(t) /\ prompt'[j].name = req[t].name
    OBVIOUS
  <2> QED
    BY <2>1, <2>2, <2>3, <2>4 DEF Change
<1>7. Integrity'
  <2>1. \A j \in Ids : prompt'[j].state = "live" => version'[prompt'[j].current].prompt = j
    BY <1>2, <1>3 DEF IInv, Integrity, Live
  <2>2. \A v \in Versions : version'[v].prompt # None => prompt'[version'[v].prompt].state = "live"
    <3> SUFFICES ASSUME NEW v \in Versions, v # t, version[v].prompt # None
                 PROVE  prompt'[version[v].prompt].state = "live"
      BY <1>3
    <3>1. version[v].prompt \in Ids /\ prompt[version[v].prompt].state = "live"
      BY DEF IInv, Integrity, Exists, Live, TypeOK, Version
    <3> QED
      BY <3>1
  <2>3. \A c \in Configs : config[c] # None => prompt'[config[c]].state = "live"
    <3>1. \A c \in Configs : config[c] # None => prompt[config[c]].state = "live" /\ config[c] \in Ids
      BY DEF IInv, Integrity, Live, TypeOK
    <3> QED
      BY <3>1
  <2> QED
    BY <2>1, <2>2, <2>3, NamesApart DEF Integrity, Live, Exists
<1>8. Gapless'
  <2> SUFFICES ASSUME NEW j \in Ids
               PROVE  \E n \in Nat : NumbersIn(version', j) = 1 .. n
    BY NumbersAre DEF Gapless
  <2>1. PICK n \in Nat : NumbersIn(version, j) = 1 .. n
    BY NumbersAre DEF IInv, Gapless
  <2>2. CASE j = i
    <3>1. 1 .. k - 1 \subseteq 1 .. n
      BY <2>1, <2>2, NumbersAre
    <3> DEFINE m == k - 1
    <3>2. k <= n + 1
      <4>1. m \in Nat /\ k = m + 1 /\ 1 .. m \subseteq 1 .. n
        BY <3>1
      <4> HIDE DEF m
      <4>2. CASE m = 0
        BY <4>1, <4>2
      <4>3. CASE m # 0
        <5>1. m \in 1 .. m
          BY <4>1, <4>3
        <5> QED
          BY <4>1, <5>1
      <4> QED
        BY <4>2, <4>3
    <3>3. CASE k <= n
      <4>1. (1 .. n) \cup {k} = 1 .. n
        BY <3>3
      <4> QED
        BY <1>5, <2>1, <2>2, <4>1
    <3>4. CASE k = n + 1
      <4>1. (1 .. n) \cup {k} = 1 .. n + 1 /\ n + 1 \in Nat
        BY <3>4
      <4> QED
        BY <1>5, <2>1, <2>2, <4>1
    <3>5. k <= n \/ k = n + 1
      <4>1. k \in Nat
        OBVIOUS
      <4> QED
        BY <3>2, <4>1
    <3> QED
      BY <3>3, <3>4, <3>5
  <2>3. CASE j # i
    BY <1>4, <2>1, <2>3
  <2> QED
    BY <2>2, <2>3
<1>9. version' \in [Versions -> Version] /\ config' \in [Configs -> Ids \cup {None}]
  BY DEF IInv, TypeOK, Version
<1> QED
  BY <1>6, <1>7, <1>8, <1>9, CommitKeepsFrom

LEMMA CreateCommits ==
  ASSUME IInv, NEW t \in Txns, Finishes(t), CommitCreate(t)
  PROVE  IInv'
<1> DEFINE i == Own(t)
<1> DEFINE content == req[t].content
<1>1. pc[t] = "commit" /\ req[t].op = "create" /\ config' = config
  BY DEF Finishes, CommitCreate
<1>2. i \in Ids /\ i = Own(t) /\ Entered(t) /\ Tied(t)
  BY <1>1, OwnVersion DEF Entered, Entering, Running, IInv, Orderly
<1>3. prompt[i].state = "absent"
  BY <1>1, <1>2 DEF Tied
<1>4. content \in Contents /\ req[t].name \in Names /\ t \in Versions
  BY <1>1, RequestIs DEF Versions
<1>5. prompt' = [prompt EXCEPT ![i] = [name |-> req[t].name, current |-> t, state |-> "live"]]
  BY DEF CommitCreate
<1>6. version' = [version EXCEPT ![t] = [prompt |-> i, number |-> 1, content |-> content]]
  BY DEF CommitCreate, NewVersion
<1> HIDE DEF i, content
<1>7. /\ prompt'[i].state = "live" /\ prompt'[i].current = t /\ prompt'[i].name = req[t].name
      /\ \A j \in Ids \ {i} : prompt'[j] = prompt[j]
  BY <1>2, <1>5 DEF IInv, TypeOK
<1>8. prompt' \in [Ids -> Prompt]
  BY <1>2, <1>4, <1>5 DEF IInv, TypeOK, Prompt
<1>9. 1 \in Nat \ {0} /\ 1 .. 1 - 1 \subseteq Numbers(i)
  OBVIOUS
<1> QED
  BY <1>1, <1>2, <1>3, <1>4, <1>6, <1>7, <1>8, <1>9, VersionCommits

(* An update that makes no version renames the prompt, or changes nothing.  *)
LEMMA NameCommits ==
  ASSUME IInv, NEW t \in Txns, Finishes(t), NEW i \in Ids, i = Own(t), Writes(t),
         version' = version, config' = config, prompt' \in [Ids -> Prompt],
         \A j \in Ids \ {i} : prompt'[j] = prompt[j],
         prompt'[i].state = prompt[i].state, prompt'[i].current = prompt[i].current,
         \/ prompt'[i].name = prompt[i].name
         \/ Entered(t) /\ prompt'[i].name = req[t].name
  PROVE  IInv'
<1>1. \A j \in Ids : prompt'[j].state = prompt[j].state /\ prompt'[j].current = prompt[j].current
  OBVIOUS
<1>2. ASSUME NEW j \in Ids, prompt'[j].state = "live"
      PROVE  \/ prompt[j].state = "live" /\ prompt'[j].name = prompt[j].name
             \/ Entered(t) /\ j = Own(t) /\ prompt'[j].name = req[t].name
  BY <1>1, <1>2
<1>3. Change(t)
  <2>1. \A j \in Ids : NumbersIn(version', j) = NumbersIn(version, j)
    OBVIOUS
  <2> QED
    BY <1>1, <1>2, <2>1 DEF Change
<1>4. \A j, k \in Ids : prompt'[j].state = "live" /\ prompt'[k].state = "live" /\ prompt'[j].name = prompt'[k].name => j = k
  <2>1. CASE prompt[i].state = "live"
    BY <2>1, NamesApart
  <2>2. CASE prompt[i].state # "live"
    <3>1. \A j, k \in Ids : prompt[j].state = "live" /\ prompt[k].state = "live" /\ prompt[j].name = prompt[k].name => j = k
      BY DEF IInv, Integrity, Live
    <3> QED
      BY <1>1, <2>2, <3>1
  <2> QED
    BY <2>1, <2>2
<1>5. Integrity'
  BY <1>1, <1>4 DEF IInv, Integrity, Live, Exists, TypeOK, Version
<1>6. Gapless'
  BY DEF IInv, Gapless, Numbers, VersionsOf
<1>7. version' \in [Versions -> Version] /\ config' \in [Configs -> Ids \cup {None}]
  BY DEF IInv, TypeOK
<1> QED
  BY <1>3, <1>5, <1>6, <1>7, CommitKeepsFrom

LEMMA UpdateCommits ==
  ASSUME IInv, NEW t \in Txns, Finishes(t), CommitUpdate(t)
  PROVE  IInv'
<1> DEFINE i == Own(t)
<1> DEFINE k == number[t]
<1> DEFINE content == req[t].content
<1>1. pc[t] = "commit" /\ Writes(t) /\ req[t].op # "delete" /\ config' = config
  BY DEF Finishes, CommitUpdate, Writes
<1>2. i \in Ids /\ i = Own(t) /\ Stage(t) /\ Tied(t) /\ k \in Nat /\ k = number[t] /\ t \in Versions
  BY <1>1, OwnVersion DEF IInv, Orderly, TypeOK
<1>3. Renames(t) => Entered(t) /\ req[t].name \in Names
  <2>1. req[t].name \in Names \cup {None}
    BY RequestIs DEF Request
  <2> QED
    BY <1>1, <2>1 DEF Renames, Entered, Entering, Running
<1>4. prompt' = [prompt EXCEPT ![i].name = IF Renames(t) THEN req[t].name ELSE @, ![i].current = IF k > 0 THEN t ELSE @]
  BY DEF CommitUpdate
<1>5. /\ k > 0 => version' = [version EXCEPT ![t] = [prompt |-> i, number |-> k, content |-> content]]
      /\ ~(k > 0) => version' = version
  BY DEF CommitUpdate, NewVersion
<1>6. k > 0 => content \in Contents
  BY <1>2, RequestIs DEF Stage, Request
<1> HIDE DEF i, k, content
<1>7. /\ prompt'[i].state = prompt[i].state
      /\ prompt'[i].name = (IF Renames(t) THEN req[t].name ELSE prompt[i].name)
      /\ prompt'[i].current = (IF k > 0 THEN t ELSE prompt[i].current)
      /\ \A j \in Ids \ {i} : prompt'[j] = prompt[j]
  BY <1>2, <1>4 DEF IInv, TypeOK, Prompt
<1>8. prompt' \in [Ids -> Prompt]
  <2>1. prompt[i] \in Prompt
    BY <1>2 DEF IInv, TypeOK
  <2> DEFINE name == IF Renames(t) THEN req[t].name ELSE prompt[i].name
  <2> DEFINE current == IF k > 0 THEN t ELSE prompt[i].current
  <2>2. name \in Names /\ current \in Versions
    BY <1>2, <1>3, <2>1 DEF Prompt
  <2>3. prompt' = [prompt EXCEPT ![i] = [prompt[i] EXCEPT !.name = name, !.current = current]]
    BY <1>2, <1>4, <2>1 DEF IInv, TypeOK, Prompt
  <2> HIDE DEF name, current
  <2>4. [prompt[i] EXCEPT !.name = name, !.current = current] \in Prompt
    BY <2>1, <2>2 DEF Prompt
  <2> QED
    BY <1>2, <2>3, <2>4 DEF IInv, TypeOK
<1>9. CASE k > 0
  <2>1. Numbering(t) /\ Holds(t) /\ ~Erased(t)
    BY <1>1, <1>2, <1>9 DEF Numbering, Holds, Versioned, Erased
  <2>2. Live(i)
    BY <1>2, <2>1 DEF Tied
  <2>3. 1 .. k - 1 \subseteq Numbers(i) /\ k \in Nat \ {0}
    BY <1>2, <1>9, <2>1, <2>2 DEF Tied
  <2>4. prompt[i].state = "live" /\ prompt'[i].state = "live" /\ prompt'[i].current = t
    BY <1>7, <1>9, <2>2 DEF Live
  <2>5. version' = [version EXCEPT ![t] = [prompt |-> i, number |-> k, content |-> content]]
    BY <1>5, <1>9
  <2> QED
    BY <1>1, <1>2, <1>3, <1>6, <1>7, <1>8, <1>9, <2>3, <2>4, <2>5, VersionCommits
<1>10. CASE ~(k > 0)
  <2>1. version' = version /\ prompt'[i].current = prompt[i].current
    BY <1>5, <1>7, <1>10
  <2> QED
    BY <1>1, <1>2, <1>3, <1>7, <1>8, <2>1, NameCommits
<1> QED
  BY <1>9, <1>10

LEMMA CommitKeeps ==
  ASSUME IInv, NEW t \in Txns, Commit(t)
  PROVE  IInv'
<1>1. Finishes(t)
  BY DEF Commit, Finishes
<1>2. CommitCreate(t) \/ CommitUpdate(t) \/ CommitDelete(t) \/ CommitAttach(t)
  BY DEF Commit
<1> QED
  BY <1>1, <1>2, CreateCommits, UpdateCommits, DeleteCommits, AttachCommits
-------------------------------------------------------------------------------
(* The invariant                                                            *)

LEMMA InitHolds ==
  ASSUME Init
  PROVE  IInv
<1>1. TypeOK
  <2>1. \A v \in Ids : [prompt |-> v, number |-> 1, content |-> Blank] \in Version
    BY SystemPromptsAssumption DEF Version
  <2>2. NoVersion \in Version /\ [id |-> None, name |-> None, current |-> None] \in Loaded
    BY SystemPromptsAssumption DEF NoVersion, Version, Loaded
  <2> QED
    BY <2>1, <2>2 DEF Init, TypeOK, Prompt
<1>2. /\ \A i, j \in Ids : Live(i) /\ Live(j) /\ prompt[i].name = prompt[j].name => i = j
      /\ \A i \in Ids : prompt[i].current = i /\ i # None /\ i \notin Txns /\ i \in Versions
      /\ \A t \in Txns : t \in Versions /\ t \notin Ids
  BY SystemPromptsAssumption DEF Init, Live, Versions
<1>3. \A v \in Versions :
        IF v \in Ids /\ Live(v) THEN version[v].prompt = v /\ version[v].number = 1
        ELSE version[v].prompt = None
  BY DEF Init, Live, NoVersion
<1>4. Integrity
  <2>1. \A c \in Configs : config[c] # None => Live(config[c])
    BY DEF Init
  <2> QED
    BY <1>2, <1>3, <2>1 DEF Integrity, Exists
<1>5. Gapless
  <2> SUFFICES ASSUME NEW i \in Ids
               PROVE  \E n \in Nat : Numbers(i) = 1 .. n
    BY DEF Gapless
  <2>1. VersionsOf(i) = IF Live(i) THEN {i} ELSE {}
    BY <1>2, <1>3 DEF VersionsOf
  <2>2. CASE Live(i)
    <3>1. Numbers(i) = {1}
      BY <1>2, <1>3, <2>1, <2>2 DEF Numbers
    <3>2. {1} = 1 .. 1 /\ 1 \in Nat
      OBVIOUS
    <3> QED
      BY <3>1, <3>2
  <2>3. CASE ~Live(i)
    <3>1. Numbers(i) = {}
      BY <2>1, <2>3 DEF Numbers
    <3>2. {} = 1 .. 0 /\ 0 \in Nat
      OBVIOUS
    <3> QED
      BY <3>1, <3>2
  <2> QED
    BY <2>2, <2>3
<1>6. \A t \in Txns : pc[t] = "idle" /\ Own(t) = None /\ seen[t].current = None /\ number[t] = 0
  BY DEF Init, Own
<1>7. ASSUME NEW t \in Txns
      PROVE  /\ ~Holds(t) /\ ~Exclusive(t) /\ ~Erased(t) /\ ~Entered(t) /\ ~Numbering(t)
             /\ pc[t] \notin Running \cup Ended
  BY <1>6 DEF Holds, Exclusive, Renamed, Erased, Versioned, Refers, Entered, Numbering, Running, Ended
<1>8. None \notin Ids /\ None \notin Txns
  BY SystemPromptsAssumption
<1>9. \A t \in Txns : Stage(t)
  BY <1>6, <1>7, <1>8 DEF Stage, Own, Ended
<1>10. \A t \in Txns : Tied(t)
  BY <1>2, <1>3, <1>6, <1>7, <1>8 DEF Tied
<1>11. \A t \in Txns : \A u \in Txns \ {t} : Apart(t, u)
  BY <1>6, <1>7 DEF Apart
<1> QED
  BY <1>1, <1>4, <1>5, <1>9, <1>10, <1>11 DEF IInv, Orderly

LEMMA NextKeeps ==
  ASSUME IInv, [Next]_vars
  PROVE  IInv'
<1>1. CASE UNCHANGED vars
  <2>1. UNCHANGED <<prompt, version, config, pc, req, seen, number, answer>>
    BY <1>1 DEF vars
  <2>2. TypeOK' /\ Integrity' /\ Gapless'
    BY <2>1 DEF IInv, TypeOK, Integrity, Gapless, Live, Exists, Numbers, VersionsOf
  <2>3. \A t \in Txns : Stage(t)'
    BY <2>1 DEF IInv, Orderly, Stage, Own, Renames, Entering, Writes
  <2>4. \A t \in Txns : /\ Own(t)' = Own(t) /\ (Holds(t)' <=> Holds(t)) /\ (Exclusive(t)' <=> Exclusive(t))
                        /\ (Erased(t)' <=> Erased(t)) /\ (Entered(t)' <=> Entered(t))
                        /\ (Writes(t)' <=> Writes(t)) /\ (Numbering(t)' <=> Numbering(t)) /\ (Replaced(t)' <=> Replaced(t))
    BY <2>1 DEF Own, Holds, Exclusive, Renamed, Renames, Erased, Versioned, Refers, Entered, Entering, Writes, Numbering, Replaced
  <2>5. \A t \in Txns : Tied(t)'
    BY <2>1, <2>4, RowsStay DEF IInv, Orderly, Tied
  <2>6. \A t \in Txns : \A u \in Txns \ {t} : Apart(t, u)'
    BY <2>1, <2>4 DEF IInv, Orderly, Apart
  <2> QED
    BY <2>2, <2>3, <2>5, <2>6 DEF IInv, Orderly
<1>2. ASSUME NEW t \in Txns, Step(t) \/ Fail(t)
      PROVE  IInv'
  <2>1. CASE BeginCreate(t) \/ BeginLookup(t) \/ BeginAttach(t) \/ BeginRun(t)
    BY <2>1, CreateKeeps, LookupKeeps, BeginKeeps
  <2>2. CASE Gone(t) \/ Fail(t)
    BY <2>2, StopKeeps
  <2>3. CASE CheckName(t) \/ Rename(t) \/ Enter(t)
    BY <2>3, CheckNameKeeps, RenameKeeps, EnterKeeps
  <2>4. CASE ReadContent(t) \/ TakeNumber(t) \/ InsertVersion(t) \/ SetCurrent(t)
    BY <2>4, ReadContentKeeps, TakeNumberKeeps, InsertKeeps, SetCurrentKeeps
  <2>5. CASE Erase(t) \/ Refer(t) \/ Lookup(t) \/ Read(t)
    BY <2>5, EraseKeeps, ReferKeeps, RunLookupKeeps, ReadKeeps
  <2>6. CASE Commit(t)
    BY <2>6, CommitKeeps
  <2> QED
    BY <1>2, <2>1, <2>2, <2>3, <2>4, <2>5, <2>6 DEF Step
<1> QED
  BY <1>1, <1>2 DEF Next

LEMMA InvariantHolds == Spec => []IInv
<1>1. Init => IInv
  BY InitHolds
<1>2. IInv /\ [Next]_vars => IInv'
  BY NextKeeps
<1> QED
  BY <1>1, <1>2, PTL DEF Spec
-------------------------------------------------------------------------------
(* The theorems                                                             *)

(* Every variable of the service of prompts keeps its type.                 *)
THEOREM TypeCorrect == Spec => []TypeOK
<1>1. IInv => TypeOK
  BY DEF IInv
<1> QED
  BY <1>1, InvariantHolds, PTL

(* However many requests overlap and whichever of them fail, the names of   *)
(* prompts stay apart, a prompt has a current version of its own, and no    *)
(* config refers to a prompt that is gone.                                  *)
THEOREM IntegrityHolds == Spec => []Integrity
<1>1. IInv => Integrity
  BY DEF IInv
<1> QED
  BY <1>1, InvariantHolds, PTL

(* The numbers of a prompt's versions have no gap: two updates that overlap *)
(* can take one number, never leave one out.                                *)
THEOREM NumbersHold == Spec => []NumbersWithoutGap
<1>1. ASSUME IInv
      PROVE  NumbersWithoutGap
  <2> SUFFICES ASSUME NEW i \in Ids, Live(i)
               PROVE  Numbers(i) = 1 .. Newest(i) /\ Newest(i) > 0
    BY DEF NumbersWithoutGap
  <2>1. PICK n \in Nat : Numbers(i) = 1 .. n
    BY <1>1 DEF IInv, Gapless
  <2>2. Newest(i) = n
    BY <2>1, NewestIs
  <2>3. version[prompt[i].current].number \in Numbers(i)
    BY <1>1, CurrentIs DEF Numbers, VersionsOf
  <2>4. n > 0
    BY <2>1, <2>3
  <2> QED
    BY <2>1, <2>2, <2>4
<1> QED
  BY <1>1, InvariantHolds, PTL

(* A run whose config still refers to the prompt it looked up has found the *)
(* content of that prompt.                                                  *)
THEOREM RunHasPromptHolds == Spec => []RunHasPrompt
<1>1. ASSUME IInv
      PROVE  RunHasPrompt
  <2> SUFFICES ASSUME NEW t \in Txns, pc[t] = "done", req[t].op = "run", Own(t) # None,
                      config[req[t].config] = Own(t), answer[t] = None
               PROVE  FALSE
    BY DEF RunHasPrompt
  <2>1. Own(t) \in Ids /\ req[t].config \in Configs /\ Tied(t)
    BY <1>1, RequestIs DEF IInv, TypeOK, Loaded, Own, Orderly
  <2>2. prompt[Own(t)].state = "deleted"
    BY <2>1 DEF Tied
  <2>3. prompt[Own(t)].state = "live"
    BY <1>1, <2>1 DEF IInv, Integrity, Live
  <2> QED
    BY <2>2, <2>3
<1> QED
  BY <1>1, InvariantHolds, PTL

(* Only its COMMIT ends a transaction well that was about to commit.        *)
LEMMA CommitsAre ==
  ASSUME IInv, Next, NEW t \in Txns, Commits(t)
  PROVE  Commit(t)
<1>1. PICK u \in Txns : Step(u) \/ Fail(u)
  BY DEF Next
<1>2. \E p : Goto(u, p)
  BY <1>1 DEF Step, BeginCreate, BeginLookup, BeginAttach, BeginRun, Gone, CheckName, Rename, Enter, EnterName,
              ReadContent, TakeNumber, InsertVersion, SetCurrent, Erase, Refer, Lookup, Read, Commit, Fail
<1>3. u = t /\ pc[t] = "commit" /\ pc'[t] = "done"
  BY <1>2 DEF Commits, Goto, IInv, TypeOK
<1>4. ~Gone(t) /\ ~Fail(t)
  BY <1>3 DEF Gone, Fail, Goto, IInv, TypeOK
<1> QED
  BY <1>1, <1>3, <1>4
     DEF Step, BeginCreate, BeginLookup, BeginAttach, BeginRun, CheckName, Rename, Enter,
         ReadContent, TakeNumber, InsertVersion, SetCurrent, Erase, Refer, Lookup, Read

LEMMA EffectIs ==
  ASSUME IInv, NEW t \in Txns, Commit(t), req[t].op \in {"update", "post"}, req[t].content # None,
         Live(Own(t)), ~Replaced(t)
  PROVE  TakesEffect(t)
<1>1. pc[t] = "commit" /\ Stage(t) /\ Tied(t) /\ Writes(t) /\ number[t] \in Nat
  BY DEF Commit, IInv, Orderly, Writes, TypeOK
<1>2. Own(t) \in Ids /\ t \in Versions
  BY <1>1, OwnVersion
<1>3. CommitUpdate(t)
  BY DEF Commit, CommitCreate, CommitDelete, CommitAttach
<1>4. prompt'[Own(t)].current = IF number[t] > 0 THEN t ELSE prompt[Own(t)].current
  BY <1>2, <1>3 DEF CommitUpdate, IInv, TypeOK, Prompt
<1>5. CASE number[t] > 0
  <2>1. version'[t].content = req[t].content
    BY <1>2, <1>3, <1>5 DEF CommitUpdate, NewVersion, IInv, TypeOK
  <2>2. \A v \in VersionsOf(Own(t)) : version[v].number < number[t]
    BY <1>1, <1>5 DEF Tied, Numbering, Numbers
  <2> QED
    BY <1>4, <1>5, <2>1, <2>2 DEF TakesEffect
<1>6. CASE ~(number[t] > 0)
  <2>1. number[t] = 0 /\ version' = version /\ prompt[Own(t)].current = seen[t].current
    BY <1>1, <1>3, <1>6 DEF CommitUpdate, Replaced
  <2>2. version[seen[t].current].content = req[t].content
    BY <1>1, <2>1 DEF Tied
  <2> QED
    BY <1>4, <1>6, <2>1, <2>2 DEF TakesEffect
<1> QED
  BY <1>5, <1>6

(* An update of the content takes effect, in a version above all others,    *)
(* unless another one replaced the current version after it was loaded.     *)
THEOREM UpdateTakesEffectHolds == Spec => UpdateTakesEffect
<1>1. ASSUME IInv, [Next]_vars
      PROVE  [\A t \in Txns :
                Commits(t) /\ req[t].op \in {"update", "post"} /\ req[t].content # None
                  /\ Live(Own(t)) /\ ~Replaced(t)
                  => TakesEffect(t)]_vars
  BY <1>1, CommitsAre, EffectIs
<1> QED
  BY <1>1, InvariantHolds, PTL DEF Spec, UpdateTakesEffect
===============================================================================
