------------------------- MODULE ModelConfigRegistry --------------------------
(* Concurrent requests that create, update and soft-delete model configs.   *)
(* Each request is one transaction of PostgreSQL at READ COMMITTED: a       *)
(* statement sees what is committed when it starts, waits for a transaction *)
(* that has written a row it needs, and then goes on with what that one     *)
(* committed.  Two partial unique indexes cover the rows that are not       *)
(* deleted: one on slug, one on config_type for default configs.            *)
EXTENDS Naturals, FiniteSets

CONSTANTS
  Ids,       (* ids of configs                                              *)
  Slugs,
  Types,     (* values of config_type                                       *)
  Unset,     (* a field the payload does not supply                         *)
  Txns,      (* transactions, one for each request                          *)
  Requests   (* the payloads clients send                                   *)

Row == [slug : Slugs, type : Types, dflt : BOOLEAN, state : {"absent", "live", "deleted"}]

Request == [op : {"create", "update", "delete"}, id : Ids,
            slug : Slugs \cup {Unset}, type : Types \cup {Unset},
            dflt : BOOLEAN \cup {Unset}]

ASSUME RegistryAssumption ==
  /\ Unset \notin Slugs \cup Types \cup BOOLEAN
  /\ Requests \subseteq Request
  /\ \A r \in Requests : r.op = "create" => r.slug # Unset /\ r.type # Unset /\ r.dflt # Unset

VARIABLES
  row,      (* the committed rows of model_configs                          *)
  pc,       (* pc[t]: the statement transaction t is about to run, or how   *)
            (* it ended                                                     *)
  req,      (* req[t]: its request                                          *)
  seen,     (* seen[t]: the row it loaded, for an update or a delete        *)
  victims   (* victims[t]: the defaults _clear_default found, then cleared  *)

vars == <<row, pc, req, seen, victims>>

Running == {"scan", "clear", "write", "check", "commit"}
Ended   == {"done", "conflict", "missing", "failed"}

(* Two rows that a unique index does not allow together.                    *)
Clash(r, s) ==
  /\ r.state = "live" /\ s.state = "live"
  /\ r.slug = s.slug \/ (r.dflt /\ s.dflt /\ r.type = s.type)

Consistent(table) == \A i, j \in Ids : i # j => ~Clash(table[i], table[j])

Init ==
  /\ row \in {table \in [Ids -> Row] : Consistent(table)}
  /\ pc = [t \in Txns |-> "idle"]
  /\ req \in [Txns -> Requests]
  /\ seen = [t \in Txns |-> row[req[t].id]]
  /\ victims = [t \in Txns |-> {}]
-----------------------------------------------------------------------------
(* What a transaction changes                                              *)

Own(t) == req[t].id

(* The attributes an update sets to another value than it loaded: the only *)
(* columns of its UPDATE statement.                                        *)
Supplied(value, loaded) == value # Unset /\ value # loaded

Changes(t) ==
  req[t].op = "update" =>
    \/ Supplied(req[t].slug, seen[t].slug)
    \/ Supplied(req[t].type, seen[t].type)
    \/ Supplied(req[t].dflt, seen[t].dflt)

(* Faulty: a slug that the payload leaves out is dumped and set too.       *)
UpdatedUnset(base, r, loaded) == [base EXCEPT !.slug = r.slug]

(* The row of its config as transaction t leaves it.                       *)
Updated(base, r, loaded) ==
  [base EXCEPT !.slug = IF Supplied(r.slug, loaded.slug) THEN r.slug ELSE @,
               !.type = IF Supplied(r.type, loaded.type) THEN r.type ELSE @,
               !.dflt = IF Supplied(r.dflt, loaded.dflt) THEN r.dflt ELSE @]

(* Faulty: all columns are written, those not supplied as they were loaded. *)
NewRowWhole(t) ==
  CASE req[t].op = "create" ->
         [slug |-> req[t].slug, type |-> req[t].type, dflt |-> req[t].dflt, state |-> "live"]
    [] req[t].op = "update" -> Updated(seen[t], req[t], seen[t])
    [] OTHER -> [row[Own(t)] EXCEPT !.state = "deleted"]

NewRow(t) ==
  CASE req[t].op = "create" ->
         [slug |-> req[t].slug, type |-> req[t].type, dflt |-> req[t].dflt, state |-> "live"]
    [] req[t].op = "update" -> Updated(row[Own(t)], req[t], seen[t])
    [] OTHER -> [row[Own(t)] EXCEPT !.state = "deleted"]

(* The rows t has written and not committed, and what it leaves in them.   *)
Written(t) == IF pc[t] \in {"check", "commit"} /\ Changes(t) THEN {Own(t)} ELSE {}
Cleared(t) == IF pc[t] \in {"write", "check", "commit"} THEN victims[t] ELSE {}
Locked(t)  == Written(t) \cup Cleared(t)

Version(t, i) ==
  IF i \in Written(t) THEN NewRow(t) ELSE [row[i] EXCEPT !.dflt = FALSE]
-----------------------------------------------------------------------------
(* The request                                                             *)

AsksDefault(t) == req[t].op # "delete" /\ req[t].dflt = TRUE

Goto(t, point) == pc' = [pc EXCEPT ![t] = point]

FirstPoint(t) == IF AsksDefault(t) THEN "scan" ELSE "write"

(* A create starts with an id of its own.                                  *)
BeginCreate(t) ==
  /\ pc[t] = "idle" /\ req[t].op = "create"
  /\ row[Own(t)].state = "absent"
  /\ \A u \in Txns \ {t} : pc[u] # "idle" => Own(u) # Own(t)
  /\ Goto(t, FirstPoint(t))
  /\ UNCHANGED <<row, req, seen, victims>>

(* An update or a delete loads its config first: 404 if it is not there.   *)
(* That a delete loads it a second time makes no difference.               *)
BeginChange(t) ==
  /\ pc[t] = "idle" /\ req[t].op # "create"
  /\ IF row[Own(t)].state = "live"
     THEN seen' = [seen EXCEPT ![t] = row[Own(t)]] /\ Goto(t, FirstPoint(t))
     ELSE UNCHANGED seen /\ Goto(t, "missing")
  /\ UNCHANGED <<row, req, victims>>

(* The type whose default _clear_default clears.                           *)
TargetType(t) ==
  IF req[t].op = "update" /\ req[t].type = Unset THEN seen[t].type ELSE req[t].type

IsOtherDefault(t, i) ==
  /\ row[i].state = "live" /\ row[i].dflt /\ row[i].type = TargetType(t)
  /\ i # Own(t)

(* The snapshot of its UPDATE ...                                          *)
Scan(t) ==
  /\ pc[t] = "scan"
  /\ victims' = [victims EXCEPT ![t] = {i \in Ids : IsOtherDefault(t, i)}]
  /\ Goto(t, "clear")
  /\ UNCHANGED <<row, req, seen>>

WaitsToClear(t, u) == pc[t] = "clear" /\ victims[t] \cap Locked(u) # {}

(* Faulty: clears a row found in the snapshot whatever became of it.       *)
ClearUnrechecked(t) ==
  /\ pc[t] = "clear"
  /\ \A u \in Txns \ {t} : ~WaitsToClear(t, u)
  /\ UNCHANGED victims
  /\ Goto(t, "write")
  /\ UNCHANGED <<row, req, seen>>

(* ... which writes the rows found that still match once it has them.      *)
Clear(t) ==
  /\ pc[t] = "clear"
  /\ \A u \in Txns \ {t} : ~WaitsToClear(t, u)
  /\ victims' = [victims EXCEPT ![t] = {i \in @ : IsOtherDefault(t, i)}]
  /\ Goto(t, "write")
  /\ UNCHANGED <<row, req, seen>>

WaitsToWrite(t, u) == pc[t] = "write" /\ Changes(t) /\ Own(t) \in Locked(u)

(* The flush writes the row of the config, once no other transaction has   *)
(* written it ...                                                          *)
WriteRow(t) ==
  /\ pc[t] = "write"
  /\ \A u \in Txns \ {t} : ~WaitsToWrite(t, u)
  /\ Goto(t, "check")
  /\ UNCHANGED <<row, req, seen, victims>>

(* ... then enters it in the indexes.  It waits for a transaction that has *)
(* written a row it clashes with, before or after that write.              *)
Entered(u) == pc[u] = "commit"

WaitsForKey(t, u) ==
  /\ pc[t] = "check" /\ Changes(t)
  /\ \E i \in Locked(u) :
       Clash(NewRow(t), row[i]) \/ (Entered(u) /\ Clash(NewRow(t), Version(u, i)))

ClashesWith(t, i) ==
  /\ Changes(t) /\ i # Own(t)
  /\ Clash(NewRow(t), IF i \in Locked(t) THEN Version(t, i) ELSE row[i])

(* The refresh that follows does not find a config another request deleted. *)
Gone(t) == req[t].op = "update" /\ row[Own(t)].state = "deleted"

(* Faulty: an index that has no entry for what is not committed.           *)
EnterUnwaiting(t) ==
  /\ pc[t] = "check" /\ ~Gone(t)
  /\ \A i \in Ids : ~ClashesWith(t, i)
  /\ Goto(t, "commit")
  /\ UNCHANGED <<row, req, seen, victims>>

Enter(t) ==
  /\ pc[t] = "check" /\ ~Gone(t)
  /\ \A u \in Txns \ {t} : ~WaitsForKey(t, u)
  /\ \A i \in Ids : ~ClashesWith(t, i)
  /\ Goto(t, "commit")
  /\ UNCHANGED <<row, req, seen, victims>>

(* IntegrityError: 409 and rollback.                                       *)
Conflict(t) ==
  /\ pc[t] = "check"
  /\ \E i \in Ids : ClashesWith(t, i) /\ \A u \in Txns \ {t} : i \notin Locked(u)
  /\ Goto(t, "conflict")
  /\ UNCHANGED <<row, req, seen, victims>>

RefreshFails(t) ==
  /\ pc[t] = "check" /\ Gone(t)
  /\ Goto(t, "failed")
  /\ UNCHANGED <<row, req, seen, victims>>

Commit(t) ==
  /\ pc[t] = "commit"
  /\ row' = [i \in Ids |-> IF i \in Locked(t) THEN Version(t, i) ELSE row[i]]
  /\ Goto(t, "done")
  /\ UNCHANGED <<req, seen, victims>>

(* The connection, the process or the database fails: rollback.            *)
Fail(t) ==
  /\ pc[t] \in Running
  /\ Goto(t, "failed")
  /\ UNCHANGED <<row, req, seen, victims>>

(* Faulty: no deadlock is ever detected.                                   *)
DetectDeadlockNever(t, u) == FALSE /\ Fail(t) /\ u \in Txns

(* Two transactions wait for each other: PostgreSQL aborts one.            *)
Waits(t, u) == WaitsToClear(t, u) \/ WaitsToWrite(t, u) \/ WaitsForKey(t, u)

DetectDeadlock(t, u) == t # u /\ Waits(t, u) /\ Waits(u, t) /\ Fail(t)

Step(t) ==
  \/ Scan(t) \/ Clear(t) \/ WriteRow(t) \/ Enter(t) \/ Conflict(t) \/ RefreshFails(t)
  \/ Commit(t)

Next ==
  \E t \in Txns :
    \/ BeginCreate(t) \/ BeginChange(t) \/ Step(t) \/ Fail(t)
    \/ \E u \in Txns : DetectDeadlock(t, u)

Spec == Init /\ [][Next]_vars

(* A statement that can run does run, and deadlocks are detected.          *)
Fairness ==
  /\ \A t \in Txns : WF_vars(Step(t))
  /\ \A t, u \in Txns : WF_vars(DetectDeadlock(t, u))

FairSpec == Spec /\ Fairness
-----------------------------------------------------------------------------
(* Properties                                                              *)

TypeOK ==
  /\ row \in [Ids -> Row]
  /\ pc \in [Txns -> {"idle"} \cup Running \cup Ended]
  /\ req \in [Txns -> Requests]
  /\ seen \in [Txns -> Row]
  /\ victims \in [Txns -> SUBSET Ids]

(* No two configs that are not deleted have one slug, or are the default   *)
(* of one type, whatever requests overlap.                                 *)
Unique == Consistent(row)

(* A commit changes of its own config what the payload supplied, although  *)
(* other requests committed changes since it was loaded ("updates only the *)
(* supplied fields"), and never brings a deleted config back; of other     *)
(* configs it only takes the default mark, from those of its type.         *)
Commits(t) == pc[t] = "commit" /\ pc'[t] = "done"

OnlySupplied(t, i) ==
  LET old == row[i]
      new == row'[i]
  IN IF i = Own(t)
     THEN /\ old.state = "deleted" => new.state = "deleted"
          /\ req[t].op = "update" =>
               /\ new.slug = old.slug \/ new.slug = req[t].slug
               /\ new.type = old.type \/ new.type = req[t].type
               /\ new.dflt = old.dflt \/ new.dflt = req[t].dflt
     ELSE AsksDefault(t) /\ old.type = TargetType(t) /\ new = [old EXCEPT !.dflt = FALSE]

SuppliedFieldsOnly ==
  [][\A i \in Ids : row'[i] # row[i] => \E t \in Txns : Commits(t) /\ OnlySupplied(t, i)]_vars

(* A type loses its default only to a request that deletes, unmarks or     *)
(* retypes a config, or that asks for the default on a config which        *)
(* another request changed after it was loaded.                            *)
IsDefault(i, type) == row[i].state = "live" /\ row[i].dflt /\ row[i].type = type
HasDefault(type) == \E i \in Ids : IsDefault(i, type)

GivesUp(t) ==
  \/ req[t].op = "delete"
  \/ req[t].op = "update" /\ (req[t].dflt = FALSE \/ req[t].type # Unset)

DefaultKept ==
  [][\A type \in Types : HasDefault(type) /\ ~HasDefault(type)' =>
       \E t \in Txns : Commits(t) /\ (GivesUp(t) \/ seen[t] # row[Own(t)])]_vars

(* "Attempting to mark two ModelConfigs of the same config_type as default *)
(* results in exactly one default row for that type": a request that asks  *)
(* for the default never leaves a type that had one without.               *)
DefaultNeverLost ==
  [][\A type \in Types : HasDefault(type) /\ ~HasDefault(type)' =>
       \E t \in Txns : Commits(t) /\ GivesUp(t)]_vars

(* Every request gets its answer, although transactions wait for each      *)
(* other in either order.                                                  *)
RequestsEnd == \A t \in Txns : pc[t] \in Running ~> pc[t] \in Ended
=============================================================================
