---------------------------- MODULE SystemPrompts -----------------------------
(* System prompts with their versions, and the model configs that refer to  *)
(* them.  A request is one transaction of PostgreSQL at READ COMMITTED; its *)
(* ORM session keeps the attributes of a prompt as it first loaded them.    *)
(* A version takes its number from the newest one it sees; nothing locks    *)
(* the prompt meanwhile.  Foreign keys lead from a version to its prompt    *)
(* (CASCADE) and from a config to its prompt (RESTRICT).                    *)
EXTENDS Naturals, FiniteSets

CONSTANTS
  Ids,       (* ids of prompts                                              *)
  Names,
  Contents,
  Blank,     (* the empty content                                           *)
  Configs,   (* model configs, soft-deleted ones included                   *)
  None,      (* no row, or a field the payload does not supply              *)
  Txns,      (* transactions, one for each request                          *)
  Requests   (* the requests clients send                                   *)

(* A transaction makes one version at most, and each prompt that exists at  *)
(* the start has one: they name the versions.                               *)
Versions == Txns \cup Ids

Prompt  == [name : Names, current : Versions, state : {"absent", "live", "deleted"}]
Version == [prompt : Ids \cup {None}, number : Nat, content : Contents]
Loaded  == [id : Ids \cup {None}, name : Names \cup {None}, current : Versions \cup {None}]

Request == [op : {"create", "update", "post", "delete", "attach", "run", "show"},
            id : Ids \cup {None}, name : Names \cup {None},
            content : Contents \cup {None}, config : Configs \cup {None}]

ASSUME SystemPromptsAssumption ==
  /\ Txns \cap Ids = {}
  /\ None \notin Ids \cup Names \cup Contents \cup Configs \cup Txns
  /\ Blank \in Contents
  /\ Requests \subseteq Request
  /\ \A r \in Requests :
       /\ r.op \in {"create", "update", "delete", "attach"} => r.id # None
       /\ r.op \in {"create", "post", "show"} => r.name # None
       /\ r.op \in {"create", "post"} => r.content # None
       /\ r.op = "update" => r.name # None \/ r.content # None
       /\ r.op \in {"attach", "run"} => r.config # None

VARIABLES
  prompt,    (* the committed rows of system_prompts                        *)
  version,   (* the committed rows of system_prompt_versions                *)
  config,    (* config[c]: the prompt its committed row refers to           *)
  pc,        (* pc[t]: the statement transaction t is about to run, or how  *)
             (* it ended                                                    *)
  req,       (* req[t]: its request                                         *)
  seen,      (* seen[t]: the prompt in its session, as it was loaded        *)
  number,    (* number[t]: the number it gives its version, 0 before        *)
  answer     (* answer[t]: the content a run or a read of a prompt found    *)

vars == <<prompt, version, config, pc, req, seen, number, answer>>

Running == {"check", "enter", "rename", "content", "number", "insert", "current",
            "erase", "refer", "lookup", "read", "commit"}
Ended   == {"done", "missing", "conflict", "failed"}

NoVersion == [prompt |-> None, number |-> 0, content |-> Blank]

Live(i)     == prompt[i].state = "live"
Named(name) == {i \in Ids : Live(i) /\ prompt[i].name = name}
Exists(v)   == version[v].prompt # None

VersionsOf(i) == {v \in Versions : version[v].prompt = i}

(* The migration seeds a prompt with its first version, empty and current.  *)
Init ==
  /\ prompt \in {rows \in [Ids -> Prompt] :
       /\ \A i \in Ids : rows[i].current = i /\ rows[i].state # "deleted"
       /\ \A i, j \in Ids : rows[i].name = rows[j].name
            => i = j \/ rows[i].state # "live" \/ rows[j].state # "live"}
  /\ version = [v \in Versions |->
       IF v \in Ids /\ prompt[v].state = "live"
       THEN [prompt |-> v, number |-> 1, content |-> Blank] ELSE NoVersion]
  /\ config \in {refs \in [Configs -> Ids \cup {None}] :
       \A c \in Configs : refs[c] \in Ids => Live(refs[c])}
  /\ pc = [t \in Txns |-> "idle"]
  /\ req \in [Txns -> Requests]
  /\ seen = [t \in Txns |-> [id |-> None, name |-> None, current |-> None]]
  /\ number = [t \in Txns |-> 0]
  /\ answer = [t \in Txns |-> None]
-----------------------------------------------------------------------------
(* Locks on the row of a prompt                                            *)

Own(t) == seen[t].id

Goto(t, point) == pc' = [pc EXCEPT ![t] = point]

Data == <<prompt, version, config>>

(* The UPDATE of a name, which is a key, and the DELETE lock out everybody; *)
(* the UPDATE of current_version_id locks out other updates; a row that     *)
(* refers to the prompt keeps it from being deleted or renamed.             *)
Renames(t) == req[t].op = "update" /\ req[t].name \notin {None, seen[t].name}

Renamed(t)  == Renames(t) /\ pc[t] \in {"enter", "content", "number", "insert", "current", "commit"}
Erased(t)   == req[t].op = "delete" /\ pc[t] = "commit"
Versioned(t) == number[t] > 0 /\ pc[t] = "commit"
Refers(t)   == \/ number[t] > 0 /\ pc[t] \in {"current", "commit"}
               \/ req[t].op = "attach" /\ pc[t] = "commit"

Exclusive(t) == Renamed(t) \/ Erased(t)
Holds(t)     == Exclusive(t) \/ Versioned(t) \/ Refers(t)

Waits(t, u) ==
  /\ t # u /\ Own(t) = Own(u)
  /\ \/ pc[t] \in {"rename", "erase"} /\ Holds(u)
     \/ pc[t] = "current" /\ (Exclusive(u) \/ Versioned(u))
     \/ pc[t] \in {"insert", "refer"} /\ Exclusive(u)

Free(t) == \A u \in Txns : ~Waits(t, u)
-----------------------------------------------------------------------------
(* Looking the prompt up                                                   *)

Load(t, i) ==
  seen' = [seen EXCEPT ![t] = [id |-> i, name |-> prompt[i].name, current |-> prompt[i].current]]

(* A create takes an id of its own, if the name is free.                   *)
BeginCreate(t) ==
  /\ pc[t] = "idle" /\ req[t].op = "create"
  /\ prompt[req[t].id].state = "absent"
  /\ \A u \in Txns : req[u].op = "create" /\ pc[u] # "idle" => req[u].id # req[t].id
  /\ IF Named(req[t].name) = {} THEN Goto(t, "enter") ELSE Goto(t, "conflict")
  /\ seen' = [seen EXCEPT ![t].id = req[t].id]
  /\ UNCHANGED <<Data, req, number, answer>>

FirstPoint(t) ==
  IF req[t].op = "delete" THEN "erase"
  ELSE IF req[t].op = "post" THEN "number"
  ELSE IF req[t].op = "show" THEN "read"
  ELSE IF req[t].name # None THEN "check" ELSE "content"

(* Update and delete go by id, a new version and the current one by name.  *)
Wanted(t) == IF req[t].op \in {"update", "delete"} THEN {req[t].id} \cap {i \in Ids : Live(i)}
             ELSE Named(req[t].name)

(* Deleting stops at once when a config refers to the prompt.              *)
Referenced(i) == \E c \in Configs : config[c] = i

BeginLookup(t) ==
  /\ pc[t] = "idle" /\ req[t].op \in {"update", "delete", "post", "show"}
  /\ \/ /\ Wanted(t) = {}
        /\ Goto(t, "missing")
        /\ UNCHANGED seen
     \/ \E i \in Wanted(t) :
          /\ Load(t, i)
          /\ IF req[t].op = "delete" /\ Referenced(i)
             THEN Goto(t, "conflict") ELSE Goto(t, FirstPoint(t))
  /\ UNCHANGED <<Data, req, number, answer>>
-----------------------------------------------------------------------------
(* Renaming                                                                *)

(* The lookups that each part of the code repeats do not find a prompt that *)
(* was deleted meanwhile: 404.                                             *)
Unwritten(t) == req[t].op = "update" /\ pc[t] = "commit" /\ number[t] = 0 /\ ~Renames(t)

Gone(t) ==
  /\ pc[t] \in {"check", "number", "erase"} \/ Unwritten(t)
  /\ ~Live(Own(t))
  /\ Goto(t, "missing")
  /\ UNCHANGED <<Data, req, seen, number, answer>>

Refresh(t) == seen' = [seen EXCEPT ![t].current = prompt[Own(t)].current]

(* update_prompt_name_by_id, which refreshes the prompt in the session also *)
(* when its name stays the same, and fails if the row has gone by then.     *)
CheckName(t) ==
  /\ pc[t] = "check"
  /\ \/ /\ Renames(t)
        /\ IF Named(req[t].name) = {} THEN Goto(t, "rename") ELSE Goto(t, "conflict")
        /\ UNCHANGED seen
     \/ ~Renames(t) /\ Live(Own(t)) /\ Refresh(t) /\ Goto(t, "content")
     \/ ~Renames(t) /\ ~Live(Own(t)) /\ Goto(t, "failed") /\ UNCHANGED seen
  /\ UNCHANGED <<Data, req, number, answer>>

Rename(t) ==
  /\ pc[t] = "rename" /\ Free(t)
  /\ IF Live(Own(t)) THEN Goto(t, "enter") ELSE Goto(t, "failed")
  /\ UNCHANGED <<Data, req, seen, number, answer>>

(* A name enters the unique index, of a new prompt or of a renamed one,     *)
(* once no transaction in progress has entered it or may still give it up.  *)
Entering(t) == Renames(t) \/ req[t].op = "create"
Entered(u)  == Entering(u) /\ pc[u] \in Running \ {"check", "rename", "enter"}

WaitsForName(t, u) ==
  /\ t # u
  /\ \/ Entered(u) /\ req[u].name = req[t].name
     \/ Own(u) \in Named(req[t].name) /\ (Renamed(u) \/ Erased(u))

(* The refresh that follows shows the current version of that moment.      *)
EnterName(t) ==
  IF Named(req[t].name) \ {Own(t)} # {} THEN Goto(t, "conflict") /\ UNCHANGED seen
  ELSE IF req[t].op = "create" THEN Goto(t, "commit") /\ UNCHANGED seen
  ELSE Refresh(t) /\ Goto(t, "content")

(* Faulty: the index keeps a name apart from committed names only.         *)
EnterUnwaiting(t) ==
  /\ pc[t] = "enter"
  /\ EnterName(t)
  /\ UNCHANGED <<Data, req, number, answer>>

Enter(t) ==
  /\ pc[t] = "enter"
  /\ \A u \in Txns : ~WaitsForName(t, u)
  /\ EnterName(t)
  /\ UNCHANGED <<Data, req, number, answer>>
-----------------------------------------------------------------------------
(* A new version                                                           *)

Numbers(i) == {version[v].number : v \in VersionsOf(i)}
Newest(i)  == IF Numbers(i) = {} THEN 0
              ELSE CHOOSE n \in Numbers(i) : \A m \in Numbers(i) : m <= n

(* Faulty: makes no version of a content that an earlier version has.      *)
ReadContentOnce(t) ==
  /\ pc[t] = "content"
  /\ Goto(t, IF req[t].content \in {version[v].content : v \in VersionsOf(Own(t))} \cup {None}
             THEN "commit" ELSE "number")
  /\ UNCHANGED <<Data, req, seen, number, answer>>

(* The current version is the one that was current when the prompt was      *)
(* loaded; a content that is not there reads as empty.                      *)
CurrentContent(t) ==
  IF Live(Own(t)) THEN version[seen[t].current].content ELSE Blank

ReadContent(t) ==
  /\ pc[t] = "content"
  /\ Goto(t, IF req[t].content \in {None, CurrentContent(t)} THEN "commit" ELSE "number")
  /\ UNCHANGED <<Data, req, seen, number, answer>>

(* Faulty: numbers a version by how many there are.                        *)
TakeCount(t) ==
  /\ pc[t] = "number"
  /\ number' = [number EXCEPT ![t] = Cardinality(VersionsOf(Own(t))) + 1]
  /\ Goto(t, "insert")
  /\ UNCHANGED <<Data, req, seen, answer>>

(* The newest version is read after the prompt, which may be gone by then.  *)
TakeNumber(t) ==
  /\ pc[t] = "number"
  /\ number' = [number EXCEPT ![t] = Newest(Own(t)) + 1]
  /\ Goto(t, "insert")
  /\ UNCHANGED <<Data, req, seen, answer>>

(* The foreign key of the version locks the prompt.                        *)
InsertVersion(t) ==
  /\ pc[t] = "insert" /\ Free(t)
  /\ IF Live(Own(t)) THEN Goto(t, "current") ELSE Goto(t, "failed")
  /\ UNCHANGED <<Data, req, seen, number, answer>>

SetCurrent(t) ==
  /\ pc[t] = "current" /\ Free(t)
  /\ Goto(t, "commit")
  /\ UNCHANGED <<Data, req, seen, number, answer>>
-----------------------------------------------------------------------------
(* Deleting a prompt, and the configs that refer to one                    *)

(* Faulty: relies on the check made before the DELETE.                     *)
EraseUnchecked(t) ==
  /\ pc[t] = "erase" /\ Free(t)
  /\ Goto(t, "commit")
  /\ UNCHANGED <<Data, req, seen, number, answer>>

(* The DELETE of a row that is gone deletes nothing and is a success.      *)
Erase(t) ==
  /\ pc[t] = "erase" /\ Free(t)
  /\ IF Live(Own(t)) /\ Referenced(Own(t)) THEN Goto(t, "failed") ELSE Goto(t, "commit")
  /\ UNCHANGED <<Data, req, seen, number, answer>>

(* An update of a config that supplies system_prompt_id.                   *)
BeginAttach(t) ==
  /\ pc[t] = "idle" /\ req[t].op = "attach"
  /\ IF config[req[t].config] = req[t].id THEN Goto(t, "done") ELSE Goto(t, "refer")
  /\ seen' = [seen EXCEPT ![t].id = req[t].id]
  /\ UNCHANGED <<Data, req, number, answer>>

Refer(t) ==
  /\ pc[t] = "refer" /\ Free(t)
  /\ IF Live(Own(t)) THEN Goto(t, "commit") ELSE Goto(t, "conflict")
  /\ UNCHANGED <<Data, req, seen, number, answer>>
-----------------------------------------------------------------------------
(* Reading the current content, before a model runs or for a client        *)

BeginRun(t) ==
  /\ pc[t] = "idle" /\ req[t].op = "run"
  /\ IF config[req[t].config] = None THEN Goto(t, "done") ELSE Goto(t, "lookup")
  /\ seen' = [seen EXCEPT ![t].id = config[req[t].config]]
  /\ UNCHANGED <<Data, req, number, answer>>

Lookup(t) ==
  /\ pc[t] = "lookup"
  /\ IF Live(Own(t)) THEN Load(t, Own(t)) /\ Goto(t, "read")
                     ELSE Goto(t, "done") /\ UNCHANGED seen
  /\ UNCHANGED <<Data, req, number, answer>>

(* Faulty: answers the id of the version.                                  *)
ReadId(t) ==
  /\ pc[t] = "read"
  /\ answer' = [answer EXCEPT ![t] = seen[t].current]
  /\ Goto(t, "done")
  /\ UNCHANGED <<Data, req, seen, number>>

Read(t) ==
  /\ pc[t] = "read"
  /\ \/ /\ Exists(seen[t].current)
        /\ answer' = [answer EXCEPT ![t] = version[seen[t].current].content]
        /\ Goto(t, "done")
     \/ /\ ~Exists(seen[t].current)
        /\ Goto(t, IF req[t].op = "run" THEN "done" ELSE "missing")
        /\ UNCHANGED answer
  /\ UNCHANGED <<Data, req, seen, number>>
-----------------------------------------------------------------------------
(* The end of a transaction                                                *)

NewVersion(t, n) == [version EXCEPT ![t] = [prompt |-> Own(t), number |-> n, content |-> req[t].content]]

CommitCreate(t) ==
  /\ req[t].op = "create"
  /\ prompt' = [prompt EXCEPT ![Own(t)] = [name |-> req[t].name, current |-> t, state |-> "live"]]
  /\ version' = NewVersion(t, 1)
  /\ UNCHANGED config

CommitUpdate(t) ==
  /\ req[t].op \in {"update", "post"}
  /\ prompt' = [prompt EXCEPT ![Own(t)].name = IF Renames(t) THEN req[t].name ELSE @,
                              ![Own(t)].current = IF number[t] > 0 THEN t ELSE @]
  /\ version' = IF number[t] > 0 THEN NewVersion(t, number[t]) ELSE version
  /\ UNCHANGED config

CommitDelete(t) ==
  /\ req[t].op = "delete"
  /\ prompt' = [prompt EXCEPT ![Own(t)].state = "deleted"]
  /\ version' = [v \in Versions |-> IF version[v].prompt = Own(t) THEN NoVersion ELSE version[v]]
  /\ UNCHANGED config

CommitAttach(t) ==
  /\ req[t].op = "attach"
  /\ config' = [config EXCEPT ![req[t].config] = Own(t)]
  /\ UNCHANGED <<prompt, version>>

Commit(t) ==
  /\ pc[t] = "commit"
  /\ CommitCreate(t) \/ CommitUpdate(t) \/ CommitDelete(t) \/ CommitAttach(t)
  /\ Goto(t, "done")
  /\ UNCHANGED <<req, seen, number, answer>>

(* The connection, the process or the database fails, or ends a deadlock.   *)
Fail(t) ==
  /\ pc[t] \in Running
  /\ Goto(t, "failed")
  /\ UNCHANGED <<Data, req, seen, number, answer>>

Step(t) ==
  \/ BeginCreate(t) \/ BeginLookup(t) \/ BeginAttach(t) \/ BeginRun(t)
  \/ Gone(t) \/ CheckName(t) \/ Rename(t) \/ Enter(t)
  \/ ReadContent(t) \/ TakeNumber(t) \/ InsertVersion(t) \/ SetCurrent(t)
  \/ Erase(t) \/ Refer(t) \/ Lookup(t) \/ Read(t) \/ Commit(t)

Next == \E t \in Txns : Step(t) \/ Fail(t)

Spec == Init /\ [][Next]_vars
-----------------------------------------------------------------------------
(* Properties                                                              *)

TypeOK ==
  /\ prompt \in [Ids -> Prompt]
  /\ version \in [Versions -> Version]
  /\ config \in [Configs -> Ids \cup {None}]
  /\ pc \in [Txns -> {"idle"} \cup Running \cup Ended]
  /\ req \in [Txns -> Requests]
  /\ seen \in [Txns -> Loaded]
  /\ number \in [Txns -> Nat]
  /\ answer \in [Txns -> Contents \cup {None}]

(* Whatever requests overlap, no two prompts have one name, the current     *)
(* version of a prompt exists and is its own, no version outlives its       *)
(* prompt, and no config refers to a prompt that is gone.                   *)
Integrity ==
  /\ \A i, j \in Ids : Live(i) /\ Live(j) /\ prompt[i].name = prompt[j].name => i = j
  /\ \A i \in Ids : Live(i) => version[prompt[i].current].prompt = i
  /\ \A v \in Versions : Exists(v) => Live(version[v].prompt)
  /\ \A c \in Configs : config[c] # None => Live(config[c])

(* Two updates of a prompt can take one number, but no number is skipped:   *)
(* the history of a prompt numbers its versions from 1.                     *)
NumbersWithoutGap ==
  \A i \in Ids : Live(i) => Numbers(i) = 1 .. Newest(i) /\ Newest(i) > 0

(* A model runs without the prompt of its config only if the config came to *)
(* refer to another one while the run was loading it.                       *)
RunHasPrompt ==
  \A t \in Txns :
    pc[t] = "done" /\ req[t].op = "run" /\ Own(t) # None /\ config[req[t].config] = Own(t)
      => answer[t] # None

(* After an update the prompt has the content it asked for, in a version    *)
(* numbered above all others if one was made, unless another request        *)
(* replaced the current version after the update loaded it.                 *)
Commits(t) == pc[t] = "commit" /\ pc'[t] = "done"

Replaced(t) == prompt[Own(t)].current # seen[t].current

TakesEffect(t) ==
  /\ version'[prompt'[Own(t)].current].content = req[t].content
  /\ number[t] > 0 => \A v \in VersionsOf(Own(t)) : version[v].number < number[t]

UpdateTakesEffect ==
  [][\A t \in Txns :
       Commits(t) /\ req[t].op \in {"update", "post"} /\ req[t].content # None
         /\ Live(Own(t)) /\ ~Replaced(t)
         => TakesEffect(t)]_vars
=============================================================================
