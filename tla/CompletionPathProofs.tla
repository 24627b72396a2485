------------------------- MODULE CompletionPathProofs -------------------------
(* What is proved of CompletionPath, for any number of runs, users, servers *)
(* and credentials, any pool, and any times.                                *)
EXTENDS CompletionPath, SumLemmas, SequenceTheorems, TLAPS

Finite == IsFiniteSet(held) /\ IsFiniteSet(rows)

(* A run that has begun has a config, and asks the model while it may.      *)
Begun ==
  \A r \in Callers :
    /\ pc[r] \in Running \ {"load"} => slug[r] \in Slugs
    /\ Len(sent[r]) <= RequestLimit
    /\ pc[r] \in {"load", "list", "fetch", "asking"} => Len(sent[r]) < RequestLimit
    /\ pc[r] \in {"stream", "log"} => sent[r] # <<>>
    /\ pc[r] = "stream" => req[r].stream

(* A session has a credential to apply: that of the server that is called,  *)
(* or those of a listing, before the model was asked too often.             *)
Applies ==
  \A r \in Callers :
    /\ pc[r] \in {"load", "list"} => reply[r] = Text
    /\ pc[r] \in {"apply", "token"} =>
         /\ todo[r] # {}
         /\ IF Calling(r) THEN todo[r] = {reply[r]} ELSE Len(sent[r]) < RequestLimit

(* Only a call carries a token.                                             *)
Grants == \A r \in Callers : pc[r] # "call" => grant[r] = NoGrant

(* A token dies at most MaxLatency before the time its entry counts with.   *)
Kept == \A e \in cache : e.token.key = e.key /\ e.expires <= e.token.dies + MaxLatency

Travels ==
  \A r \in Callers : exchange[r] # NoExchange =>
    /\ now <= exchange[r].since + MaxLatency
    /\ exchange[r].token.dies = exchange[r].since + exchange[r].life

IInv == TypeOK /\ Finite /\ Begun /\ Applies /\ Grants /\ Kept /\ Travels /\ ConnectionsComeBack

RunStep(r) == Step(r) \/ PoolTimeout(r) \/ Abandon(r)
-------------------------------------------------------------------------------
(* Types                                                                    *)

LEMMA StatusType ==
  ASSUME NEW r, NEW code \in {"500", "502"}
  PROVE  Status(r, code) \in {code, "broken"}
BY DEF Status

LEMMA ResolvedType ==
  ASSUME TypeOK, NEW r \in Callers
  PROVE  /\ Resolved(r) \in Slugs \cup {Absent}
         /\ req[r].kind \in Kinds /\ req[r].user \in Users
<1>1. req[r] \in Request
  BY CompletionPathAssumption DEF TypeOK
<1> QED
  BY <1>1, CompletionPathAssumption DEF Request, Resolved

LEMMA LoadedType ==
  ASSUME TypeOK, NEW r \in Callers, Refusal(r) = "none"
  PROVE  Resolved(r) \in Slugs
BY ResolvedType DEF Refusal

(* The server whose credential is applied, and its credential.              *)
LEMMA TargetType ==
  ASSUME IInv, NEW r \in Callers, pc[r] \in {"apply", "token"}
  PROVE  /\ Target(r) \in todo[r] /\ Target(r) \in Servers
         /\ CredentialId(r) # Absent => CredentialId(r) \in CredentialIds
         /\ Calling(r) => todo[r] \ {Target(r)} = {}
<1>1. todo[r] # {} /\ todo[r] \subseteq Servers
  BY DEF IInv, TypeOK, Applies
<1>2. Target(r) \in todo[r]
  BY <1>1 DEF Target
<1>3. Calling(r) => todo[r] = {reply[r]}
  BY DEF IInv, Applies
<1> QED
  BY <1>1, <1>2, <1>3, CompletionPathAssumption DEF CredentialId

(* What a credential that can be used has for its fields.                   *)
LEMMA KeyType ==
  ASSUME IInv, NEW r \in Callers, NeedsToken(r)
  PROVE  WantedKey(r) \in Key
<1> DEFINE c == CredentialId(r)
<1>1. c \in CredentialIds
  BY TargetType DEF NeedsToken
<1>2. credential[c] \in Row
  BY <1>1 DEF IInv, TypeOK, CredentialsTypeOK
<1>3. credential[c].fields \in Fields /\ {"audience", "scopes"} \subseteq FieldNames
  BY <1>2 DEF Row, FieldNames, RequiredFields, Types
<1>4. {"audience", "scopes"} = RequiredFields[credential[c].type]
  BY DEF NeedsToken, Delegated, TypeOf, RequiredFields
<1>5. Usable(c)
  BY DEF NeedsToken
<1>6. FieldsOf(c)["audience"] \notin {Absent, Blank} /\ FieldsOf(c)["scopes"] \notin {Absent, Blank}
  BY <1>4, <1>5 DEF Usable
<1>7. FieldsOf(c) = credential[c].fields
  BY <1>3, <1>6 DEF FieldsOf, NoFields
<1>8. FieldsOf(c)["audience"] \in Values /\ FieldsOf(c)["scopes"] \in Values
  BY <1>3, <1>6, <1>7 DEF Fields
<1> QED
  BY <1>8, ResolvedType, CompletionPathAssumption DEF WantedKey, Key, IInv

LEMMA MessageType ==
  ASSUME IInv, NEW r \in Callers, pc[r] = "log"
  PROVE  LastMessage(r) \in Message
<1>1. sent[r] \in Seq(TokenCounts) /\ sent[r] # <<>> /\ Len(sent[r]) <= RequestLimit
  BY DEF IInv, TypeOK, Begun
<1>2. Len(sent[r]) \in 1 .. RequestLimit /\ sent[r][Len(sent[r])] \in TokenCounts
  <2>1. Len(sent[r]) \in Nat \ {0} /\ DOMAIN sent[r] = 1 .. Len(sent[r])
    BY <1>1, EmptySeq, LenProperties
  <2>2. Len(sent[r]) \in DOMAIN sent[r]
    BY <2>1
  <2> QED
    BY <1>1, <2>1, <2>2, ElementOfSeq, CompletionPathAssumption
<1>3. Config[slug[r]].priced \in BOOLEAN
  BY CompletionPathAssumption DEF IInv, Begun, Running
<1> QED
  BY <1>2, <1>3, ResolvedType DEF LastMessage, Message, IInv
-------------------------------------------------------------------------------
(* What a step of a run leaves behind                                       *)

(* The others are where they were, and the run is somewhere it may be.      *)
Arrives(r, there) ==
  /\ there \in (Running \ {"load"}) \cup Ended /\ Goto(r, there)
  /\ UNCHANGED <<req, servers, credentialVars>>
  /\ slug' \in [Callers -> Slugs \cup {Absent}] /\ \A q \in Callers \ {r} : slug'[q] = slug[q]
  /\ tools' \in [Callers -> SUBSET Tools] /\ retries' \in [Callers -> Nat]
  /\ todo' \in [Callers -> SUBSET Servers] /\ \A q \in Callers \ {r} : todo'[q] = todo[q]
  /\ sent' = sent
  /\ grant' \in [Callers -> Token \cup {NoGrant}] /\ \A q \in Callers \ {r} : grant'[q] = grant[q]
  /\ held' = (IF there \in InSession THEN held \cup {r} ELSE held \ {r})
  /\ Cardinality(held') <= PoolSize
  /\ UsageTypeOK' /\ IsFiniteSet(rows')
  /\ TokensTypeOK' /\ Kept' /\ Travels'
  /\ there \in Running => slug'[r] \in Slugs
  /\ there \in {"list", "fetch", "asking"} => Len(sent[r]) < RequestLimit
  /\ there \in {"stream", "log"} => sent[r] # <<>>
  /\ there = "stream" => req[r].stream
  /\ there = "list" => reply[r] = Text
  /\ there \in {"apply", "token"} =>
       todo'[r] # {} /\ IF Calling(r) THEN todo'[r] = {reply[r]} ELSE Len(sent[r]) < RequestLimit
  /\ there # "call" => grant'[r] = NoGrant

LEMMA GotoMoves ==
  ASSUME TypeOK, NEW r \in Callers, NEW there, Goto(r, there)
  PROVE  /\ pc'[r] = there /\ \A q \in Callers \ {r} : pc'[q] = pc[q]
         /\ there \in Running \cup Ended => pc' \in [Callers -> Running \cup Ended]
         /\ reply' \in [Callers -> Replies] /\ \A q \in Callers \ {r} : reply'[q] = reply[q]
         /\ there \notin Ended \cup {"asking"} => reply'[r] = reply[r]
<1>1. pc' = [pc EXCEPT ![r] = there] /\ pc \in [Callers -> Running \cup Ended]
  BY DEF Goto, TypeOK
<1>2. reply' = reply \/ (reply' = [reply EXCEPT ![r] = Text] /\ there \in Ended \cup {"asking"})
  BY DEF Goto
<1>3. Text \in Replies /\ reply \in [Callers -> Replies]
  BY DEF Replies, TypeOK
<1> QED
  BY <1>1, <1>2, <1>3

LEMMA ArrivesKeeps ==
  ASSUME IInv, NEW r \in Callers, NEW there, Arrives(r, there)
  PROVE  IInv'
<1>1. there \in Running \cup Ended /\ there # "load" /\ Goto(r, there)
  BY DEF Arrives, Ended
<1>2. /\ pc'[r] = there /\ \A q \in Callers \ {r} : pc'[q] = pc[q]
      /\ pc' \in [Callers -> Running \cup Ended]
      /\ reply' \in [Callers -> Replies] /\ \A q \in Callers \ {r} : reply'[q] = reply[q]
      /\ there \notin Ended \cup {"asking"} => reply'[r] = reply[r]
  BY <1>1, GotoMoves DEF IInv
<1>3. TypeOK'
  <2>1. held' \subseteq Callers
    BY DEF Arrives, IInv, TypeOK
  <2>2. CredentialsTypeOK'
    BY DEF Arrives, IInv, TypeOK, CredentialsTypeOK, credentialVars
  <2> QED
    BY <1>2, <2>1, <2>2 DEF Arrives, IInv, TypeOK
<1>4. Finite'
  BY FS_AddElement, FS_RemoveElement DEF Arrives, IInv, Finite
<1>5. Begun'
  <2> SUFFICES ASSUME NEW q \in Callers
               PROVE  /\ pc'[q] \in Running \ {"load"} => slug'[q] \in Slugs
                      /\ Len(sent'[q]) <= RequestLimit
                      /\ pc'[q] \in {"load", "list", "fetch", "asking"} => Len(sent'[q]) < RequestLimit
                      /\ pc'[q] \in {"stream", "log"} => sent'[q] # <<>>
                      /\ pc'[q] = "stream" => req'[q].stream
    BY DEF Begun
  <2>1. CASE q = r
    BY <1>1, <1>2, <2>1 DEF Arrives, IInv, Begun
  <2>2. CASE q # r
    BY <1>2, <2>2 DEF Arrives, IInv, Begun
  <2> QED
    BY <2>1, <2>2
<1>10. Applies'
  <2> SUFFICES ASSUME NEW q \in Callers
               PROVE  /\ pc'[q] \in {"load", "list"} => reply'[q] = Text
                      /\ pc'[q] \in {"apply", "token"} =>
                           /\ todo'[q] # {}
                           /\ IF reply'[q] \in Servers THEN todo'[q] = {reply'[q]} ELSE Len(sent'[q]) < RequestLimit
    BY DEF Applies, Calling
  <2>1. CASE q = r
    <3>1. {"load", "list", "apply", "token"} \cap (Ended \cup {"asking"}) = {}
      BY DEF Ended
    <3> QED
      BY <1>1, <1>2, <2>1, <3>1 DEF Arrives, Calling
  <2>2. CASE q # r
    BY <1>2, <2>2 DEF Arrives, IInv, Applies, Calling
  <2> QED
    BY <2>1, <2>2
<1>6. Grants'
  <2> SUFFICES ASSUME NEW q \in Callers, pc'[q] # "call"
               PROVE  grant'[q] = NoGrant
    BY DEF Grants, NoGrant
  <2>1. CASE q = r
    BY <1>2, <2>1 DEF Arrives
  <2>2. CASE q # r
    BY <1>2, <2>2 DEF Arrives, IInv, Grants
  <2> QED
    BY <2>1, <2>2
<1>7. ConnectionsComeBack'
  <2>1. held = {q \in Callers : pc[q] \in InSession}
    BY DEF IInv, ConnectionsComeBack, InSession
  <2>2. held' = (IF there \in InSession THEN held \cup {r} ELSE held \ {r})
    BY DEF Arrives
  <2>3. \A q \in Callers : q \in held' <=> pc'[q] \in InSession
    BY <1>2, <2>1, <2>2
  <2>4. held' \subseteq Callers
    BY <2>1, <2>2
  <2>5. held' = {q \in Callers : pc'[q] \in InSession}
    BY <2>3, <2>4
  <2> QED
    BY <2>5 DEF ConnectionsComeBack, InSession
<1> QED
  BY <1>3, <1>4, <1>5, <1>6, <1>7, <1>10 DEF IInv, Arrives

(* A step that leaves tokens and connections alone.                         *)
Begins == {"load", "list", "fetch", "stream", "log"}

LEMMA PlainKeeps ==
  ASSUME IInv, NEW r \in Callers, NEW there \in (Running \ (Begins \cup InSession)) \cup Ended,
         pc[r] \notin InSession, Goto(r, there),
         UNCHANGED <<req, slug, tools, todo, sent, held, servers, credentialVars, tokenVars>>,
         retries' \in [Callers -> Nat],
         grant' = grant \/ grant' = [grant EXCEPT ![r] = NoGrant],
         UsageTypeOK', IsFiniteSet(rows'),
         there \in Running => slug[r] \in Slugs,
         there = "asking" => Len(sent[r]) < RequestLimit,
         there # "call" => grant'[r] = NoGrant
  PROVE  IInv'
<1>1. held' = (IF there \in InSession THEN held \cup {r} ELSE held \ {r})
  BY DEF IInv, ConnectionsComeBack, InSession, Ended
<1>2. TokensTypeOK' /\ Kept' /\ Travels'
  BY DEF IInv, TypeOK, TokensTypeOK, Kept, Travels, tokenVars
<1>3. grant' \in [Callers -> Token \cup {NoGrant}] /\ \A q \in Callers \ {r} : grant'[q] = grant[q]
  BY DEF IInv, TypeOK
<1>4. Cardinality(held') <= PoolSize /\ slug' = slug /\ tools' = tools /\ todo' = todo
  BY DEF IInv, TypeOK
<1>5. there \notin {"load", "list", "fetch", "stream", "log", "apply", "token"} /\ there \in (Running \ {"load"}) \cup Ended
  BY DEF Begins, InSession, Ended
<1>6. Arrives(r, there)
  BY <1>1, <1>2, <1>3, <1>4, <1>5 DEF Arrives, IInv, TypeOK
<1> QED
  BY <1>6, ArrivesKeeps
-------------------------------------------------------------------------------
(* The steps of a run                                                       *)

Ends == {"500", "502", "200", "404", "422", "broken", "abandoned", "interrupted"}

LEMMA Places ==
  /\ Ends \subseteq (Running \ (Begins \cup InSession)) \cup Ended
  /\ {"asking", "connect", "call", "search"} \subseteq Running \ (Begins \cup InSession)
  /\ Ends \cap (Running \cup {"call"}) = {}
BY DEF Running, Ended, Begins, InSession, Ends

LEMMA Same ==
  ASSUME IInv
  PROVE  /\ slug \in [Callers -> Slugs \cup {Absent}] /\ tools \in [Callers -> SUBSET Tools]
         /\ UsageTypeOK /\ IsFiniteSet(rows)
         /\ UNCHANGED usageVars => UsageTypeOK' /\ IsFiniteSet(rows')
         /\ \A r \in Callers : pc[r] # "call" => grant[r] = NoGrant
         /\ \A r \in Callers : pc[r] \in Running \ {"load"} => slug[r] \in Slugs
BY DEF IInv, TypeOK, Finite, UsageTypeOK, usageVars, Grants, Begun

LEMMA EnqueueTypes ==
  ASSUME IInv, NEW m \in Message, Enqueue(m)
  PROVE  UsageTypeOK' /\ IsFiniteSet(rows')
BY DEF IInv, TypeOK, Finite, UsageTypeOK, Enqueue

(* The run ends, with a status it had not had to earn.                      *)
LEMMA EndKeeps ==
  ASSUME IInv, NEW r \in Callers, NEW there \in Ends,
         pc[r] \notin InSession, Goto(r, there),
         UNCHANGED <<req, slug, tools, todo, sent, held, servers, credentialVars, tokenVars>>,
         retries' \in [Callers -> Nat],
         (grant' = grant /\ pc[r] # "call") \/ grant' = [grant EXCEPT ![r] = NoGrant],
         UsageTypeOK', IsFiniteSet(rows')
  PROVE  IInv'
<1>1. grant'[r] = NoGrant
  BY Same DEF IInv, TypeOK
<1>2. there \in (Running \ (Begins \cup InSession)) \cup Ended /\ there \notin Running /\ there # "call" /\ there # "asking"
  BY Places DEF Running
<1> QED
  BY <1>1, <1>2, Same, PlainKeeps

LEMMA AskAgainKeeps ==
  ASSUME IInv, NEW r \in Callers, pc[r] \in {"log", "connect", "search", "call"}, AskAgain(r),
         UNCHANGED <<req, slug, tools, todo, sent, held, servers, credentialVars, tokenVars>>,
         UsageTypeOK', IsFiniteSet(rows'),
         retries' \in [Callers -> Nat],
         (grant' = grant /\ pc[r] # "call") \/ grant' = [grant EXCEPT ![r] = NoGrant]
  PROVE  IInv'
<1>1. pc[r] \notin InSession /\ pc[r] \in Running \ {"load"}
  BY DEF InSession, Running
<1>2. CASE Len(sent[r]) < RequestLimit
  <2>1. Goto(r, "asking")
    BY <1>2 DEF AskAgain
  <2>2. grant'[r] = NoGrant
    BY Same DEF IInv, TypeOK
  <2>3. "asking" \in (Running \ (Begins \cup InSession)) \cup Ended
    BY Places
  <2> QED
    BY <1>1, <1>2, <2>1, <2>2, <2>3, Same, PlainKeeps
<1>3. CASE ~(Len(sent[r]) < RequestLimit)
  <2>1. PICK there \in {"500", "broken"} : Goto(r, there)
    BY <1>3, StatusType DEF AskAgain
  <2>2. there \in Ends
    BY DEF Ends
  <2> QED
    BY <1>1, <2>1, <2>2, EndKeeps
<1> QED
  BY <1>2, <1>3

LEMMA LoadKeeps ==
  ASSUME IInv, NEW r \in Callers, Load(r)
  PROVE  IInv'
<1>1. pc[r] = "load" /\ pc[r] \notin InSession /\ retries' = retries
  BY DEF Load, InSession
<1>2. CASE Refusal(r) = "none"
  <2>1. PICK there \in {"list", "asking"} : Goto(r, there)
    BY <1>2 DEF Load
  <2>2. slug' = [slug EXCEPT ![r] = Resolved(r)] /\ Resolved(r) \in Slugs
    BY <1>2, LoadedType DEF Load, IInv
  <2>3. Len(sent[r]) < RequestLimit /\ reply[r] = Text
    BY <1>1 DEF IInv, Begun, Applies
  <2>4. UNCHANGED <<req, tools, todo, retries, sent, grant, held, servers, credentialVars, tokenVars, usageVars>>
    BY <1>2 DEF Load
  <2>5. held' = held \ {r} /\ Cardinality(held') <= PoolSize
    BY <1>1, <2>4 DEF IInv, TypeOK, ConnectionsComeBack
  <2>6. TokensTypeOK' /\ Kept' /\ Travels'
    BY <2>4 DEF IInv, TypeOK, TokensTypeOK, Kept, Travels, tokenVars
  <2>7. there \in (Running \ {"load"}) \cup Ended /\ there \notin InSession
    BY DEF Running, InSession
  <2>8. grant[r] = NoGrant
    BY <1>1, Same
  <2>9. Arrives(r, there)
    BY <2>1, <2>2, <2>3, <2>4, <2>5, <2>6, <2>7, <2>8, Same DEF Arrives, IInv, TypeOK
  <2> QED
    BY <2>9, ArrivesKeeps
<1>3. CASE Refusal(r) # "none"
  <2>1. Goto(r, Refusal(r)) /\ Refusal(r) \in {"404", "422"}
    BY <1>3 DEF Load, Refusal
  <2>2. UNCHANGED <<req, slug, tools, todo, retries, sent, grant, held, servers, credentialVars, tokenVars, usageVars>>
    BY <1>3 DEF Load
  <2>3. Refusal(r) \in Ends /\ retries' \in [Callers -> Nat]
    BY <1>1, <2>1 DEF Ends, IInv, TypeOK
  <2> QED
    BY <1>1, <2>1, <2>2, <2>3, Same, EndKeeps
<1> QED
  BY <1>2, <1>3

(* A run opens a session when a connection is free.                         *)
LEMMA OpenKeeps ==
  ASSUME IInv, NEW r \in Callers, NEW S \in SUBSET Servers, OpenSession(r, S), S # {},
         pc[r] \in {"list", "connect"}, HasConnection, pc[r] = "connect" => S = {reply[r]},
         UNCHANGED <<req, slug, retries, sent, grant, servers, credentialVars, tokenVars, usageVars>>,
         tools' \in [Callers -> SUBSET Tools]
  PROVE  IInv'
<1>1. Goto(r, "apply") /\ todo' = [todo EXCEPT ![r] = S] /\ held' = held \cup {r}
  BY DEF OpenSession
<1>2. Cardinality(held') <= PoolSize
  <2>1. r \notin held /\ IsFiniteSet(held)
    BY DEF IInv, ConnectionsComeBack, Finite, InSession
  <2>2. Cardinality(held') = Cardinality(held) + 1 /\ Cardinality(held) \in Nat
    BY <1>1, <2>1, FS_AddElement, FS_CardinalityType
  <2>3. Cardinality(held) < PoolSize /\ PoolSize \in Nat
    BY CompletionPathAssumption DEF HasConnection
  <2>4. \A m, n \in Nat : m < n => m + 1 <= n
    OBVIOUS
  <2> QED
    BY <2>2, <2>3, <2>4
<1>3. todo' \in [Callers -> SUBSET Servers] /\ todo'[r] = S /\ \A q \in Callers \ {r} : todo'[q] = todo[q]
  BY <1>1 DEF IInv, TypeOK
<1>4. IF Calling(r) THEN S = {reply[r]} ELSE Len(sent[r]) < RequestLimit
  <2>1. CASE pc[r] = "list"
    <3>1. Len(sent[r]) < RequestLimit /\ reply[r] = Text
      BY <2>1 DEF IInv, Begun, Applies
    <3> QED
      BY <3>1, CompletionPathAssumption DEF Calling
  <2>2. CASE pc[r] = "connect"
    BY <2>2 DEF Calling
  <2> QED
    BY <2>1, <2>2
<1>5. TokensTypeOK' /\ Kept' /\ Travels'
  BY DEF IInv, TypeOK, TokensTypeOK, Kept, Travels, tokenVars
<1>6. "apply" \in (Running \ {"load"}) \cup Ended /\ "apply" \in InSession /\ pc[r] \in Running \ {"load"} /\ pc[r] # "call"
  BY DEF Running, InSession
<1>7. Arrives(r, "apply")
  BY <1>1, <1>2, <1>3, <1>4, <1>5, <1>6, Same DEF Arrives, IInv, TypeOK
<1> QED
  BY <1>7, ArrivesKeeps

LEMMA ListKeeps ==
  ASSUME IInv, NEW r \in Callers, ListTools(r)
  PROVE  IInv'
<1>1. /\ pc[r] = "list" /\ pc[r] \in Running \ {"load"} /\ HasConnection
      /\ UNCHANGED <<req, slug, retries, sent, grant, servers, credentialVars, tokenVars, usageVars>>
  BY DEF ListTools, Running
<1>2. tools' \in [Callers -> SUBSET Tools]
  BY Same DEF ListTools, Tools
<1>3. CASE AttachedServers(r) # {}
  <2>1. AttachedServers(r) \in SUBSET Servers
    BY DEF AttachedServers, LiveServers
  <2> QED
    BY <1>1, <1>2, <1>3, <2>1, OpenKeeps DEF ListTools
<1>4. CASE AttachedServers(r) = {}
  <2>1. Goto(r, "fetch") /\ UNCHANGED <<todo, held>>
    BY <1>4 DEF ListTools
  <2>2. held' = held \ {r} /\ Cardinality(held') <= PoolSize
    BY <1>1, <2>1 DEF IInv, TypeOK, ConnectionsComeBack, InSession
  <2>3. TokensTypeOK' /\ Kept' /\ Travels'
    BY <1>1 DEF IInv, TypeOK, TokensTypeOK, Kept, Travels, tokenVars
  <2>4. "fetch" \in (Running \ {"load"}) \cup Ended /\ "fetch" \notin InSession
    BY DEF Running, InSession
  <2>5. Len(sent[r]) < RequestLimit
    BY <1>1 DEF IInv, Begun
  <2>6. Arrives(r, "fetch")
    BY <1>1, <1>2, <2>1, <2>2, <2>3, <2>4, <2>5, Same DEF Arrives, IInv, TypeOK
  <2> QED
    BY <2>6, ArrivesKeeps
<1> QED
  BY <1>3, <1>4

LEMMA ConnectKeeps ==
  ASSUME IInv, NEW r \in Callers, Connect(r)
  PROVE  IInv'
<1>1. /\ pc[r] = "connect" /\ HasConnection
      /\ UNCHANGED <<req, slug, tools, retries, sent, grant, servers, credentialVars, tokenVars, usageVars>>
  BY DEF Connect
<1>2. CASE reply[r] \in LiveServers
  <2>1. {reply[r]} \in SUBSET Servers /\ {reply[r]} # {}
    BY <1>2 DEF LiveServers
  <2>2. OpenSession(r, {reply[r]})
    BY <1>2 DEF Connect
  <2>3. tools' \in [Callers -> SUBSET Tools]
    BY <1>1, Same
  <2> QED
    BY <1>1, <2>1, <2>2, <2>3, OpenKeeps
<1>3. CASE reply[r] \notin LiveServers
  <2>1. AskAgain(r) /\ UNCHANGED <<todo, held>>
    BY <1>3 DEF Connect
  <2>2. retries' \in [Callers -> Nat]
    BY <1>1 DEF IInv, TypeOK
  <2> QED
    BY <1>1, <2>1, <2>2, Same, AskAgainKeeps
<1> QED
  BY <1>2, <1>3

LEMMA FetchKeeps ==
  ASSUME IInv, NEW r \in Callers, FetchTools(r)
  PROVE  IInv'
<1>1. /\ pc[r] = "fetch" /\ pc[r] \in Running \ {"load"} /\ Goto(r, "asking")
      /\ UNCHANGED <<req, slug, todo, retries, sent, grant, held, servers, credentialVars, tokenVars, usageVars>>
  BY DEF FetchTools, Running
<1>2. tools' \in [Callers -> SUBSET Tools]
  <2>1. PICK failed \in SUBSET Servers : tools' = [tools EXCEPT ![r] = @ \ failed]
    BY DEF FetchTools
  <2>2. tools[r] \ failed \in SUBSET Tools
    BY Same
  <2> QED
    BY <2>1, <2>2, Same
<1>3. held' = held \ {r} /\ Cardinality(held') <= PoolSize
  BY <1>1 DEF IInv, TypeOK, ConnectionsComeBack, InSession
<1>4. TokensTypeOK' /\ Kept' /\ Travels'
  BY <1>1 DEF IInv, TypeOK, TokensTypeOK, Kept, Travels, tokenVars
<1>5. "asking" \in (Running \ {"load"}) \cup Ended /\ "asking" \notin InSession /\ Len(sent[r]) < RequestLimit
  BY <1>1 DEF Running, InSession, IInv, Begun
<1>6. Arrives(r, "asking")
  BY <1>1, <1>2, <1>3, <1>4, <1>5, Same DEF Arrives, IInv, TypeOK
<1> QED
  BY <1>6, ArrivesKeeps

LEMMA AskKeeps ==
  ASSUME IInv, NEW r \in Callers, ProviderAnswers(r)
  PROVE  IInv'
<1>1. PICK answer \in MayReply(r), n \in TokenCounts :
        reply' = [reply EXCEPT ![r] = answer] /\ sent' = [sent EXCEPT ![r] = Append(@, n)]
  BY DEF ProviderAnswers
<1>2. /\ pc[r] = "asking" /\ pc' = [pc EXCEPT ![r] = IF req[r].stream THEN "stream" ELSE "log"]
      /\ UNCHANGED <<req, slug, tools, todo, retries, grant, held, servers, credentialVars, tokenVars, usageVars>>
  BY DEF ProviderAnswers
<1>3. sent[r] \in Seq(TokenCounts) /\ Len(sent[r]) \in Nat /\ Len(sent[r]) < RequestLimit /\ RequestLimit \in Nat
  BY <1>2, UsageLogAssumption, LenProperties DEF IInv, TypeOK, Begun
<1>4. sent' \in [Callers -> Seq(TokenCounts)] /\ Len(sent'[r]) = Len(sent[r]) + 1 /\ sent'[r] # <<>>
  <2>1. sent'[r] = Append(sent[r], n)
    BY <1>1 DEF IInv, TypeOK
  <2>2. /\ Append(sent[r], n) \in Seq(TokenCounts) /\ Append(sent[r], n) # <<>>
        /\ Len(Append(sent[r], n)) = Len(sent[r]) + 1
    BY <1>3, AppendProperties
  <2>3. sent' \in [Callers -> Seq(TokenCounts)]
    BY <1>1, <2>2 DEF IInv, TypeOK
  <2> QED
    BY <2>1, <2>2, <2>3
<1>5. TypeOK'
  <2>1. answer \in Replies
    BY DEF MayReply, Replies, IInv, TypeOK
  <2>2. CredentialsTypeOK' /\ TokensTypeOK' /\ UsageTypeOK'
    BY <1>2 DEF IInv, TypeOK, CredentialsTypeOK, TokensTypeOK, UsageTypeOK, credentialVars, tokenVars, usageVars
  <2>3. pc' \in [Callers -> Running \cup Ended]
    BY <1>2 DEF Running, IInv, TypeOK
  <2> QED
    BY <1>1, <1>4, <2>1, <2>2, <2>3 DEF ProviderAnswers, IInv, TypeOK
<1>10. /\ pc'[r] \in {"stream", "log"} /\ (pc'[r] = "stream" => req[r].stream)
       /\ \A q \in Callers \ {r} : pc'[q] = pc[q] /\ sent'[q] = sent[q] /\ reply'[q] = reply[q]
  BY <1>1, <1>2 DEF IInv, TypeOK
<1>6. Begun'
  <2> SUFFICES ASSUME NEW q \in Callers
               PROVE  /\ pc'[q] \in Running \ {"load"} => slug'[q] \in Slugs
                      /\ Len(sent'[q]) <= RequestLimit
                      /\ pc'[q] \in {"load", "list", "fetch", "asking"} => Len(sent'[q]) < RequestLimit
                      /\ pc'[q] \in {"stream", "log"} => sent'[q] # <<>>
                      /\ pc'[q] = "stream" => req'[q].stream
    BY DEF Begun
  <2>1. CASE q = r
    <3>1. slug'[r] \in Slugs
      BY <1>2 DEF IInv, Begun, Running
    <3> QED
      BY <1>2, <1>3, <1>4, <1>10, <2>1, <3>1
  <2>2. CASE q # r
    BY <1>2, <1>10, <2>2 DEF IInv, Begun
  <2> QED
    BY <2>1, <2>2
<1>7. Finite' /\ Kept' /\ Travels'
  BY <1>2 DEF IInv, Finite, Kept, Travels, tokenVars, usageVars
<1>8. Grants'
  BY <1>2, <1>10 DEF IInv, TypeOK, Grants, NoGrant
<1>9. ConnectionsComeBack'
  BY <1>2, <1>10 DEF IInv, TypeOK, ConnectionsComeBack, InSession
<1>11. Applies'
  <2> SUFFICES ASSUME NEW q \in Callers
               PROVE  /\ pc'[q] \in {"load", "list"} => reply'[q] = Text
                      /\ pc'[q] \in {"apply", "token"} =>
                           /\ todo'[q] # {}
                           /\ IF reply'[q] \in Servers THEN todo'[q] = {reply'[q]} ELSE Len(sent'[q]) < RequestLimit
    BY DEF Applies, Calling
  <2>1. CASE q = r
    BY <1>10, <2>1
  <2>2. CASE q # r
    BY <1>2, <1>10, <2>2 DEF IInv, Applies, Calling
  <2> QED
    BY <2>1, <2>2
<1> QED
  BY <1>5, <1>6, <1>7, <1>8, <1>9, <1>11 DEF IInv

LEMMA StreamEndsKeeps ==
  ASSUME IInv, NEW r \in Callers, StreamEnds(r)
  PROVE  IInv'
<1>1. /\ pc[r] = "stream" /\ pc[r] \in Running \ {"load"} /\ Goto(r, "log")
      /\ UNCHANGED <<req, slug, tools, todo, retries, sent, grant, held, servers, credentialVars, tokenVars, usageVars>>
  BY DEF StreamEnds, Running
<1>2. held' = held \ {r} /\ Cardinality(held') <= PoolSize
  BY <1>1 DEF IInv, TypeOK, ConnectionsComeBack, InSession
<1>3. TokensTypeOK' /\ Kept' /\ Travels'
  BY <1>1 DEF IInv, TypeOK, TokensTypeOK, Kept, Travels, tokenVars
<1>4. "log" \in (Running \ {"load"}) \cup Ended /\ "log" \notin InSession /\ sent[r] # <<>>
  BY <1>1 DEF Running, InSession, IInv, Begun
<1>5. Arrives(r, "log")
  BY <1>1, <1>2, <1>3, <1>4, Same DEF Arrives, IInv, TypeOK
<1> QED
  BY <1>5, ArrivesKeeps

LEMMA LogKeeps ==
  ASSUME IInv, NEW r \in Callers, Log(r)
  PROVE  IInv'
<1>1. pc[r] = "log" /\ pc[r] \notin InSession /\ pc[r] \in Running \ {"load"} /\ pc[r] # "call"
  BY DEF Log, InSession, Running
<1>2. UNCHANGED <<req, slug, tools, todo, sent, grant, held, servers, credentialVars, tokenVars>>
  BY DEF Log
<1>3. UsageTypeOK' /\ IsFiniteSet(rows')
  BY <1>1, MessageType, EnqueueTypes, Same DEF Log, usageVars
<1>4. retries' \in [Callers -> Nat]
  <2>1. retries \in [Callers -> Nat] /\ retries[r] + 1 \in Nat
    BY DEF IInv, TypeOK
  <2> QED
    BY <2>1 DEF Log, AfterLog
<1>5. CASE AfterLog(r)
  <2>1. AskAgain(r) \/ \E there \in {"200", "502", "broken", "search", "connect"} : Goto(r, there)
    BY <1>5, StatusType DEF AfterLog
  <2>2. CASE AskAgain(r)
    BY <1>1, <1>2, <1>3, <1>4, <2>2, AskAgainKeeps
  <2>3. ASSUME NEW there \in {"200", "502", "broken"}, Goto(r, there)
        PROVE  IInv'
    <3>1. there \in Ends
      BY DEF Ends
    <3> QED
      BY <1>1, <1>2, <1>3, <1>4, <2>3, <3>1, EndKeeps
  <2>4. ASSUME NEW there \in {"search", "connect"}, Goto(r, there)
        PROVE  IInv'
    <3>1. there \in (Running \ (Begins \cup InSession)) \cup Ended /\ there # "asking"
      BY Places
    <3>2. grant' = grant /\ grant[r] = NoGrant /\ slug[r] \in Slugs
      BY <1>1, <1>2, Same
    <3> QED
      BY <1>1, <1>2, <1>3, <1>4, <2>4, <3>1, <3>2, PlainKeeps
  <2> QED
    BY <2>1, <2>2, <2>3, <2>4
<1>6. CASE Goto(r, Status(r, "500"))
  <2>1. PICK there \in {"500", "broken"} : Goto(r, there)
    BY <1>6, StatusType
  <2>2. there \in Ends
    BY DEF Ends
  <2> QED
    BY <1>1, <1>2, <1>3, <1>4, <2>1, <2>2, EndKeeps
<1> QED
  BY <1>5, <1>6 DEF Log

LEMMA HoldingGivesBack ==
  ASSUME IInv, NEW r \in Callers
  PROVE  Cardinality(held \ {r}) <= PoolSize /\ Cardinality(held) <= PoolSize
<1>1. IsFiniteSet(held) /\ Cardinality(held) <= PoolSize
  BY DEF IInv, TypeOK, Finite
<1>2. Cardinality(held \ {r}) <= Cardinality(held) /\ Cardinality(held \ {r}) \in Nat /\ Cardinality(held) \in Nat
  BY <1>1, FS_Subset, FS_CardinalityType
<1>3. PoolSize \in Nat
  BY CompletionPathAssumption
<1>4. \A l, m, n \in Nat : l <= m /\ m <= n => l <= n
  OBVIOUS
<1> QED
  BY <1>1, <1>2, <1>3, <1>4

LEMMA EntryHolds ==
  ASSUME IInv, NEW r \in Callers, exchange[r] # NoExchange
  PROVE  /\ NewEntry(exchange[r]) \in Entry
         /\ NewEntry(exchange[r]).token.key = NewEntry(exchange[r]).key
         /\ NewEntry(exchange[r]).expires <= NewEntry(exchange[r]).token.dies + MaxLatency
<1> DEFINE x == exchange[r]
<1>1. x \in Exchange /\ now \in Nat /\ now <= x.since + MaxLatency /\ x.token.dies = x.since + x.life
  BY DEF IInv, TypeOK, TokensTypeOK, Travels
<1>2. x.token \in Token /\ x.token.key \in Key /\ x.life \in Nat /\ x.since \in Nat /\ MaxLatency \in Nat /\ CacheTTL \in Nat
  BY <1>1, DelegatedTokensAssumption DEF Exchange, Token
<1>3. Smallest(x.life, CacheTTL) \in Nat
  BY <1>2 DEF Smallest
<1>4. Largest(1, Smallest(x.life, CacheTTL)) \in Nat
  BY <1>3 DEF Largest
<1>5. now + x.life <= x.token.dies + MaxLatency /\ now + x.life \in Nat
  BY <1>1, <1>2
<1> HIDE DEF x
<1>6. now + Largest(1, Smallest(x.life, CacheTTL)) \in Nat
  BY <1>1, <1>4
<1>7. NewEntry(x) \in Entry /\ NewEntry(x).token.key = NewEntry(x).key /\ NewEntry(x).expires <= NewEntry(x).token.dies + MaxLatency
  BY <1>2, <1>5, <1>6 DEF NewEntry, Entry
<1> QED
  BY <1>7 DEF x

(* A server's credential is dealt with: the session goes on or ends.        *)
LEMMA DoneKeeps ==
  ASSUME IInv, NEW r \in Callers, NEW headers \in BOOLEAN, Done(r, headers),
         pc[r] \in {"apply", "token"},
         TokensTypeOK', Kept', Travels',
         grant' \in [Callers -> Token \cup {NoGrant}], \A q \in Callers \ {r} : grant'[q] = grant[q],
         ~Calling(r) \/ ~headers => grant' = grant
  PROVE  IInv'
<1> DEFINE left == todo[r] \ {Target(r)}
<1>1. /\ todo' = [todo EXCEPT ![r] = left]
      /\ held' = IF left = {} THEN held \ {r} ELSE held
      /\ UNCHANGED <<req, slug, retries, sent, servers, credentialVars, usageVars>>
  BY DEF Done
<1>2. Target(r) \in Servers /\ left \in SUBSET Servers /\ (Calling(r) => left = {})
  BY TargetType DEF IInv, TypeOK
<1>3. tools' \in [Callers -> SUBSET Tools]
  <2>1. tools[r] \cup {Target(r)} \in SUBSET Tools
    BY <1>2, Same DEF Tools
  <2> QED
    BY <2>1, Same DEF Done
<1>4. /\ todo' \in [Callers -> SUBSET Servers] /\ todo'[r] = left
      /\ \A q \in Callers \ {r} : todo'[q] = todo[q]
  BY <1>1, <1>2 DEF IInv, TypeOK
<1> HIDE DEF left
<1>5. pc[r] \in Running \ {"load"} /\ grant[r] = NoGrant /\ slug[r] \in Slugs /\ r \in held
  BY Same DEF Running, IInv, ConnectionsComeBack, InSession
<1>6. CASE left # {}
  <2>1. Goto(r, "apply") /\ ~Calling(r)
    BY <1>2, <1>6 DEF Done, left
  <2>2. "apply" \in (Running \ {"load"}) \cup Ended /\ "apply" \in InSession
    BY DEF Running, InSession
  <2>3. held' = held \cup {r} /\ Cardinality(held') <= PoolSize
    BY <1>1, <1>5, <1>6 DEF IInv, TypeOK
  <2>4. Len(sent[r]) < RequestLimit
    BY <2>1 DEF IInv, Applies
  <2>5. Arrives(r, "apply")
    BY <1>1, <1>3, <1>4, <1>5, <1>6, <2>1, <2>2, <2>3, <2>4, Same DEF Arrives, IInv, TypeOK
  <2> QED
    BY <2>5, ArrivesKeeps
<1>7. CASE left = {}
  <2>1. held' = held \ {r} /\ Cardinality(held') <= PoolSize
    BY <1>1, <1>7, HoldingGivesBack
  <2>2. CASE ~Calling(r)
    <3>1. Goto(r, "fetch") /\ Len(sent[r]) < RequestLimit
      BY <1>7, <2>2 DEF Done, left, IInv, Applies
    <3>2. "fetch" \in (Running \ {"load"}) \cup Ended /\ "fetch" \notin InSession
      BY DEF Running, InSession
    <3>3. Arrives(r, "fetch")
      BY <1>1, <1>3, <1>4, <1>5, <2>1, <2>2, <3>1, <3>2, Same DEF Arrives, IInv, TypeOK
    <3> QED
      BY <3>3, ArrivesKeeps
  <2>3. CASE Calling(r) /\ headers
    <3>1. Goto(r, "call")
      BY <1>7, <2>3 DEF Done, left
    <3>2. "call" \in (Running \ {"load"}) \cup Ended /\ "call" \notin InSession
      BY DEF Running, InSession
    <3>3. Arrives(r, "call")
      BY <1>1, <1>3, <1>4, <1>5, <2>1, <3>1, <3>2, Same DEF Arrives, IInv, TypeOK
    <3> QED
      BY <3>3, ArrivesKeeps
  <2>4. CASE Calling(r) /\ ~headers
    <3>1. PICK there \in {"500", "broken"} : Goto(r, there)
      BY <1>7, <2>4, StatusType DEF Done, left
    <3>2. there \in Ended /\ there \notin Running /\ there \notin InSession
      BY DEF Ended, Running, InSession
    <3>3. there \notin {"list", "fetch", "asking", "stream", "log", "apply", "token", "call", "load"}
      OBVIOUS
    <3>4. Arrives(r, there)
      BY <1>1, <1>3, <1>4, <1>5, <2>1, <2>4, <3>1, <3>2, <3>3, Same DEF Arrives, IInv, TypeOK
    <3> QED
      BY <3>4, ArrivesKeeps
  <2> QED
    BY <2>2, <2>3, <2>4
<1> QED
  BY <1>6, <1>7

LEMMA StaticKeeps ==
  ASSUME IInv, NEW r \in Callers, UseStatic(r) \/ CredentialFails(r)
  PROVE  IInv'
<1>1. /\ pc[r] \in {"apply", "token"} /\ UNCHANGED <<grant, tokenVars>>
      /\ \E headers \in BOOLEAN : Done(r, headers)
  BY DEF UseStatic, CredentialFails
<1>2. TokensTypeOK' /\ Kept' /\ Travels'
  BY <1>1 DEF IInv, TypeOK, TokensTypeOK, Kept, Travels, tokenVars
<1>3. grant' \in [Callers -> Token \cup {NoGrant}] /\ \A q \in Callers \ {r} : grant'[q] = grant[q]
  BY <1>1 DEF IInv, TypeOK
<1> QED
  BY <1>1, <1>2, <1>3, DoneKeeps

LEMMA CarryTypes ==
  ASSUME IInv, NEW r \in Callers, NEW token \in Token, Carry(r, token)
  PROVE  /\ grant' \in [Callers -> Token \cup {NoGrant}] /\ \A q \in Callers \ {r} : grant'[q] = grant[q]
         /\ ~Calling(r) => grant' = grant
BY DEF Carry, IInv, TypeOK

LEMMA CachedKeeps ==
  ASSUME IInv, NEW r \in Callers, UseCachedToken(r)
  PROVE  IInv'
<1>1. pc[r] \in {"apply", "token"} /\ UNCHANGED tokenVars /\ Done(r, TRUE)
  BY DEF UseCachedToken, NeedsToken
<1>2. TokensTypeOK' /\ Kept' /\ Travels'
  BY <1>1 DEF IInv, TypeOK, TokensTypeOK, Kept, Travels, tokenVars
<1>3. PICK e \in Cached(WantedKey(r)) : Carry(r, e.token)
  BY DEF UseCachedToken
<1>4. e.token \in Token
  BY DEF Cached, IInv, TypeOK, TokensTypeOK, Entry
<1> QED
  BY <1>1, <1>2, <1>3, <1>4, CarryTypes, DoneKeeps

LEMMA KeepTokenKeeps ==
  ASSUME IInv, NEW r \in Callers, exchange[r] # NoExchange, KeepToken(r)
  PROVE  TokensTypeOK' /\ Kept' /\ Travels' /\ exchange[r].token \in Token
<1> DEFINE entry == NewEntry(exchange[r])
<1>1. entry \in Entry /\ entry.token.key = entry.key /\ entry.expires <= entry.token.dies + MaxLatency
  BY EntryHolds
<1>2. cache' \subseteq cache \cup {entry} /\ now' = now /\ exchange' = [exchange EXCEPT ![r] = NoExchange]
  BY DEF KeepToken
<1> HIDE DEF entry
<1>3. TokensTypeOK'
  BY <1>1, <1>2 DEF IInv, TypeOK, TokensTypeOK
<1>4. Kept'
  BY <1>1, <1>2 DEF IInv, Kept
<1>5. Travels'
  BY <1>2 DEF IInv, TypeOK, TokensTypeOK, Travels
<1>6. exchange[r].token \in Token
  BY DEF IInv, TypeOK, TokensTypeOK, Exchange
<1> QED
  BY <1>3, <1>4, <1>5, <1>6

LEMMA ArrivalKeeps ==
  ASSUME IInv, NEW r \in Callers, TokenArrives(r)
  PROVE  IInv'
<1>1. pc[r] \in {"apply", "token"} /\ Done(r, TRUE)
  BY DEF TokenArrives
<1>2. CASE exchange[r] # NoExchange
  BY <1>1, <1>2, KeepTokenKeeps, CarryTypes, DoneKeeps DEF TokenArrives
<1>3. CASE exchange[r] = NoExchange
  <2>1. UNCHANGED <<grant, tokenVars>>
    BY <1>3 DEF TokenArrives
  <2>2. TokensTypeOK' /\ Kept' /\ Travels'
    BY <2>1 DEF IInv, TypeOK, TokensTypeOK, Kept, Travels, tokenVars
  <2>3. grant' \in [Callers -> Token \cup {NoGrant}] /\ \A q \in Callers \ {r} : grant'[q] = grant[q]
    BY <2>1 DEF IInv, TypeOK
  <2> QED
    BY <1>1, <2>1, <2>2, <2>3, DoneKeeps
<1> QED
  BY <1>2, <1>3

LEMMA TokenFailsKeeps ==
  ASSUME IInv, NEW r \in Callers, TokenFails(r)
  PROVE  IInv'
<1>1. /\ pc[r] \in {"apply", "token"} /\ Done(r, FALSE) /\ grant' = grant
      /\ now' = now /\ cache' = cache /\ exchange' = [exchange EXCEPT ![r] = NoExchange]
  BY DEF TokenFails, LoseToken
<1>2. TokensTypeOK' /\ Kept' /\ Travels'
  BY <1>1 DEF IInv, TypeOK, TokensTypeOK, Kept, Travels
<1>3. grant' \in [Callers -> Token \cup {NoGrant}] /\ \A q \in Callers \ {r} : grant'[q] = grant[q]
  BY <1>1 DEF IInv, TypeOK
<1> QED
  BY <1>1, <1>2, <1>3, DoneKeeps

(* The session stays open while the run waits for a token.                  *)
LEMMA WaitKeeps ==
  ASSUME IInv, NEW r \in Callers, pc[r] = "apply", Goto(r, "token"),
         UNCHANGED <<req, slug, tools, todo, retries, sent, grant, held, servers, credentialVars, usageVars>>,
         TokensTypeOK', Kept', Travels'
  PROVE  IInv'
<1>1. pc[r] \in Running \ {"load"} /\ "token" \in (Running \ {"load"}) \cup Ended /\ "token" \in InSession
  BY DEF Running, InSession
<1>2. held' = held \cup {r} /\ Cardinality(held') <= PoolSize
  BY DEF IInv, TypeOK, ConnectionsComeBack, InSession
<1>3. todo'[r] # {} /\ IF Calling(r) THEN todo'[r] = {reply[r]} ELSE Len(sent[r]) < RequestLimit
  BY DEF IInv, Applies
<1>4. Arrives(r, "token")
  BY <1>1, <1>2, <1>3, Same DEF Arrives, IInv, TypeOK
<1> QED
  BY <1>4, ArrivesKeeps

LEMMA BeginExchangeKeeps ==
  ASSUME IInv, NEW r \in Callers, BeginExchange(r)
  PROVE  IInv'
<1>1. /\ pc[r] = "apply" /\ Goto(r, "token")
      /\ UNCHANGED <<req, slug, tools, todo, retries, sent, grant, held, servers, credentialVars, usageVars>>
  BY DEF BeginExchange, NeedsToken
<1>2. WantedKey(r) \in Key
  BY KeyType DEF BeginExchange
<1>3. PICK life \in Lifetimes :
        exchange' = [exchange EXCEPT ![r] =
          [token |-> [key |-> WantedKey(r), dies |-> now + life], life |-> life, since |-> now]]
  BY DEF BeginExchange, AskToken
<1>4. now' = now /\ cache' = cache /\ now \in Nat /\ life \in Nat
  BY DelegatedTokensAssumption DEF BeginExchange, AskToken, IInv, TypeOK, TokensTypeOK
<1>5. TokensTypeOK'
  BY <1>2, <1>3, <1>4 DEF IInv, TypeOK, TokensTypeOK, Exchange, Token
<1>6. Kept'
  BY <1>4 DEF IInv, Kept
<1>7. Travels'
  BY <1>3, <1>4, DelegatedTokensAssumption DEF IInv, TypeOK, TokensTypeOK, Travels
<1> QED
  BY <1>1, <1>5, <1>6, <1>7, WaitKeeps

LEMMA BeginM2MKeeps ==
  ASSUME IInv, NEW r \in Callers, BeginM2M(r)
  PROVE  IInv'
<1>1. /\ pc[r] = "apply" /\ Goto(r, "token")
      /\ UNCHANGED <<req, slug, tools, todo, retries, sent, grant, held, servers, credentialVars, tokenVars, usageVars>>
  BY DEF BeginM2M
<1>2. TokensTypeOK' /\ Kept' /\ Travels'
  BY <1>1 DEF IInv, TypeOK, TokensTypeOK, Kept, Travels, tokenVars
<1> QED
  BY <1>1, <1>2, WaitKeeps

LEMMA SearchKeeps ==
  ASSUME IInv, NEW r \in Callers, BeginSearch(r)
  PROVE  IInv'
<1>1. pc[r] = "search" /\ pc[r] \in Running \ {"load"} /\ HasConnection
  BY DEF BeginSearch, Running
<1>2. /\ UNCHANGED <<req, slug, tools, todo, retries, sent, grant, servers, credentialVars, tokenVars, usageVars>>
      /\ retries' \in [Callers -> Nat]
  BY DEF BeginSearch, IInv, TypeOK
<1>3. CASE AskAgain(r) /\ UNCHANGED held
  BY <1>1, <1>2, <1>3, Same, AskAgainKeeps
<1>4. CASE Goto(r, "embed") /\ held' = held \cup {r}
  <2>1. "embed" \in (Running \ {"load"}) \cup Ended /\ "embed" \in InSession
    BY DEF Running, InSession
  <2>2. Cardinality(held') <= PoolSize
    <3>1. r \notin held /\ IsFiniteSet(held)
      BY <1>1 DEF IInv, ConnectionsComeBack, Finite, InSession
    <3>2. Cardinality(held') = Cardinality(held) + 1 /\ Cardinality(held) \in Nat
      BY <1>4, <3>1, FS_AddElement, FS_CardinalityType
    <3>3. Cardinality(held) < PoolSize /\ PoolSize \in Nat
      BY <1>1, CompletionPathAssumption DEF HasConnection
    <3>4. \A m, n \in Nat : m < n => m + 1 <= n
      OBVIOUS
    <3> QED
      BY <3>2, <3>3, <3>4
  <2>3. TokensTypeOK' /\ Kept' /\ Travels'
    BY <1>2 DEF IInv, TypeOK, TokensTypeOK, Kept, Travels, tokenVars
  <2>4. slug'[r] \in Slugs /\ grant' = grant /\ grant[r] = NoGrant
    BY <1>1, <1>2, Same
  <2>5. Arrives(r, "embed")
    BY <1>2, <1>4, <2>1, <2>2, <2>3, <2>4, Same DEF Arrives, IInv, TypeOK
  <2> QED
    BY <2>5, ArrivesKeeps
<1> QED
  BY <1>3, <1>4 DEF BeginSearch

LEMMA EndSearchKeeps ==
  ASSUME IInv, NEW r \in Callers, EndSearch(r)
  PROVE  IInv'
<1>1. pc[r] = "embed" /\ pc[r] \in Running \ {"load"}
  BY DEF EndSearch, Running
<1>2. /\ UNCHANGED <<req, slug, tools, todo, retries, sent, grant, servers, credentialVars, tokenVars, usageVars>>
      /\ held' = held \ {r}
  BY DEF EndSearch
<1>3. PICK there \in {"asking", "500", "broken"} :
        Goto(r, there) /\ (there = "asking" => Len(sent[r]) < RequestLimit)
  BY StatusType DEF EndSearch, AskAgain
<1>4. TokensTypeOK' /\ Kept' /\ Travels'
  BY <1>2 DEF IInv, TypeOK, TokensTypeOK, Kept, Travels, tokenVars
<1>5. /\ there \in (Running \ {"load"}) \cup Ended /\ there \notin InSession
      /\ there \notin {"list", "fetch", "stream", "log", "apply", "token", "call"}
  BY DEF Ended, Running, InSession
<1>6. slug'[r] \in Slugs /\ grant' = grant /\ grant[r] = NoGrant
  BY <1>1, <1>2, Same
<1>7. Arrives(r, there)
  BY <1>2, <1>3, <1>4, <1>5, <1>6, HoldingGivesBack, Same DEF Arrives, IInv, TypeOK
<1> QED
  BY <1>7, ArrivesKeeps

LEMMA RunKeeps ==
  ASSUME IInv, NEW r \in Callers, RunStep(r)
  PROVE  IInv'
<1>0. retries \in [Callers -> Nat]
  BY DEF IInv, TypeOK
<1>1. CASE ProviderFails(r) \/ PoolTimeout(r)
  <2>1. pc[r] \in {"load", "list", "asking", "stream", "connect", "search"} /\ pc[r] \notin InSession /\ pc[r] # "call"
    BY <1>1 DEF ProviderFails, PoolTimeout, InSession
  <2>2. UNCHANGED <<req, slug, tools, todo, retries, sent, grant, held, servers, credentialVars, tokenVars, usageVars>>
    BY <1>1 DEF ProviderFails, PoolTimeout
  <2>3. PICK there \in {"500", "502", "broken"} : Goto(r, there)
    BY <1>1, StatusType DEF ProviderFails, PoolTimeout
  <2>4. there \in Ends
    BY DEF Ends
  <2> QED
    BY <1>0, <2>1, <2>2, <2>3, <2>4, Same, EndKeeps
<1>2. CASE Call(r)
  <2>1. pc[r] = "call" /\ AskAgain(r) /\ grant' = [grant EXCEPT ![r] = NoGrant]
    BY <1>2 DEF Call
  <2>2. UNCHANGED <<req, slug, tools, todo, retries, sent, held, servers, credentialVars, tokenVars, usageVars>>
    BY <1>2 DEF Call
  <2> QED
    BY <1>0, <2>1, <2>2, Same, AskAgainKeeps
<1>3. CASE Abandon(r)
  <2>1. pc[r] \notin InSession /\ grant' = [grant EXCEPT ![r] = NoGrant]
    BY <1>3 DEF Abandon, InSession
  <2>2. PICK there \in {"abandoned", "interrupted"} : Goto(r, there)
    BY <1>3 DEF Abandon
  <2>3. UNCHANGED <<req, slug, tools, todo, retries, sent, held, servers, credentialVars, tokenVars>>
    BY <1>3 DEF Abandon
  <2>4. UsageTypeOK' /\ IsFiniteSet(rows')
    BY <1>3, MessageType, EnqueueTypes, Same DEF Abandon
  <2>5. there \in Ends
    BY DEF Ends
  <2> QED
    BY <1>0, <2>1, <2>2, <2>3, <2>4, <2>5, EndKeeps
<1> QED
  BY <1>1, <1>2, <1>3, LoadKeeps, ListKeeps, FetchKeeps, AskKeeps, StreamEndsKeeps, LogKeeps, ConnectKeeps,
     StaticKeeps, CachedKeeps, BeginExchangeKeeps, BeginM2MKeeps, ArrivalKeeps, TokenFailsKeeps, SearchKeeps,
     EndSearchKeeps DEF RunStep, Step
-------------------------------------------------------------------------------
(* What happens around the runs                                             *)

LEMMA NewType ==
  ASSUME masterKey \in MasterKeys, NEW p \in Payload, NEW state \in {"absent", "live", "deleted"}
  PROVE  New(p, state) \in Row
BY DEF New, Row, Payload

LEMMA ChangedType ==
  ASSUME TypeOK, Changed
  PROVE  changes' \in 0 .. MaxChanges
<1>1. changes \in Nat /\ MaxChanges \in Nat /\ changes < MaxChanges /\ changes' = changes + 1
  BY CredentialsAssumption DEF TypeOK, CredentialsTypeOK, Changed
<1> QED
  BY <1>1

LEMMA CredentialsKeep ==
  ASSUME TypeOK, CredentialsNext
  PROVE  CredentialsTypeOK'
<1>1. credential \in [CredentialIds -> Row] /\ masterKey \in MasterKeys
  BY DEF TypeOK, CredentialsTypeOK
<1>2. Payloads \subseteq Payload
  BY CredentialsAssumption
<1>3. ASSUME NEW c \in CredentialIds, NEW p \in Payloads, CreateCredential(c, p)
      PROVE  CredentialsTypeOK'
  BY <1>1, <1>2, <1>3, NewType, ChangedType DEF CreateCredential, CredentialsTypeOK
<1>4. ASSUME NEW c \in CredentialIds, NEW p \in Payloads, UpdateCredential(c, p.fields)
      PROVE  CredentialsTypeOK'
  <2>1. p.fields \in Fields
    BY <1>2 DEF Payload
  <2>2. [credential[c] EXCEPT !.fields = p.fields, !.key = masterKey] \in Row
    BY <1>1, <2>1 DEF Row
  <2>3. credential' = [credential EXCEPT ![c] = [@ EXCEPT !.fields = p.fields, !.key = masterKey]]
    BY <1>1, <1>4 DEF UpdateCredential, Row
  <2> QED
    BY <1>1, <1>4, <2>2, <2>3, ChangedType DEF UpdateCredential, CredentialsTypeOK
<1>5. ASSUME NEW c \in CredentialIds, DeleteCredential(c)
      PROVE  CredentialsTypeOK'
  BY <1>1, <1>5, ChangedType DEF DeleteCredential, CredentialsTypeOK, Row
<1>6. ASSUME NEW k \in MasterKeys, ReplaceKey(k)
      PROVE  CredentialsTypeOK'
  BY <1>1, <1>6, ChangedType DEF ReplaceKey, CredentialsTypeOK
<1> QED
  BY <1>3, <1>4, <1>5, <1>6 DEF CredentialsNext

LEMMA WorkKeeps ==
  ASSUME IInv, NEW m \in queue, Record(m) \/ LoseUsage(m)
  PROVE  UsageTypeOK' /\ IsFiniteSet(rows')
<1>1. m \in Message /\ UsageTypeOK /\ IsFiniteSet(rows)
  BY DEF IInv, TypeOK, UsageTypeOK, Finite
<1>2. CASE Record(m)
  <2>1. IsFiniteSet(RowsOf(m))
    BY <1>1, FS_Subset DEF RowsOf
  <2>2. Cardinality(RowsOf(m)) \in Nat /\ Cost(m) \in Nat
    BY <1>1, <2>1, FS_CardinalityType, UsageLogAssumption DEF Cost, Message
  <2> DEFINE added == [message |-> m, cost |-> Cost(m), copy |-> Cardinality(RowsOf(m))]
  <2>3. added \in Logged
    BY <1>1, <2>2 DEF Logged
  <2>4. rows' = rows \cup {added} /\ queue' \subseteq queue /\ lost' = lost
    BY <1>2 DEF Record, AddRow
  <2> HIDE DEF added
  <2> QED
    BY <1>1, <2>3, <2>4, FS_AddElement DEF UsageTypeOK
<1>3. CASE LoseUsage(m)
  BY <1>1, <1>3 DEF LoseUsage, UsageTypeOK
<1> QED
  BY <1>2, <1>3

LEMMA PassKeeps ==
  ASSUME IInv, Tick \/ Evict
  PROVE  TokensTypeOK' /\ Kept' /\ Travels'
<1>1. now \in Nat /\ cache \subseteq Entry /\ exchange \in [Callers -> Exchange \cup {NoExchange}]
  BY DEF IInv, TypeOK, TokensTypeOK
<1>2. cache' \subseteq cache /\ exchange' = exchange
  BY DEF Tick, Evict
<1>3. Kept'
  BY <1>2 DEF IInv, Kept
<1>4. CASE Tick
  <2>1. now' = now + 1 /\ \A r \in Callers : exchange[r] # NoExchange => now < exchange[r].since + MaxLatency
    BY <1>4 DEF Tick
  <2>2. Travels'
    <3> SUFFICES ASSUME NEW r \in Callers, exchange[r] # NoExchange
                 PROVE  now' <= exchange[r].since + MaxLatency /\ exchange[r].token.dies = exchange[r].since + exchange[r].life
      BY <1>2 DEF Travels
    <3>1. exchange[r].since \in Nat /\ MaxLatency \in Nat
      BY <1>1, DelegatedTokensAssumption DEF Exchange
    <3> QED
      BY <1>1, <2>1, <3>1 DEF IInv, Travels
  <2> QED
    BY <1>1, <1>2, <1>3, <2>1, <2>2 DEF TokensTypeOK
<1>5. CASE Evict
  <2>1. now' = now
    BY <1>5 DEF Evict
  <2> QED
    BY <1>1, <1>2, <1>3, <2>1 DEF TokensTypeOK, IInv, Travels
<1> QED
  BY <1>4, <1>5

LEMMA AroundKeeps ==
  ASSUME IInv,
         \/ \E s \in Servers : RegisterServer(s) \/ RemoveServer(s)
         \/ ChangeCredential \/ Pass \/ Work
  PROVE  IInv'
<1>1. UNCHANGED <<pc, req, slug, tools, reply, todo, retries, sent, grant, held>>
  BY DEF RegisterServer, RemoveServer, SetServer, ChangeCredential, Pass, Work, runVars
<1>2. CredentialsTypeOK' /\ servers' \in [Servers -> {"new", "live", "gone"}]
  <2>1. CASE \E s \in Servers : RegisterServer(s) \/ RemoveServer(s)
    <3>1. UNCHANGED <<credential, masterKey>> /\ Changed
      BY <2>1 DEF RegisterServer, RemoveServer, SetServer
    <3>2. servers' \in [Servers -> {"new", "live", "gone"}]
      BY <2>1 DEF RegisterServer, RemoveServer, SetServer, IInv, TypeOK
    <3> QED
      BY <3>1, <3>2, ChangedType DEF IInv, TypeOK, CredentialsTypeOK
  <2>2. CASE ChangeCredential
    BY <2>2, CredentialsKeep DEF ChangeCredential, IInv, TypeOK, runVars
  <2>3. CASE Pass \/ Work
    BY <2>3 DEF Pass, Work, IInv, TypeOK, CredentialsTypeOK, runVars, credentialVars
  <2> QED
    BY <2>1, <2>2, <2>3
<1>3. TokensTypeOK' /\ Kept' /\ Travels'
  <2>1. CASE UNCHANGED tokenVars
    BY <2>1 DEF IInv, TypeOK, TokensTypeOK, Kept, Travels, tokenVars
  <2>2. CASE Tick \/ Evict
    BY <2>2, PassKeeps
  <2> QED
    BY <2>1, <2>2 DEF RegisterServer, RemoveServer, SetServer, ChangeCredential, Pass, Work
<1>4. UsageTypeOK' /\ IsFiniteSet(rows')
  <2>1. CASE UNCHANGED usageVars
    BY <2>1, Same
  <2>2. CASE \E m \in queue : Record(m) \/ LoseUsage(m)
    BY <2>2, WorkKeeps
  <2> QED
    BY <2>1, <2>2 DEF RegisterServer, RemoveServer, SetServer, ChangeCredential, Pass, Work
<1>5. TypeOK'
  BY <1>1, <1>2, <1>3, <1>4 DEF IInv, TypeOK
<1>6. Finite' /\ Begun' /\ Applies' /\ Grants' /\ ConnectionsComeBack'
  BY <1>1, <1>4 DEF IInv, Finite, Begun, Applies, Calling, Grants, ConnectionsComeBack, NoGrant
<1> QED
  BY <1>3, <1>5, <1>6 DEF IInv
-------------------------------------------------------------------------------
(* The invariant                                                            *)

LEMMA InitHolds ==
  ASSUME Init
  PROVE  IInv
<1>1. CredentialsTypeOK
  <2>1. masterKey \in MasterKeys /\ changes \in 0 .. MaxChanges
    BY DEF Init, CredentialsInit
  <2>2. credential \in [CredentialIds -> Row]
    BY <2>1, NewType, CredentialsAssumption DEF Init, CredentialsInit
  <2> QED
    BY <2>1, <2>2 DEF CredentialsTypeOK
<1>2. TokensTypeOK /\ UsageTypeOK /\ Kept /\ Travels
  BY DEF Init, TokensInit, UsageInit, TokensTypeOK, UsageTypeOK, Kept, Travels
<1>3. Finite /\ Cardinality(held) <= PoolSize
  <2>1. held = {} /\ rows = {}
    BY DEF Init, UsageInit
  <2>2. IsFiniteSet({}) /\ Cardinality({}) = 0 /\ 0 <= PoolSize
    BY FS_EmptySet, CompletionPathAssumption
  <2> QED
    BY <2>1, <2>2 DEF Finite
<1>4. TypeOK
  <2>1. <<>> \in Seq(TokenCounts)
    OBVIOUS
  <2>2. Text \in Replies /\ "load" \in Running
    BY DEF Replies, Running
  <2>3. servers \in [Servers -> {"new", "live", "gone"}]
    BY DEF Init
  <2> QED
    BY <1>1, <1>2, <1>3, <2>1, <2>2, <2>3 DEF Init, TypeOK
<1>5. Begun
  <2>1. Len(<<>>) = 0 /\ 0 < RequestLimit /\ 0 <= RequestLimit
    BY UsageLogAssumption
  <2> QED
    BY <2>1 DEF Init, Begun
<1>6. Applies /\ Grants /\ ConnectionsComeBack
  BY DEF Init, Applies, Grants, ConnectionsComeBack, InSession
<1> QED
  BY <1>2, <1>3, <1>4, <1>5, <1>6 DEF IInv

LEMMA NextKeeps ==
  ASSUME IInv, [Next]_vars
  PROVE  IInv'
<1>1. CASE UNCHANGED vars
  BY <1>1 DEF vars, runVars, credentialVars, tokenVars, usageVars, IInv, TypeOK, CredentialsTypeOK, TokensTypeOK,
     UsageTypeOK, Finite, Begun, Applies, Calling, Grants, Kept, Travels, ConnectionsComeBack, NoGrant
<1>2. CASE Next
  BY <1>2, RunKeeps, AroundKeeps DEF Next, RunStep
<1> QED
  BY <1>1, <1>2

LEMMA InvariantHolds == Spec => []IInv
<1>1. Init => IInv
  BY InitHolds
<1>2. IInv /\ [Next]_vars => IInv'
  BY NextKeeps
<1> QED
  BY <1>1, <1>2, PTL DEF Spec

(* The variables keep their types, in particular the log: messages name     *)
(* requests a run may have made; never are more connections kept than the   *)
(* pool has.                                                                *)
THEOREM TypeCorrect == Spec => []TypeOK
<1>1. IInv => TypeOK
  BY DEF IInv
<1> QED
  BY <1>1, InvariantHolds, PTL

(* A connection is kept by exactly the runs amid a session that applies     *)
(* credentials, of a listing or a call, or that searches: however many      *)
(* runs, servers and connections there are and wherever they fail.          *)
THEOREM ConnectionsHold == Spec => []ConnectionsComeBack
<1>1. IInv => ConnectionsComeBack
  BY DEF IInv
<1> QED
  BY <1>1, InvariantHolds, PTL

LEMMA TakenByUse ==
  ASSUME IInv, NEW r \in Callers, [Next]_vars, TakesFromCache(r)
  PROVE  UseCachedToken(r)
<1>1. pc[r] = "apply" /\ pc'[r] = "call" /\ grant'[r] # NoGrant /\ grant[r] = NoGrant
  BY Same DEF TakesFromCache
<1>2. ~(UNCHANGED pc)
  BY <1>1
<1>3. PICK q \in Callers : RunStep(q)
  BY <1>2 DEF Next, RunStep, vars, runVars, RegisterServer, RemoveServer, SetServer, ChangeCredential, Pass, Work
<1>4. q = r
  <2>1. PICK there : pc' = [pc EXCEPT ![q] = there]
    BY <1>3 DEF RunStep, Step, Load, ListTools, FetchTools, PoolTimeout, ProviderAnswers, StreamEnds, ProviderFails, Log,
       AfterLog, Connect, OpenSession, UseStatic, CredentialFails, UseCachedToken, BeginExchange, BeginM2M, TokenArrives,
       TokenFails, Done, Call, BeginSearch, EndSearch, AskAgain, Abandon, Goto
  <2> QED
    BY <1>1, <2>1 DEF IInv, TypeOK
<1>5. UseStatic(r) \/ CredentialFails(r) \/ UseCachedToken(r) \/ BeginExchange(r) \/ BeginM2M(r)
  BY <1>1, <1>3, <1>4 DEF RunStep, Step, Load, ListTools, FetchTools, PoolTimeout, ProviderAnswers, StreamEnds,
     ProviderFails, Log, Connect, TokenArrives, TokenFails, Call, BeginSearch, EndSearch, Abandon
<1>6. ~(UseStatic(r) \/ CredentialFails(r) \/ BeginExchange(r) \/ BeginM2M(r))
  BY <1>1 DEF UseStatic, CredentialFails, BeginExchange, BeginM2M
<1> QED
  BY <1>5, <1>6

(* A token taken from the cache was issued for the user, the audience and   *)
(* the scopes of this call, and has not run out: the margin makes up for    *)
(* the longest way of a token, and no run keeps one from an earlier call.   *)
THEOREM CachedTokenHolds == Spec => CachedTokenFits
<1> DEFINE Fits == \A r \in Callers : TakesFromCache(r) =>
      grant'[r].key = WantedKey(r) /\ grant'[r].key[1] = req[r].user /\ now < grant'[r].dies
<1>1. IInv /\ [Next]_vars => [Fits]_vars
  <2> SUFFICES ASSUME IInv, [Next]_vars, NEW r \in Callers, TakesFromCache(r)
               PROVE  grant'[r].key = WantedKey(r) /\ grant'[r].key[1] = req[r].user /\ now < grant'[r].dies
    OBVIOUS
  <2>1. UseCachedToken(r)
    BY TakenByUse
  <2>2. PICK e \in Cached(WantedKey(r)) : grant' = [grant EXCEPT ![r] = e.token]
    <3>1. grant'[r] # NoGrant /\ grant[r] = NoGrant
      BY <2>1, Same DEF TakesFromCache
    <3> QED
      BY <2>1, <3>1 DEF UseCachedToken, Carry
  <2>3. e \in Entry /\ e.key = WantedKey(r) /\ e.expires > now + Margin
    BY DEF Cached, SameEntry, Fresh, IInv, TypeOK, TokensTypeOK
  <2>4. e.token.key = e.key /\ e.expires <= e.token.dies + MaxLatency
    BY DEF Cached, IInv, Kept
  <2>5. grant'[r] = e.token
    BY <2>2 DEF IInv, TypeOK
  <2>6. now < e.token.dies
    <3>1. e.token.dies \in Nat /\ e.expires \in Nat /\ now \in Nat
      BY <2>3 DEF Entry, Token, IInv, TypeOK, TokensTypeOK
    <3> QED
      BY <2>3, <2>4, <3>1, DelegatedTokensAssumption
  <2> QED
    BY <2>3, <2>4, <2>5, <2>6 DEF WantedKey
<1> QED
  BY <1>1, InvariantHolds, PTL DEF Spec, CachedTokenFits
-------------------------------------------------------------------------------
(* The usage log: every model request that was answered is logged exactly   *)
(* once, for any number of runs and of losses.                              *)

RowMessages == {row.message : row \in rows}
Messages    == queue \cup lost \cup RowMessages

(* A message tells of a request that was answered.                          *)
Answered == \A m \in Messages : m.attempt \in 1 .. Len(sent[m.run]) /\ m.tokens = sent[m.run][m.attempt]

(* A request has one message, and a message is in one place.                *)
OneMessage == \A m, n \in Messages : m.run = n.run /\ m.attempt = n.attempt => m = n

OnePlace ==
  /\ \A m \in queue : m \notin lost /\ m \notin RowMessages
  /\ \A m \in lost : m \notin RowMessages
  /\ \A a, b \in rows : a.message = b.message => a = b

Logs(r, k) == \E m \in Messages : m.run = r /\ m.attempt = k

(* The request a run has still to log, or was interrupted at, is not        *)
(* logged; the others are.                                                  *)
Awaited == {"stream", "log", "interrupted"}

NotYet  == \A r \in Callers : pc[r] \in Awaited => ~Logs(r, Len(sent[r]))
Already == \A r \in Callers : \A k \in 1 .. Len(sent[r]) : k \notin Unlogged(r) => Logs(r, k)

LogInv == Answered /\ OneMessage /\ OnePlace /\ NotYet /\ Already
-------------------------------------------------------------------------------
(* What the steps do to the log                                             *)

Failed == {"500", "broken", "abandoned"}

Later == (Running \ {"load", "stream", "log"}) \cup (Ended \ {"interrupted"})

(* The run leaves the log with its message taken.                           *)
TakenUp(r) ==
  /\ pc[r] = "log" /\ Enqueue(LastMessage(r)) /\ sent' = sent
  /\ \E there \in Later : pc' = [pc EXCEPT ![r] = there]

Asked(r) ==
  /\ pc[r] = "asking" /\ UNCHANGED usageVars
  /\ \E there \in {"stream", "log"} : pc' = [pc EXCEPT ![r] = there]
  /\ \E n \in TokenCounts : sent' = [sent EXCEPT ![r] = Append(@, n)]

(* The run goes elsewhere: from a stream to the log or to its end, and from *)
(* the log only to its end.                                                 *)
Onward(from) ==
  IF from = "stream" THEN Failed \cup {"log", "interrupted"}
  ELSE IF from = "log" THEN Failed
  ELSE Later

Moved(r) ==
  /\ pc[r] \in Running /\ UNCHANGED <<sent, usageVars>>
  /\ \E there \in Onward(pc[r]) : pc' = [pc EXCEPT ![r] = there]

Worked == UNCHANGED <<pc, sent>> /\ \E m \in queue : Record(m) \/ LoseUsage(m)

LEMMA RunStepIs ==
  ASSUME IInv, NEW r \in Callers, RunStep(r)
  PROVE  TakenUp(r) \/ Asked(r) \/ Moved(r)
<1>1. /\ Status(r, "500") \in Failed /\ Status(r, "502") \in {"502", "broken"}
      /\ req[r].stream => Status(r, "502") \in Failed
  BY StatusType DEF Failed, Status
<1>2. /\ {"500", "broken", "abandoned", "200", "404", "422", "502"} \subseteq Later
      /\ Running \ {"load", "stream", "log"} \subseteq Later
  BY DEF Ended, Later
<1>3. \A there : Goto(r, there) => pc' = [pc EXCEPT ![r] = there]
  BY DEF Goto
<1>4. ASSUME NEW there \in Later, Goto(r, there), UNCHANGED <<sent, usageVars>>,
             pc[r] \in Running \ {"stream", "log"}
      PROVE  Moved(r)
  BY <1>3, <1>4 DEF Moved, Onward
<1>5. CASE Load(r) \/ PoolTimeout(r)
  <2>1. pc[r] \in {"load", "list", "connect", "search"} /\ UNCHANGED <<sent, usageVars>>
    BY <1>5 DEF Load, PoolTimeout
  <2>2. Refusal(r) \in {"none", "404", "422"}
    BY DEF Refusal
  <2>3. PICK there \in {"list", "asking", "404", "422", "500", "broken"} : Goto(r, there)
    BY <1>1, <1>5, <2>2 DEF Load, PoolTimeout, Failed, Status
  <2>4. there \in Later /\ pc[r] \in Running \ {"stream", "log"}
    BY <1>2, <2>1 DEF Running
  <2> QED
    BY <1>4, <2>1, <2>3, <2>4
<1>6. CASE ProviderFails(r)
  <2>1. Goto(r, Status(r, "502")) /\ UNCHANGED <<sent, usageVars>> /\ pc[r] \in {"asking", "stream"}
    BY <1>6 DEF ProviderFails
  <2>2. pc[r] = "stream" => req[r].stream
    BY DEF IInv, Begun
  <2>3. Status(r, "502") \in Onward(pc[r]) /\ pc[r] \in Running
    BY <1>1, <1>2, <2>1, <2>2 DEF Onward, Running
  <2> QED
    BY <1>3, <2>1, <2>3 DEF Moved
<1>7. CASE ProviderAnswers(r)
  BY <1>7 DEF ProviderAnswers, Asked
<1>8. CASE StreamEnds(r)
  <2>1. Goto(r, "log") /\ UNCHANGED <<sent, usageVars>> /\ pc[r] = "stream"
    BY <1>8 DEF StreamEnds
  <2> QED
    BY <1>3, <2>1 DEF Moved, Onward, Running
<1>9. CASE Log(r)
  <2>1. pc[r] = "log" /\ pc[r] \in Running /\ sent' = sent
    BY <1>9 DEF Log, Running
  <2>2. CASE Enqueue(LastMessage(r)) /\ AfterLog(r)
    <3>1. PICK there \in {"search", "connect", "asking", "200", "500", "502", "broken"} : Goto(r, there)
      BY <1>1, <2>2 DEF AfterLog, AskAgain, Failed, Status
    <3>2. there \in Later
      BY <1>2 DEF Running
    <3> QED
      BY <1>3, <2>1, <2>2, <3>1, <3>2 DEF TakenUp
  <2>3. CASE Goto(r, Status(r, "500")) /\ UNCHANGED usageVars
    BY <1>1, <1>3, <2>1, <2>3 DEF Moved, Onward
  <2> QED
    BY <1>9, <2>2, <2>3 DEF Log
<1>10. CASE Abandon(r)
  <2>1. /\ pc[r] \in {"asking", "stream", "log", "call"} /\ sent' = sent
        /\ Goto(r, IF pc[r] = "stream" THEN "interrupted" ELSE "abandoned")
    BY <1>10 DEF Abandon
  <2>2. /\ pc[r] \in Running /\ "abandoned" \in Failed /\ "abandoned" \in Later
        /\ (IF pc[r] = "stream" THEN "interrupted" ELSE "abandoned") \in Onward(pc[r])
    BY <1>2, <2>1 DEF Failed, Running, Onward
  <2>3. CASE UNCHANGED usageVars
    BY <1>3, <2>1, <2>2, <2>3 DEF Moved
  <2>4. CASE pc[r] = "log" /\ Enqueue(LastMessage(r))
    BY <1>3, <2>1, <2>2, <2>4 DEF TakenUp
  <2> QED
    BY <1>10, <2>3, <2>4 DEF Abandon
<1>11. CASE ListTools(r) \/ Connect(r) \/ FetchTools(r) \/ Call(r) \/ BeginSearch(r) \/ EndSearch(r)
  <2>1. pc[r] \in {"list", "connect", "fetch", "call", "search", "embed"} /\ UNCHANGED <<sent, usageVars>>
    BY <1>11 DEF ListTools, Connect, FetchTools, Call, BeginSearch, EndSearch
  <2>2. PICK there \in {"apply", "fetch", "asking", "embed", "500", "broken"} : Goto(r, there)
    BY <1>11 DEF ListTools, Connect, FetchTools, Call, BeginSearch, EndSearch, OpenSession, AskAgain, Status
  <2>3. there \in Later /\ pc[r] \in Running \ {"stream", "log"}
    BY <1>2, <2>1 DEF Running
  <2> QED
    BY <1>4, <2>1, <2>2, <2>3
<1>12. CASE UseStatic(r) \/ CredentialFails(r) \/ UseCachedToken(r) \/ BeginExchange(r) \/ BeginM2M(r)
            \/ TokenArrives(r) \/ TokenFails(r)
  <2>1. pc[r] \in {"apply", "token"} /\ UNCHANGED <<sent, usageVars>>
    BY <1>12 DEF UseStatic, CredentialFails, UseCachedToken, NeedsToken, BeginExchange, BeginM2M, TokenArrives,
       TokenFails, Done
  <2>2. PICK there \in {"apply", "token", "fetch", "call", "500", "broken"} : Goto(r, there)
    BY <1>12 DEF UseStatic, CredentialFails, UseCachedToken, BeginExchange, BeginM2M, TokenArrives, TokenFails,
       Done, Status
  <2>3. there \in Later /\ pc[r] \in Running \ {"stream", "log"}
    BY <1>2, <2>1 DEF Running
  <2> QED
    BY <1>4, <2>1, <2>2, <2>3
<1> QED
  BY <1>5, <1>6, <1>7, <1>8, <1>9, <1>10, <1>11, <1>12 DEF RunStep, Step

LEMMA StepIs ==
  ASSUME IInv, [Next]_vars
  PROVE  \/ \E r \in Callers : TakenUp(r) \/ Asked(r) \/ Moved(r)
         \/ Worked
         \/ UNCHANGED <<pc, sent, usageVars>>
<1>1. CASE \E r \in Callers : RunStep(r)
  BY <1>1, RunStepIs
<1>2. CASE \E s \in Servers : RegisterServer(s) \/ RemoveServer(s)
  BY <1>2 DEF RegisterServer, RemoveServer, SetServer
<1>3. CASE ChangeCredential \/ Pass \/ UNCHANGED vars
  BY <1>3 DEF ChangeCredential, Pass, vars, runVars
<1>4. CASE Work
  BY <1>4 DEF Work, runVars, Worked
<1> QED
  BY <1>1, <1>2, <1>3, <1>4 DEF Next, RunStep
-------------------------------------------------------------------------------
(* The invariant of the log                                                 *)

LEMMA MessageIsTyped ==
  ASSUME IInv
  PROVE  /\ \A m \in Messages : m \in Message /\ m.run \in Callers
         /\ \A r \in Callers : sent[r] \in Seq(TokenCounts) /\ Len(sent[r]) \in Nat
         /\ \A r \in Callers : pc[r] \in {"stream", "log"} => Len(sent[r]) \in 1 .. Len(sent[r])
<1>1. \A m \in Messages : m \in Message
  BY DEF IInv, TypeOK, UsageTypeOK, Messages, RowMessages, Logged
<1>2. \A r \in Callers : sent[r] \in Seq(TokenCounts) /\ Len(sent[r]) \in Nat
  BY LenProperties DEF IInv, TypeOK
<1>3. \A r \in Callers : pc[r] \in {"stream", "log"} => Len(sent[r]) # 0
  BY <1>2, EmptySeq DEF IInv, Begun
<1>4. \A r \in Callers : pc[r] \in {"stream", "log"} => Len(sent[r]) \in 1 .. Len(sent[r])
  BY <1>2, <1>3
<1> QED
  BY <1>1, <1>2, <1>4 DEF Message

LEMMA UnchangedLog ==
  ASSUME LogInv, UNCHANGED <<sent, usageVars>>,
         \A r \in Callers : pc'[r] \in Awaited => pc[r] \in Awaited,
         \A r \in Callers : Unlogged(r) \subseteq Unlogged(r)'
  PROVE  LogInv'
<1>1. Messages' = Messages /\ RowMessages' = RowMessages /\ queue' = queue /\ lost' = lost /\ rows' = rows /\ sent' = sent
  BY DEF Messages, RowMessages, usageVars
<1>2. \A r, k : Logs(r, k)' <=> Logs(r, k)
  BY <1>1 DEF Logs
<1>3. Answered' /\ OneMessage' /\ OnePlace'
  BY <1>1 DEF LogInv, Answered, OneMessage, OnePlace
<1>4. NotYet'
  BY <1>1, <1>2 DEF LogInv, NotYet
<1>5. Already'
  BY <1>1, <1>2 DEF LogInv, Already
<1> QED
  BY <1>3, <1>4, <1>5 DEF LogInv

LEMMA MovedKeeps ==
  ASSUME IInv, LogInv, NEW r \in Callers, Moved(r)
  PROVE  LogInv'
<1>1. PICK there \in Onward(pc[r]) : pc' = [pc EXCEPT ![r] = there]
  BY DEF Moved
<1>2. pc'[r] = there /\ \A q \in Callers \ {r} : pc'[q] = pc[q]
  BY <1>1 DEF IInv, TypeOK
<1>3. UNCHANGED <<sent, usageVars>> /\ pc[r] \in Running
  BY DEF Moved
<1>4. \A q \in Callers : Unlogged(q) \subseteq Unlogged(q)'
  <2>1. pc[r] \in {"stream", "log"} => there \in {"log", "500", "broken", "abandoned", "interrupted"}
    BY DEF Onward, Failed
  <2>2. pc[r] \notin {"500", "broken", "abandoned", "interrupted"}
    BY <1>3 DEF Running
  <2> QED
    BY <1>2, <1>3, <2>1, <2>2 DEF Unlogged
<1>5. \A q \in Callers : pc'[q] \in Awaited => pc[q] \in Awaited
  <2>1. there \in Awaited => pc[r] = "stream"
    BY DEF Onward, Failed, Later, Awaited, Running, Ended
  <2> QED
    BY <1>2, <2>1 DEF Awaited
<1> QED
  BY <1>3, <1>4, <1>5, UnchangedLog

LEMMA AskedKeeps ==
  ASSUME IInv, LogInv, NEW r \in Callers, Asked(r)
  PROVE  LogInv'
<1>1. PICK n \in TokenCounts : sent' = [sent EXCEPT ![r] = Append(@, n)]
  BY DEF Asked
<1>2. pc[r] = "asking" /\ pc'[r] \in {"stream", "log"} /\ \A q \in Callers \ {r} : pc'[q] = pc[q] /\ sent'[q] = sent[q]
  BY <1>1 DEF Asked, IInv, TypeOK
<1>3. /\ sent'[r] = Append(sent[r], n) /\ Len(sent'[r]) = Len(sent[r]) + 1 /\ sent'[r] # <<>>
      /\ \A k \in 1 .. Len(sent[r]) : sent'[r][k] = sent[r][k]
  <2>1. sent'[r] = Append(sent[r], n) /\ sent[r] \in Seq(TokenCounts)
    BY <1>1, MessageIsTyped DEF IInv, TypeOK
  <2> QED
    BY <2>1, AppendProperties
<1>4. Messages' = Messages /\ RowMessages' = RowMessages /\ queue' = queue /\ lost' = lost /\ rows' = rows
  BY DEF Messages, RowMessages, Asked, usageVars
<1>5. \A q, k : Logs(q, k)' <=> Logs(q, k)
  BY <1>4 DEF Logs
<1>6. OneMessage' /\ OnePlace'
  BY <1>4 DEF LogInv, OneMessage, OnePlace
<1>7. Answered'
  <2> SUFFICES ASSUME NEW m \in Messages
               PROVE  m.attempt \in 1 .. Len(sent'[m.run]) /\ m.tokens = sent'[m.run][m.attempt]
    BY <1>4 DEF Answered
  <2>1. m.attempt \in 1 .. Len(sent[m.run]) /\ m.tokens = sent[m.run][m.attempt] /\ m.run \in Callers
    BY MessageIsTyped DEF LogInv, Answered
  <2>2. CASE m.run = r
    BY <1>3, <2>1, <2>2, MessageIsTyped
  <2>3. CASE m.run # r
    BY <1>2, <2>1, <2>3
  <2> QED
    BY <2>2, <2>3
<1>8. NotYet'
  <2>1. ~Logs(r, Len(sent'[r]))
    <3> SUFFICES ASSUME NEW m \in Messages, m.run = r, m.attempt = Len(sent[r]) + 1
                 PROVE  FALSE
      BY <1>3 DEF Logs
    <3>1. m.attempt \in 1 .. Len(sent[r]) /\ Len(sent[r]) \in Nat
      BY MessageIsTyped DEF LogInv, Answered
    <3> QED
      BY <3>1
  <2>2. \A q \in Callers \ {r} : pc'[q] \in Awaited => ~Logs(q, Len(sent'[q]))
    BY <1>2 DEF LogInv, NotYet
  <2> QED
    BY <1>5, <2>1, <2>2 DEF NotYet
<1>9. Already'
  <2> SUFFICES ASSUME NEW q \in Callers, NEW k \in 1 .. Len(sent'[q]), k \notin Unlogged(q)'
               PROVE  Logs(q, k)
    BY <1>5 DEF Already
  <2>1. CASE q = r
    <3>1. Unlogged(r)' = {Len(sent[r]) + 1}
      BY <1>2, <1>3 DEF Unlogged
    <3>2. k \in 1 .. Len(sent[r])
      BY <1>3, <2>1, <3>1, MessageIsTyped
    <3>3. Unlogged(r) = {}
      BY <1>2 DEF Unlogged
    <3> QED
      BY <2>1, <3>2, <3>3 DEF LogInv, Already
  <2>2. CASE q # r
    <3>1. Unlogged(q)' = Unlogged(q) /\ sent'[q] = sent[q]
      BY <1>2, <2>2 DEF Unlogged
    <3> QED
      BY <3>1 DEF LogInv, Already
  <2> QED
    BY <2>1, <2>2
<1> QED
  BY <1>6, <1>7, <1>8, <1>9 DEF LogInv

LEMMA LoggedKeeps ==
  ASSUME IInv, LogInv, NEW r \in Callers, TakenUp(r)
  PROVE  LogInv'
<1> DEFINE m == LastMessage(r)
<1>1. pc[r] = "log" /\ sent' = sent /\ queue' = queue \cup {m} /\ lost' = lost /\ rows' = rows
  BY DEF TakenUp, Enqueue
<1>2. m.run = r /\ m.attempt = Len(sent[r]) /\ m.tokens = sent[r][Len(sent[r])]
  BY DEF LastMessage
<1> HIDE DEF m
<1>3. pc'[r] \notin Awaited /\ \A q \in Callers \ {r} : pc'[q] = pc[q]
  BY DEF TakenUp, IInv, TypeOK, Later, Ended, Running, Awaited
<1>4. RowMessages' = RowMessages /\ Messages' = Messages \cup {m}
  BY <1>1 DEF RowMessages, Messages
<1>5. ~Logs(r, Len(sent[r]))
  BY <1>1 DEF LogInv, NotYet, Awaited
<1>6. \A o \in Messages : ~(o.run = r /\ o.attempt = Len(sent[r]))
  BY <1>5 DEF Logs
<1>7. m \notin Messages
  BY <1>2, <1>6
<1>8. Answered'
  <2>1. m.attempt \in 1 .. Len(sent[m.run]) /\ m.tokens = sent[m.run][m.attempt]
    BY <1>1, <1>2, MessageIsTyped
  <2> QED
    BY <1>1, <1>4, <2>1 DEF LogInv, Answered
<1>9. OneMessage'
  BY <1>2, <1>4, <1>6 DEF LogInv, OneMessage
<1>10. OnePlace'
  BY <1>1, <1>4, <1>7 DEF LogInv, OnePlace, Messages
<1>11. \A q, k : Logs(q, k)' <=> Logs(q, k) \/ (q = r /\ k = Len(sent[r]))
  BY <1>2, <1>4 DEF Logs
<1>12. NotYet'
  BY <1>1, <1>3, <1>11 DEF LogInv, NotYet
<1>13. Already'
  <2> SUFFICES ASSUME NEW q \in Callers, NEW k \in 1 .. Len(sent[q]), k \notin Unlogged(q)'
               PROVE  Logs(q, k) \/ (q = r /\ k = Len(sent[r]))
    BY <1>1, <1>11 DEF Already
  <2>1. CASE q = r
    <3>1. Unlogged(r) \subseteq {Len(sent[r])}
      BY DEF Unlogged
    <3> QED
      BY <2>1, <3>1 DEF LogInv, Already
  <2>2. CASE q # r
    <3>1. Unlogged(q)' = Unlogged(q)
      BY <1>1, <1>3, <2>2 DEF Unlogged
    <3> QED
      BY <3>1 DEF LogInv, Already
  <2> QED
    BY <2>1, <2>2
<1> QED
  BY <1>8, <1>9, <1>10, <1>12, <1>13 DEF LogInv

LEMMA WorkedKeeps ==
  ASSUME IInv, LogInv, Worked
  PROVE  LogInv'
<1>1. PICK m \in queue : Record(m) \/ LoseUsage(m)
  BY DEF Worked
<1>2. pc' = pc /\ sent' = sent /\ queue' = queue \ {m}
  BY <1>1 DEF Worked, Record, LoseUsage
<1>3. m \notin lost /\ m \notin RowMessages
  BY DEF LogInv, OnePlace
<1>4. Messages' = Messages /\ OnePlace'
  <2>1. CASE Record(m)
    <3> DEFINE added == [message |-> m, cost |-> Cost(m), copy |-> Cardinality(RowsOf(m))]
    <3>1. rows' = rows \cup {added} /\ lost' = lost /\ added.message = m
      BY <2>1 DEF Record, AddRow
    <3> HIDE DEF added
    <3>2. RowMessages' = RowMessages \cup {m}
      BY <3>1 DEF RowMessages
    <3>3. \A a \in rows : a.message # m
      BY <1>3 DEF RowMessages
    <3>4. \A a, b \in rows' : a.message = b.message => a = b
      BY <3>1, <3>3 DEF LogInv, OnePlace
    <3>5. Messages' = Messages
      BY <1>2, <3>1, <3>2 DEF Messages
    <3>6. OnePlace'
      BY <1>2, <1>3, <3>1, <3>2, <3>4 DEF LogInv, OnePlace
    <3> QED
      BY <3>5, <3>6
  <2>2. CASE LoseUsage(m)
    <3>1. lost' = lost \cup {m} /\ rows' = rows /\ RowMessages' = RowMessages
      BY <2>2 DEF LoseUsage, RowMessages
    <3>2. Messages' = Messages
      BY <1>2, <3>1 DEF Messages
    <3>3. OnePlace'
      BY <1>2, <1>3, <3>1 DEF LogInv, OnePlace
    <3> QED
      BY <3>2, <3>3
  <2> QED
    BY <1>1, <2>1, <2>2
<1>5. \A q, k : Logs(q, k)' <=> Logs(q, k)
  BY <1>4 DEF Logs
<1>6. Answered' /\ OneMessage'
  BY <1>2, <1>4 DEF LogInv, Answered, OneMessage
<1>7. NotYet' /\ Already'
  BY <1>2, <1>5 DEF LogInv, NotYet, Already, Unlogged
<1> QED
  BY <1>4, <1>6, <1>7 DEF LogInv

LEMMA LogInvHolds == Spec => []LogInv
<1>1. Init => LogInv
  <2> SUFFICES ASSUME Init
               PROVE  LogInv
    OBVIOUS
  <2>1. Messages = {} /\ queue = {} /\ lost = {} /\ rows = {}
    BY DEF Init, UsageInit, Messages, RowMessages
  <2>2. \A r \in Callers : pc[r] = "load" /\ 1 .. Len(sent[r]) = {}
    BY DEF Init
  <2> QED
    BY <2>1, <2>2 DEF LogInv, Answered, OneMessage, OnePlace, NotYet, Awaited, Already
<1>2. IInv /\ LogInv /\ [Next]_vars => LogInv'
  <2> SUFFICES ASSUME IInv, LogInv, [Next]_vars
               PROVE  LogInv'
    OBVIOUS
  <2>1. CASE UNCHANGED <<pc, sent, usageVars>>
    BY <2>1, UnchangedLog DEF Unlogged
  <2> QED
    BY <2>1, StepIs, MovedKeeps, AskedKeeps, LoggedKeeps, WorkedKeeps
<1> QED
  BY <1>1, <1>2, InvariantHolds, PTL DEF Spec
-------------------------------------------------------------------------------
(* Counting                                                                 *)

LEMMA AtMostOne ==
  ASSUME NEW S, \A a, b \in S : a = b
  PROVE  IF S = {} THEN Cardinality(S) = 0 ELSE Cardinality(S) = 1
<1>1. CASE S = {}
  BY <1>1, FS_EmptySet
<1>2. CASE S # {}
  <2>1. PICK a \in S : S = {a}
    BY <1>2
  <2> QED
    BY <1>2, <2>1, FS_Singleton
<1> QED
  BY <1>1, <1>2

(* The traces of a request are those of its message.                        *)
LEMMA TracesOf ==
  ASSUME IInv, LogInv, NEW r \in Callers, NEW k
  PROVE  Traces(r, k) <= 1 /\ (Traces(r, k) = 0 <=> ~Logs(r, k))
<1> DEFINE Q == Of(queue, r, k)
           L == Of(lost, r, k)
           W == {row \in rows : row.message.run = r /\ row.message.attempt = k}
<1>1. \A a, b \in Q : a = b
  BY DEF LogInv, OneMessage, Messages, Of
<1>2. \A a, b \in L : a = b
  BY DEF LogInv, OneMessage, Messages, Of
<1>3. \A a, b \in W : a = b
  BY DEF LogInv, OneMessage, OnePlace, Messages, RowMessages
<1>4. Q # {} => L = {} /\ W = {}
  BY DEF LogInv, OneMessage, OnePlace, Messages, RowMessages, Of
<1>5. L # {} => W = {}
  BY DEF LogInv, OneMessage, OnePlace, Messages, RowMessages, Of
<1>6. Logs(r, k) <=> Q # {} \/ L # {} \/ W # {}
  BY DEF Logs, Messages, RowMessages, Of
<1>7. Traces(r, k) = Cardinality(Q) + Cardinality(L) + Cardinality(W)
  BY DEF Traces
<1> HIDE DEF Q, L, W
<1>8. /\ IF Q = {} THEN Cardinality(Q) = 0 ELSE Cardinality(Q) = 1
      /\ IF L = {} THEN Cardinality(L) = 0 ELSE Cardinality(L) = 1
      /\ IF W = {} THEN Cardinality(W) = 0 ELSE Cardinality(W) = 1
  BY <1>1, <1>2, <1>3, AtMostOne
<1>9. Traces(r, k) <= 1 /\ (Traces(r, k) = 0 <=> Q = {} /\ L = {} /\ W = {})
  BY <1>4, <1>5, <1>7, <1>8
<1> QED
  BY <1>6, <1>9

(* Every request of a run that was answered waits, was recorded once or was *)
(* lost.  Only the last may be missing, of a run that failed or that its    *)
(* client left before its message was taken, and the one a client left      *)
(* amid the answer is always missing.                                       *)
THEOREM LoggedOnceHolds == Spec => []LoggedOnce
<1>1. IInv /\ LogInv => LoggedOnce
  <2> SUFFICES ASSUME IInv, LogInv
               PROVE  LoggedOnce
    OBVIOUS
  <2>1. \A m \in Messages : m.attempt \in DOMAIN sent[m.run] /\ m.tokens = sent[m.run][m.attempt]
    <3> SUFFICES ASSUME NEW m \in Messages
                 PROVE  m.attempt \in DOMAIN sent[m.run] /\ m.tokens = sent[m.run][m.attempt]
      OBVIOUS
    <3>1. DOMAIN sent[m.run] = 1 .. Len(sent[m.run])
      BY MessageIsTyped, LenProperties
    <3> QED
      BY <3>1 DEF LogInv, Answered
  <2>2. ASSUME NEW r \in Callers, NEW k \in 1 .. RequestLimit
        PROVE  /\ Traces(r, k) <= 1
               /\ k \in DOMAIN sent[r] /\ Traces(r, k) = 0 => k \in Unlogged(r)
               /\ pc[r] = "interrupted" /\ k = Len(sent[r]) => Traces(r, k) = 0
    <3>1. DOMAIN sent[r] = 1 .. Len(sent[r])
      BY MessageIsTyped, LenProperties
    <3>2. pc[r] = "interrupted" => ~Logs(r, Len(sent[r]))
      BY DEF LogInv, NotYet, Awaited
    <3> QED
      BY <3>1, <3>2, TracesOf DEF LogInv, Already
  <2> QED
    BY <2>1, <2>2 DEF LoggedOnce, Messages, RowMessages
<1> QED
  BY <1>1, InvariantHolds, LogInvHolds, PTL
-------------------------------------------------------------------------------
(* The costs: messages and rows say who asked and at what price, however    *)
(* long they take.                                                          *)

(* A run asks only once it has its config, ...                              *)
Unasked == \A r \in Callers : pc[r] = "load" => sent[r] = <<>>

(* ... so that its messages and rows are priced as its requests are.        *)
Priced == \A m \in Messages : m.user = req[m.run].user /\ m.priced = Config[slug[m.run]].priced

RowsPriced == \A row \in rows : row.cost = Cost(row.message)

BookInv == Unasked /\ Priced /\ RowsPriced

LEMMA ConfigStays ==
  ASSUME IInv, Unasked, [Next]_vars
  PROVE  req' = req /\ \A r \in Callers : sent[r] # <<>> => slug'[r] = slug[r]
<1>1. req' = req
  BY DEF Next, Step, Load, ListTools, FetchTools, PoolTimeout, ProviderAnswers, StreamEnds, ProviderFails, Log,
     Connect, OpenSession, UseStatic, CredentialFails, UseCachedToken, BeginExchange, BeginM2M, TokenArrives, TokenFails,
     Done, Call, BeginSearch, EndSearch, Abandon, RegisterServer, RemoveServer, SetServer, ChangeCredential, Pass, Work,
     vars, runVars
<1>2. slug' = slug \/ \E r \in Callers : Load(r)
  BY DEF Next, Step, Load, ListTools, FetchTools, PoolTimeout, ProviderAnswers, StreamEnds, ProviderFails, Log,
     Connect, OpenSession, UseStatic, CredentialFails, UseCachedToken, BeginExchange, BeginM2M, TokenArrives, TokenFails,
     Done, Call, BeginSearch, EndSearch, Abandon, RegisterServer, RemoveServer, SetServer, ChangeCredential, Pass, Work,
     vars, runVars
<1>3. ASSUME NEW r \in Callers, Load(r)
      PROVE  \A q \in Callers : sent[q] # <<>> => slug'[q] = slug[q]
  <2>1. sent[r] = <<>>
    BY <1>3 DEF Load, Unasked
  <2>2. slug' = slug \/ slug' = [slug EXCEPT ![r] = Resolved(r)]
    BY <1>3 DEF Load
  <2> QED
    BY <2>1, <2>2 DEF IInv, TypeOK
<1> QED
  BY <1>1, <1>2, <1>3

(* The run of a message has asked.                                          *)
LEMMA MessageSent ==
  ASSUME IInv, LogInv
  PROVE  \A m \in Messages : m.run \in Callers /\ sent[m.run] # <<>>
<1> SUFFICES ASSUME NEW m \in Messages
             PROVE  m.run \in Callers /\ sent[m.run] # <<>>
  OBVIOUS
<1>1. m.run \in Callers /\ m.attempt \in 1 .. Len(sent[m.run])
  BY MessageIsTyped DEF LogInv, Answered
<1>2. Len(sent[m.run]) # 0
  BY <1>1
<1> QED
  BY <1>1, <1>2, EmptySeq

LEMMA UnaskedKept ==
  ASSUME IInv, Unasked, [Next]_vars
  PROVE  Unasked'
<1>1. ASSUME NEW r \in Callers, TakenUp(r) \/ Asked(r) \/ Moved(r)
      PROVE  Unasked'
  <2>1. pc'[r] # "load" /\ \A q \in Callers \ {r} : pc'[q] = pc[q] /\ sent'[q] = sent[q]
    <3>1. pc'[r] # "load" /\ \A q \in Callers \ {r} : pc'[q] = pc[q]
      BY <1>1 DEF TakenUp, Asked, Moved, Onward, Failed, Later, Ended, IInv, TypeOK
    <3>2. \A q \in Callers \ {r} : sent'[q] = sent[q]
      BY <1>1 DEF TakenUp, Asked, Moved, IInv, TypeOK
    <3> QED
      BY <3>1, <3>2
  <2> QED
    BY <2>1 DEF Unasked
<1>2. CASE Worked \/ UNCHANGED <<pc, sent, usageVars>>
  BY <1>2 DEF Worked, Unasked
<1> QED
  BY <1>1, <1>2, StepIs

LEMMA PricedKept ==
  ASSUME IInv, LogInv, BookInv, [Next]_vars
  PROVE  Priced' /\ RowsPriced'
<1>1. \A m \in Messages : m.user = req'[m.run].user /\ m.priced = Config[slug'[m.run]].priced
  BY ConfigStays, MessageSent DEF BookInv, Priced
<1>2. CASE UNCHANGED usageVars
  <2>1. Messages' = Messages /\ rows' = rows
    BY <1>2 DEF Messages, RowMessages, usageVars
  <2> QED
    BY <1>1, <2>1 DEF Priced, RowsPriced, BookInv, Cost
<1>3. ASSUME NEW r \in Callers, TakenUp(r)
      PROVE  Priced' /\ RowsPriced'
  <2> DEFINE m == LastMessage(r)
  <2>1. Messages' = Messages \cup {m} /\ rows' = rows
    BY <1>3 DEF TakenUp, Enqueue, Messages, RowMessages
  <2>2. sent[r] # <<>>
    BY <1>3 DEF TakenUp, IInv, Begun
  <2>3. m.run = r /\ m.user = req'[r].user /\ m.priced = Config[slug'[r]].priced
    BY <2>2, ConfigStays DEF LastMessage, BookInv
  <2> HIDE DEF m
  <2> QED
    BY <1>1, <2>1, <2>3 DEF Priced, RowsPriced, BookInv, Cost
<1>4. CASE Worked
  <2>1. PICK m \in queue : Record(m) \/ LoseUsage(m)
    BY <1>4 DEF Worked
  <2>2. Messages' \subseteq Messages
    BY <2>1 DEF Record, AddRow, LoseUsage, Messages, RowMessages
  <2>3. \A row \in rows' : row \in rows \/ row.cost = Cost(row.message)
    BY <2>1 DEF Record, AddRow, LoseUsage
  <2> QED
    BY <1>1, <2>2, <2>3 DEF Priced, RowsPriced, BookInv, Cost
<1> QED
  BY <1>2, <1>3, <1>4, StepIs DEF Asked, Moved

LEMMA BookInvHolds == Spec => []BookInv
<1>1. Init => BookInv
  <2> SUFFICES ASSUME Init
               PROVE  BookInv
    OBVIOUS
  <2>1. Messages = {} /\ rows = {}
    BY DEF Init, UsageInit, Messages, RowMessages
  <2> QED
    BY <2>1 DEF Init, BookInv, Unasked, Priced, RowsPriced
<1>2. IInv /\ LogInv /\ BookInv /\ [Next]_vars => BookInv'
  BY UnaskedKept, PricedKept DEF BookInv
<1> QED
  BY <1>1, <1>2, InvariantHolds, LogInvHolds, PTL DEF Spec

(* What is told about a request is its charge.                              *)
LEMMA ToldIsCharge ==
  ASSUME IInv, LogInv, BookInv, NEW m \in Messages
  PROVE  <<m.run, m.attempt>> \in Made /\ Told(m, Cost(m)) = Charge(<<m.run, m.attempt>>)
<1>1. m.run \in Callers /\ m.attempt \in 1 .. Len(sent[m.run]) /\ m.tokens = sent[m.run][m.attempt]
  BY MessageIsTyped DEF LogInv, Answered
<1>2. m.attempt \in 1 .. RequestLimit
  BY <1>1, MessageIsTyped, CompletionPathAssumption DEF IInv, Begun
<1>3. <<m.run, m.attempt>> \in Made
  BY <1>1, <1>2 DEF Made
<1>4. Cost(m) = IF Config[slug[m.run]].priced THEN sent[m.run][m.attempt] ELSE 0
  BY <1>1 DEF Cost, BookInv, Priced
<1> QED
  BY <1>3, <1>4 DEF Told, Charge, BookInv, Priced

LEMMA MadeFinite ==
  ASSUME IInv, IsFiniteSet(Callers)
  PROVE  IsFiniteSet(Made) /\ IsFiniteSet(Charges) /\ \A c \in Charges : c.cost \in Nat
<1>1. IsFiniteSet(1 .. RequestLimit)
  BY CompletionPathAssumption, FS_Interval
<1>2. IsFiniteSet(Made)
  BY <1>1, FS_Product, FS_Subset DEF Made
<1> DEFINE charge == [q \in Made |-> Charge(q)]
<1>3. charge \in Surjection(Made, Charges)
  BY DEF Surjection, Charges
<1>4. IsFiniteSet(Charges)
  <2> HIDE DEF charge
  <2> QED
    BY <1>2, <1>3, FS_Surjection
<1>5. ASSUME NEW q \in Made
      PROVE  Charge(q).cost \in Nat
  <2>1. q[1] \in Callers /\ q[2] \in 1 .. Len(sent[q[1]])
    BY DEF Made
  <2>2. sent[q[1]] \in Seq(TokenCounts)
    BY <2>1 DEF IInv, TypeOK
  <2>3. sent[q[1]][q[2]] \in Nat
    BY <2>1, <2>2, ElementOfSeq, UsageLogAssumption
  <2> QED
    BY <2>3 DEF Charge
<1> QED
  BY <1>2, <1>4, <1>5 DEF Charges

(* The rows of a user cost what the requests they record cost.              *)
Paid(u) == {c \in ChargesFor(u) : \E row \in rows : c.request = <<row.message.run, row.message.attempt>>}

LEMMA RowsArePaid ==
  ASSUME IInv, LogInv, BookInv, NEW u \in Users
  PROVE  CostsIn(RowsFor(u)) = CostsIn(Paid(u)) /\ IsFiniteSet(RowsFor(u))
<1> DEFINE S == RowsFor(u)
           k == [row \in S |-> Told(row.message, row.cost)]
           R == {k[row] : row \in S}
<1>1. IsFiniteSet(S)
  BY FS_Subset DEF RowsFor, IInv, Finite
<1>2. \A row \in S : /\ row \in rows /\ row.message \in Messages /\ row.message.user = u
                     /\ row.cost = Cost(row.message) /\ row.cost \in Nat
  BY DEF RowsFor, Messages, RowMessages, BookInv, RowsPriced, IInv, TypeOK, UsageTypeOK, Logged
<1>3. \A row \in S : /\ k[row] = Charge(<<row.message.run, row.message.attempt>>)
                     /\ <<row.message.run, row.message.attempt>> \in Made
                     /\ k[row].request = <<row.message.run, row.message.attempt>>
                     /\ k[row].user = u /\ k[row].cost = row.cost
  BY <1>2, ToldIsCharge DEF Told
<1>4. \A a, b \in S : k[a] = k[b] => a = b
  <2> SUFFICES ASSUME NEW a \in S, NEW b \in S, k[a] = k[b]
               PROVE  a = b
    OBVIOUS
  <2>1. a.message.run = b.message.run /\ a.message.attempt = b.message.attempt
    <3>1. <<a.message.run, a.message.attempt>> = <<b.message.run, b.message.attempt>>
      <4> HIDE DEF k, S
      <4> QED
        BY <1>3
    <3> QED
      BY <3>1
  <2>2. a.message = b.message
    BY <1>2, <2>1 DEF LogInv, OneMessage
  <2> QED
    BY <1>2, <2>2 DEF LogInv, OnePlace
<1>5. R = Paid(u)
  <2>1. R \subseteq Paid(u)
    <3> SUFFICES ASSUME NEW row \in S
                 PROVE  k[row] \in Paid(u)
      OBVIOUS
    <3>1. k[row] \in Charges
      BY <1>3 DEF Charges
    <3> QED
      BY <1>2, <1>3, <3>1 DEF Paid, ChargesFor
  <2>2. ASSUME NEW c \in Paid(u)
        PROVE  c \in R
    <3>1. PICK row \in rows : c.request = <<row.message.run, row.message.attempt>>
      BY DEF Paid
    <3>2. PICK q \in Made : c = Charge(q)
      BY DEF Paid, ChargesFor, Charges
    <3>3. q = <<row.message.run, row.message.attempt>>
      BY <3>1, <3>2 DEF Charge
    <3>4. row.message \in Messages /\ row.cost = Cost(row.message)
      BY DEF Messages, RowMessages, BookInv, RowsPriced
    <3>5. Told(row.message, row.cost) = c
      BY <3>2, <3>3, <3>4, ToldIsCharge
    <3>6. row \in S
      BY <3>5 DEF RowsFor, Told, Paid, ChargesFor
    <3> QED
      BY <3>5, <3>6
  <2> QED
    BY <2>1, <2>2
<1>6. IsFiniteSet(R)
  <2>1. k \in Surjection(S, R)
    BY DEF Surjection
  <2> HIDE DEF k, S, R
  <2> QED
    BY <1>1, <2>1, FS_Surjection
<1>7. Total(Costs(R), R) = Total(Costs(S), S)
  <2>1. \A row \in S : Costs(S)[row] \in Nat /\ Costs(R)[k[row]] = Costs(S)[row]
    BY <1>2, <1>3 DEF Costs
  <2> HIDE DEF k, S
  <2> QED
    BY <1>1, <1>4, <2>1, TotalOfImage
<1>8. CostsIn(S) = Total(Costs(S), S) /\ CostsIn(R) = Total(Costs(R), R)
  <2> HIDE DEF k, S, R
  <2> QED
    BY <1>1, <1>6, CostIsTotal DEF CostsIn
<1> QED
  BY <1>1, <1>5, <1>7, <1>8

(* A request that was answered is paid or outstanding.                      *)
LEMMA PaidOrOutstanding ==
  ASSUME IInv, LogInv, BookInv, NEW u \in Users
  PROVE  Paid(u) \cup Outstanding(u) = ChargesFor(u) /\ Paid(u) \cap Outstanding(u) = {}
<1> SUFFICES ASSUME NEW c \in ChargesFor(u)
             PROVE  c \in Outstanding(u) <=> c \notin Paid(u)
  BY DEF Paid, Outstanding
<1>1. PICK q \in Made : c = Charge(q)
  BY DEF ChargesFor, Charges
<1> DEFINE r == q[1]
           k == q[2]
<1>2. r \in Callers /\ k \in 1 .. Len(sent[r]) /\ c.request = q /\ q = <<r, k>>
  BY <1>1 DEF Made, Charge
<1> HIDE DEF r, k
<1>3. c \in Paid(u) <=> \E m \in RowMessages : m.run = r /\ m.attempt = k
  BY <1>2 DEF Paid, RowMessages
<1>4. c \in Outstanding(u) <=>
        (k \in Unlogged(r) /\ Traces(r, k) = 0) \/ \E m \in queue \cup lost : m.run = r /\ m.attempt = k
  BY <1>2 DEF Outstanding
<1>5. Traces(r, k) = 0 <=> ~Logs(r, k)
  BY <1>2, TracesOf
<1>6. k \notin Unlogged(r) => Logs(r, k)
  BY <1>2 DEF LogInv, Already
<1>7. (\E m \in queue \cup lost : m.run = r /\ m.attempt = k) => ~\E m \in RowMessages : m.run = r /\ m.attempt = k
  BY DEF LogInv, OneMessage, OnePlace, Messages
<1> QED
  BY <1>3, <1>4, <1>5, <1>6, <1>7 DEF Logs, Messages

(* The books balance, for any finite number of runs: what a user's requests *)
(* cost is in the rows but for what waits, was lost or never left its run.  *)
THEOREM BooksBalanceHolds ==
  ASSUME IsFiniteSet(Callers)
  PROVE  Spec => []BooksBalance
<1>1. IInv /\ LogInv /\ BookInv => BooksBalance
  <2> SUFFICES ASSUME IInv, LogInv, BookInv, NEW u \in Users
               PROVE  CostsIn(ChargesFor(u)) = CostsIn(RowsFor(u)) + CostsIn(Outstanding(u))
    BY DEF BooksBalance
  <2> DEFINE C == ChargesFor(u)
  <2>1. IsFiniteSet(C) /\ \A c \in C : c.cost \in Nat
    BY MadeFinite, FS_Subset DEF ChargesFor
  <2>2. Paid(u) \subseteq C /\ Outstanding(u) \subseteq C
    BY DEF Paid, Outstanding
  <2>3. IsFiniteSet(Paid(u)) /\ IsFiniteSet(Outstanding(u))
    BY <2>1, <2>2, FS_Subset
  <2>4. Paid(u) \cup Outstanding(u) = C /\ Paid(u) \cap Outstanding(u) = {}
    BY PaidOrOutstanding
  <2>5. \A c \in Paid(u) \cup Outstanding(u) : Costs(C)[c] \in Nat
    BY <2>1, <2>4 DEF Costs
  <2> HIDE DEF C
  <2>6. Total(Costs(C), Paid(u) \cup Outstanding(u)) = Total(Costs(C), Paid(u)) + Total(Costs(C), Outstanding(u))
    BY <2>3, <2>4, <2>5, TotalUnion
  <2>7. /\ CostsIn(C) = Total(Costs(C), C)
        /\ CostsIn(Paid(u)) = Total(Costs(C), Paid(u))
        /\ CostsIn(Outstanding(u)) = Total(Costs(C), Outstanding(u))
    BY <2>1, <2>2, CostIsTotal DEF CostsIn
  <2> QED
    BY <2>4, <2>6, <2>7, RowsArePaid DEF C
<1> QED
  BY <1>1, InvariantHolds, LogInvHolds, BookInvHolds, PTL
-------------------------------------------------------------------------------
(* The refinement of UsageLedger.                                           *)

LEMMA ChargesStay ==
  ASSUME IInv, Unasked, [Next]_vars
  PROVE  /\ \A q \in Made : /\ slug'[q[1]] = slug[q[1]] /\ req' = req
                            /\ q[1] \in Callers /\ q[2] \in 1 .. Len(sent[q[1]])
         /\ sent' = sent => Charges' = Charges
<1>1. ASSUME NEW q \in Made
      PROVE  slug'[q[1]] = slug[q[1]] /\ q[1] \in Callers /\ q[2] \in 1 .. Len(sent[q[1]])
  <2>1. q[1] \in Callers /\ q[2] \in 1 .. RequestLimit /\ q[2] <= Len(sent[q[1]])
    BY DEF Made
  <2>2. sent[q[1]] \in Seq(TokenCounts) /\ Len(sent[q[1]]) \in Nat
    BY <2>1, LenProperties DEF IInv, TypeOK
  <2>3. q[2] \in 1 .. Len(sent[q[1]]) /\ Len(sent[q[1]]) # 0
    BY <2>1, <2>2, CompletionPathAssumption
  <2>4. sent[q[1]] # <<>>
    BY <2>3, EmptySeq
  <2> QED
    BY <2>1, <2>3, <2>4, ConfigStays
<1>2. req' = req
  BY ConfigStays
<1>3. ASSUME sent' = sent
      PROVE  Charges' = Charges
  <2>1. Made' = Made
    BY <1>3 DEF Made
  <2> QED
    BY <1>1, <1>2, <1>3, <2>1 DEF Charges, Charge
<1> QED
  BY <1>1, <1>2, <1>3

LEMMA AskedAnswers ==
  ASSUME IInv, Unasked, [Next]_vars, NEW r \in Callers, Asked(r)
  PROVE  \E c \in Charges' \ Charges : c \in Ledger!Charges /\ (\A d \in Charges : d.request # c.request)
                                       /\ Charges' = Charges \cup {c}
<1> DEFINE k == Len(sent[r]) + 1
           new == <<r, k>>
           c == [request |-> new, user |-> req[r].user,
                 cost |-> IF Config[slug'[r]].priced THEN sent'[r][k] ELSE 0]
<1>1. PICK n \in TokenCounts : sent' = [sent EXCEPT ![r] = Append(@, n)]
  BY DEF Asked
<1>2. /\ sent[r] \in Seq(TokenCounts) /\ Len(sent[r]) \in Nat /\ sent'[r] = Append(sent[r], n)
      /\ \A q \in Callers \ {r} : sent'[q] = sent[q]
  BY <1>1, MessageIsTyped DEF IInv, TypeOK
<1>3. Len(sent'[r]) = k /\ sent'[r][k] = n /\ \A i \in 1 .. Len(sent[r]) : sent'[r][i] = sent[r][i]
  BY <1>2, AppendProperties
<1>4. Len(sent[r]) < RequestLimit /\ k \in 1 .. RequestLimit /\ n \in Nat
  BY <1>2, UsageLogAssumption, CompletionPathAssumption DEF Asked, IInv, Begun
<1>5. Made' = Made \cup {new} /\ new \notin Made
  <2>1. \A q \in Callers \X (1 .. RequestLimit) : q[2] <= Len(sent'[q[1]]) <=> q[2] <= Len(sent[q[1]]) \/ q = new
    <3> SUFFICES ASSUME NEW q \in Callers \X (1 .. RequestLimit)
                 PROVE  q[2] <= Len(sent'[q[1]]) <=> q[2] <= Len(sent[q[1]]) \/ q = new
      OBVIOUS
    <3>1. q = <<q[1], q[2]>> /\ q[1] \in Callers /\ q[2] \in 1 .. RequestLimit
      OBVIOUS
    <3>2. CASE q[1] = r
      BY <1>2, <1>3, <1>4, <3>1, <3>2
    <3>3. CASE q[1] # r
      BY <1>2, <3>1, <3>3
    <3> QED
      BY <3>2, <3>3
  <2>2. new \in Callers \X (1 .. RequestLimit) /\ ~(new[2] <= Len(sent[new[1]]))
    BY <1>2, <1>4
  <2> HIDE DEF new
  <2> QED
    BY <2>1, <2>2 DEF Made
<1>6. \A q \in Made : sent'[q[1]][q[2]] = sent[q[1]][q[2]]
  BY <1>2, <1>3, ChargesStay
<1>7. Charges' = Charges \cup {c}
  <2>1. Charges' = {[request |-> q, user |-> req'[q[1]].user,
                     cost |-> IF Config[slug'[q[1]]].priced THEN sent'[q[1]][q[2]] ELSE 0] : q \in Made'}
    BY DEF Charges, Charge
  <2>2. \A q \in Made :
          [request |-> q, user |-> req'[q[1]].user,
           cost |-> IF Config[slug'[q[1]]].priced THEN sent'[q[1]][q[2]] ELSE 0] = Charge(q)
    BY <1>6, ChargesStay DEF Charge
  <2>3. c = [request |-> new, user |-> req'[new[1]].user,
             cost |-> IF Config[slug'[new[1]]].priced THEN sent'[new[1]][new[2]] ELSE 0]
    BY ConfigStays
  <2> HIDE DEF c, new
  <2> QED
    BY <1>5, <2>1, <2>2, <2>3 DEF Charges
<1>8. \A d \in Charges : d.request # c.request
  BY <1>5 DEF Charges, Charge
<1>9. c \in Ledger!Charges
  <2>1. req[r].user \in Users
    BY ResolvedType DEF IInv
  <2> QED
    BY <1>3, <1>4, <2>1 DEF Ledger!Charges
<1> QED
  <2> HIDE DEF c
  <2> QED
    BY <1>7, <1>8, <1>9

(* A row adds its cost to those of its user.                                *)
LEMMA CostsGrow ==
  ASSUME NEW S, IsFiniteSet(S), NEW x, x \notin S, \A y \in S \cup {x} : y.cost \in Nat
  PROVE  CostsIn(S \cup {x}) = CostsIn(S) + x.cost
<1> DEFINE R == S \cup {x}
<1>1. IsFiniteSet(R)
  BY FS_AddElement
<1>2. \A y \in R : Costs(R)[y] = y.cost
  BY DEF Costs
<1>3. CostsIn(R) = Total(Costs(R), R) /\ CostsIn(S) = Total(Costs(R), S)
  <2>1. S \in SUBSET R /\ R \in SUBSET R
    OBVIOUS
  <2> HIDE DEF R
  <2> QED
    BY <1>1, <2>1, CostIsTotal DEF CostsIn
<1>4. Total(Costs(R), S \cup {x}) = x.cost + Total(Costs(R), S)
  <2>1. \A y \in S \cup {x} : Costs(R)[y] \in Nat
    BY <1>2
  <2>2. Costs(R)[x] = x.cost
    BY <1>2
  <2> HIDE DEF R
  <2> QED
    BY <2>1, <2>2, TotalAdd
<1>5. Total(Costs(R), S) \in Nat
  <2>1. \A y \in S : Costs(R)[y] \in Nat
    BY <1>2
  <2> HIDE DEF R
  <2> QED
    BY <2>1, TotalType
<1> QED
  BY <1>3, <1>4, <1>5

NoCosts == CostsIn({}) = 0

LEMMA NoCostsHolds == NoCosts
<1>1. IsFiniteSet({})
  BY FS_EmptySet
<1>2. CostsIn({}) = Total(Costs({}), {})
  BY <1>1, CostIsTotal DEF CostsIn
<1> QED
  BY <1>1, <1>2, TotalStep DEF NoCosts

Missed == {Told(m, Cost(m)) : m \in lost}

LEMMA RecordEnters ==
  ASSUME IInv, LogInv, BookInv, NEW m \in queue, Record(m), Charges' = Charges
  PROVE  \E c \in Ledger!Due : Ledger!Enter(c)
<1> DEFINE added == [message |-> m, cost |-> Cost(m), copy |-> Cardinality(RowsOf(m))]
           c == Told(m, Cost(m))
<1>1. rows' = rows \cup {added} /\ lost' = lost /\ added.message = m /\ added.cost = Cost(m)
  BY DEF Record, AddRow
<1>2. c.user = m.user /\ c.cost = Cost(m)
  BY DEF Told
<1>3. m \in Messages /\ m \in Message /\ m.user \in Users /\ Cost(m) \in Nat
  BY UsageLogAssumption DEF Messages, IInv, TypeOK, UsageTypeOK, Message, Cost
<1> HIDE DEF added
<1>4. c \in Charges
  BY <1>3, ToldIsCharge DEF Charges
<1>5. c \notin Recorded /\ c \notin Missed
  <2>1. \A o \in Messages : o # m => Told(o, Cost(o)).request # c.request
    BY <1>3 DEF LogInv, OneMessage, Told
  <2>2. \A row \in rows : row.message \in Messages /\ row.message # m /\ row.cost = Cost(row.message)
    BY DEF LogInv, OnePlace, Messages, RowMessages, BookInv, RowsPriced
  <2>3. \A o \in lost : o \in Messages /\ o # m
    BY DEF LogInv, OnePlace, Messages
  <2> HIDE DEF c
  <2> QED
    BY <2>1, <2>2, <2>3 DEF Recorded, Missed
<1>6. Recorded' = Recorded \cup {c} /\ Missed' = Missed
  <2>1. Recorded' = {Told(row.message, row.cost) : row \in rows'}
    BY DEF Recorded, Told
  <2>2. Told(added.message, added.cost) = c
    BY <1>1
  <2> HIDE DEF c
  <2> QED
    BY <1>1, <2>1, <2>2 DEF Recorded, Missed
<1>7. [u \in Users |-> CostsIn(RowsFor(u))]' = [[u \in Users |-> CostsIn(RowsFor(u))] EXCEPT ![c.user] = @ + c.cost]
  <2>1. ASSUME NEW u \in Users
        PROVE  CostsIn(RowsFor(u)') = IF u = m.user THEN CostsIn(RowsFor(u)) + Cost(m) ELSE CostsIn(RowsFor(u))
    <3>1. RowsFor(u)' = IF u = m.user THEN RowsFor(u) \cup {added} ELSE RowsFor(u)
      BY <1>1 DEF RowsFor
    <3>2. added \notin RowsFor(u)
      BY <1>1 DEF RowsFor, LogInv, OnePlace, RowMessages
    <3>3. IsFiniteSet(RowsFor(u)) /\ \A row \in RowsFor(u) \cup {added} : row.cost \in Nat
      <4>1. \A row \in RowsFor(u) : row.cost \in Nat
        BY DEF RowsFor, IInv, TypeOK, UsageTypeOK, Logged
      <4> QED
        BY <1>1, <1>3, <4>1, RowsArePaid
    <3>4. CostsIn(RowsFor(u) \cup {added}) = CostsIn(RowsFor(u)) + Cost(m)
      BY <1>1, <3>2, <3>3, CostsGrow
    <3> QED
      BY <3>1, <3>4
  <2>2. [u \in Users |-> CostsIn(RowsFor(u))]' = [u \in Users |-> CostsIn(RowsFor(u)')]
    OBVIOUS
  <2> HIDE DEF c
  <2> QED
    BY <1>2, <1>3, <2>1, <2>2
<1> QED
  <2> HIDE DEF c
  <2> QED
    BY <1>4, <1>5, <1>6, <1>7 DEF Ledger!Due, Ledger!Enter, Missed

LEMMA LossMisses ==
  ASSUME IInv, LogInv, BookInv, NEW m \in queue, LoseUsage(m), Charges' = Charges
  PROVE  \E c \in Ledger!Due : Ledger!Miss(c)
<1> DEFINE c == Told(m, Cost(m))
<1>1. rows' = rows /\ lost' = lost \cup {m}
  BY DEF LoseUsage
<1>2. m \in Messages
  BY DEF Messages
<1>3. c \in Charges
  BY <1>2, ToldIsCharge DEF Charges
<1>4. c \notin Recorded /\ c \notin Missed
  <2>1. \A o \in Messages : o # m => Told(o, Cost(o)).request # c.request
    BY <1>2 DEF LogInv, OneMessage, Told
  <2>2. \A row \in rows : row.message \in Messages /\ row.message # m /\ row.cost = Cost(row.message)
    BY DEF LogInv, OnePlace, Messages, RowMessages, BookInv, RowsPriced
  <2>3. \A o \in lost : o \in Messages /\ o # m
    BY DEF LogInv, OnePlace, Messages
  <2> HIDE DEF c
  <2> QED
    BY <2>1, <2>2, <2>3 DEF Recorded, Missed
<1>5. Missed' = Missed \cup {c} /\ Recorded' = Recorded
  <2>1. Missed' = {Told(o, Cost(o)) : o \in lost'}
    BY DEF Missed, Told, Cost
  <2> QED
    BY <1>1, <2>1 DEF Recorded, Missed
<1>6. UNCHANGED [u \in Users |-> CostsIn(RowsFor(u))]
  BY <1>1 DEF RowsFor
<1> QED
  <2> HIDE DEF c
  <2> QED
    BY <1>3, <1>4, <1>5, <1>6 DEF Ledger!Due, Ledger!Miss, Missed

(* For any number of runs, whatever fails and whenever: the log of model    *)
(* requests implements UsageLedger.                                         *)
THEOREM LedgerRefinement == Spec => LedgerKept
<1>1. Init => Ledger!Init
  <2> SUFFICES ASSUME Init
               PROVE  Ledger!Init
    OBVIOUS
  <2>1. rows = {} /\ lost = {} /\ \A r \in Callers : sent[r] = <<>>
    BY DEF Init, UsageInit
  <2>2. Made = {}
    BY <2>1, CompletionPathAssumption DEF Made
  <2>3. Charges = {} /\ Recorded = {} /\ Missed = {} /\ \A u \in Users : RowsFor(u) = {}
    BY <2>1, <2>2 DEF Charges, Recorded, Missed, RowsFor
  <2>4. \A u \in Users : CostsIn(RowsFor(u)) = 0
    BY <2>3, NoCostsHolds DEF NoCosts
  <2> QED
    BY <2>3, <2>4 DEF Ledger!Init, Missed
<1>2. IInv /\ LogInv /\ BookInv /\ [Next]_vars => [Ledger!Next]_(Ledger!vars)
  <2> SUFFICES ASSUME IInv, LogInv, BookInv, [Next]_vars
               PROVE  Ledger!Next \/ UNCHANGED Ledger!vars
    OBVIOUS
  <2>0. Unasked
    BY DEF BookInv
  <2>1. rows' = rows /\ lost' = lost /\ Charges' = Charges => UNCHANGED Ledger!vars
    BY DEF Ledger!vars, Recorded, RowsFor, Told, Cost
  <2>2. ASSUME NEW r \in Callers, TakenUp(r) \/ Moved(r)
        PROVE  UNCHANGED Ledger!vars
    <3>1. rows' = rows /\ lost' = lost /\ sent' = sent
      BY <2>2 DEF TakenUp, Moved, Enqueue, usageVars
    <3> QED
      BY <2>0, <2>1, <3>1, ChargesStay
  <2>3. ASSUME NEW r \in Callers, Asked(r)
        PROVE  Ledger!Next
    <3>1. PICK c \in Charges' \ Charges :
            c \in Ledger!Charges /\ (\A d \in Charges : d.request # c.request) /\ Charges' = Charges \cup {c}
      BY <2>0, <2>3, AskedAnswers
    <3>2. UNCHANGED <<Recorded, Missed, [u \in Users |-> CostsIn(RowsFor(u))]>>
      BY <2>3 DEF Asked, usageVars, Recorded, Missed, RowsFor, Told, Cost
    <3>3. Ledger!Answer(c)
      BY <3>1, <3>2 DEF Ledger!Answer, Missed
    <3> QED
      BY <3>1, <3>3 DEF Ledger!Next
  <2>4. CASE Worked
    <3>1. PICK m \in queue : Record(m) \/ LoseUsage(m)
      BY <2>4 DEF Worked
    <3>2. Charges' = Charges
      BY <2>0, <2>4, ChargesStay DEF Worked
    <3> QED
      BY <3>1, <3>2, RecordEnters, LossMisses DEF Ledger!Next
  <2>5. CASE UNCHANGED <<pc, sent, usageVars>>
    BY <2>0, <2>1, <2>5, ChargesStay DEF usageVars
  <2> QED
    BY <2>2, <2>3, <2>4, <2>5, StepIs
<1> QED
  BY <1>1, <1>2, InvariantHolds, LogInvHolds, BookInvHolds, PTL DEF Spec, LedgerKept, Ledger!Spec
===============================================================================
