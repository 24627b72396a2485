---------------------------- MODULE CompletionPath ----------------------------
(* Completions, summaries and scans from the request to the answer: the     *)
(* config is loaded, the tools of its servers are listed, the model asked,  *)
(* the tools it calls are run, and each model request is logged.  Sessions  *)
(* with the database are short, but one that applies credentials waits for  *)
(* the issuer of tokens, and a search for the embedding provider.           *)
EXTENDS Naturals, Sequences, FiniteSets, FiniteSetsExt, Credentials, DelegatedTokens, UsageLog

CONSTANTS
  Slugs,
  Config,        (* Config[s]: its type and output schema, whether its      *)
                 (* price is known, its tools and its max_tool_rounds       *)
  DefaultSlug,   (* DefaultSlug[k]: the default config of a type, if any    *)
  Servers,       (* MCP servers                                             *)
  CredentialOf,  (* CredentialOf[s]: the credential of a server, if any     *)
  Requests,      (* requests of clients                                     *)
  PoolSize       (* connections of the pool                                 *)

Search == "search_knowledge_base"
Text   == "text"
Malformed == "malformed"

Tools   == Servers \cup {Search}
Replies == Tools \cup {Text, Malformed}

Kinds   == {"chat", "summary", "scan"}
Schemas == {"none", "flat", "nested"}   (* nested: one schema_to_model refuses *)

(* url: whether the URL of a file, if there is one, is accepted.            *)
Request == [kind : Kinds, user : Users, model : Slugs \cup {Absent}, unknown : BOOLEAN,
            stream : BOOLEAN, url : {"none", "good", "bad"}]

ASSUME CompletionPathAssumption ==
  /\ Config \in [Slugs -> [type : Kinds \cup {"embedding"}, schema : Schemas,
                        priced : BOOLEAN, tools : SUBSET Tools, rounds : Nat]]
  /\ DefaultSlug \in [Kinds -> Slugs \cup {Absent}] /\ Absent \notin Slugs
  /\ CredentialOf \in [Servers -> CredentialIds \cup {Absent}]
  /\ Requests \subseteq Request
  /\ Servers \cap {Search, Text, Malformed} = {}
  /\ Values \subseteq Strings
  /\ PoolSize \in Nat \ {0} /\ RequestLimit \in Nat \ {0}

VARIABLES
  pc,            (* pc[r]: where a run is, or the status of its answer      *)
  req,
  slug,          (* slug[r]: the config of the run                          *)
  tools,         (* tools[r]: the tools it offers the model                 *)
  reply,         (* reply[r]: the answer of the model being dealt with      *)
  todo,          (* todo[r]: servers whose credential its session applies   *)
  retries,       (* retries[r]: answers that did not conform to the schema  *)
  sent,          (* sent[r]: the tokens of each model request answered      *)
  grant,         (* grant[r]: the delegated token a call carries            *)
  held,          (* runs that hold a connection of the pool                 *)
  servers        (* servers[s]: whether it is registered                    *)

runVars == <<pc, req, slug, tools, reply, todo, retries, sent, grant, held, servers>>
vars == <<runVars, credentialVars, tokenVars, usageVars>>

Running == {"load", "list", "apply", "token", "fetch", "asking", "stream", "log",
            "connect", "call", "search", "embed"}
Ended   == {"200", "404", "422", "500", "502", "broken", "abandoned", "interrupted"}

(* The runs that are amid a session with the database.                      *)
InSession == {"apply", "token", "embed"}

NoGrant == [key |-> Absent]   (* no delegated token *)

(* A server is registered with a credential that exists, or with none.      *)
HasCredential(s) == CredentialOf[s] # Absent => credential[CredentialOf[s]].state = "live"

LiveServers == {s \in Servers : servers[s] = "live"}

Init ==
  /\ CredentialsInit /\ TokensInit /\ UsageInit
  /\ pc = [r \in Callers |-> "load"]
  /\ req \in [Callers -> Requests]
  /\ slug = [r \in Callers |-> Absent]
  /\ tools = [r \in Callers |-> {}]
  /\ reply = [r \in Callers |-> Text]
  /\ todo = [r \in Callers |-> {}]
  /\ retries = [r \in Callers |-> 0]
  /\ sent = [r \in Callers |-> <<>>]
  /\ grant = [r \in Callers |-> NoGrant]
  /\ held = {}
  /\ servers \in [Servers -> {"new", "live"}]
  /\ \A s \in LiveServers : HasCredential(s)

(* Where the run goes; with the answer dealt with, none is left.            *)
Goto(r, there) ==
  /\ pc' = [pc EXCEPT ![r] = there]
  /\ reply' = IF there \in Ended \cup {"asking"} THEN [reply EXCEPT ![r] = Text] ELSE reply

(* Once a stream has begun its status is sent: an error just cuts it off.   *)
Status(r, code) == IF req[r].stream THEN "broken" ELSE code

(* Faulty: one connection too many.                                         *)
HasOneMore == Cardinality(held) <= PoolSize

HasConnection == Cardinality(held) < PoolSize

-------------------------------------------------------------------------------
(* Before the model is asked: a short session each.                         *)

Resolved(r) == IF req[r].model = Absent THEN DefaultSlug[req[r].kind] ELSE req[r].model
SchemaOf(r) == Config[Resolved(r)].schema

(* Only chats are particular about the type of the config that is named;    *)
(* summaries look at the URL before they look for a config.                 *)
Unprocessable(r) ==
  \/ req[r].kind = "chat" /\ (Config[Resolved(r)].type # "chat" \/ SchemaOf(r) = "nested")
  \/ req[r].stream /\ SchemaOf(r) # "none"
  \/ req[r].kind = "scan" /\ (req[r].url = "bad" \/ SchemaOf(r) # "flat")

Refusal(r) ==
  IF req[r].kind = "summary" /\ req[r].url = "bad" THEN "422"
  ELSE IF Resolved(r) = Absent \/ req[r].unknown THEN "404"
  ELSE IF Unprocessable(r) THEN "422"
  ELSE "none"

(* Chats list the tools of their servers next.                              *)
Load(r) ==
  /\ pc[r] = "load" /\ HasConnection
  /\ IF Refusal(r) = "none"
     THEN /\ slug' = [slug EXCEPT ![r] = Resolved(r)]
          /\ Goto(r, IF req[r].kind = "chat" THEN "list" ELSE "asking")
     ELSE Goto(r, Refusal(r)) /\ UNCHANGED slug
  /\ UNCHANGED <<req, tools, todo, retries, sent, grant, held, servers, credentialVars, tokenVars, usageVars>>

(* No connection came free within pool_timeout: a 500, and in a run that    *)
(* has begun the end of it.                                                 *)
PoolTimeout(r) ==
  /\ pc[r] \in {"load", "list", "connect", "search"} /\ ~HasConnection
  /\ Goto(r, IF pc[r] \in {"load", "list"} THEN "500" ELSE Status(r, "500"))
  /\ UNCHANGED <<req, slug, tools, todo, retries, sent, grant, held, servers, credentialVars, tokenVars, usageVars>>

-------------------------------------------------------------------------------
(* The requests to the model.                                               *)

AskAgain(r) == Goto(r, IF Len(sent[r]) < RequestLimit THEN "asking" ELSE Status(r, "500"))

(* A summary takes text, whatever schema its config has.                    *)
Structured(r) == Config[slug[r]].schema # "none" /\ req[r].kind # "summary"

MayReply(r) == tools[r] \cup {Text} \cup (IF Structured(r) THEN {Malformed} ELSE {})

(* A stream passes the answer on as it comes in.                            *)
ProviderAnswers(r) ==
  /\ pc[r] = "asking"
  /\ \E answer \in MayReply(r), n \in TokenCounts :
       /\ reply' = [reply EXCEPT ![r] = answer]
       /\ sent' = [sent EXCEPT ![r] = Append(@, n)]
  /\ pc' = [pc EXCEPT ![r] = IF req[r].stream THEN "stream" ELSE "log"]
  /\ UNCHANGED <<req, slug, tools, todo, retries, grant, held, servers, credentialVars, tokenVars, usageVars>>

StreamEnds(r) ==
  /\ pc[r] = "stream"
  /\ Goto(r, "log")
  /\ UNCHANGED <<req, slug, tools, todo, retries, sent, grant, held, servers, credentialVars, tokenVars, usageVars>>

(* 502 stands for the 504 of a provider that takes too long, too.           *)
ProviderFails(r) ==
  /\ pc[r] \in {"asking", "stream"}
  /\ Goto(r, Status(r, "502"))
  /\ UNCHANGED <<req, slug, tools, todo, retries, sent, grant, held, servers, credentialVars, tokenVars, usageVars>>

LastMessage(r) ==
  [run |-> r, attempt |-> Len(sent[r]), user |-> req[r].user,
   tokens |-> sent[r][Len(sent[r])], priced |-> Config[slug[r]].priced]

(* output_retries: the config's max_tool_rounds, for a scan the agent's 1.  *)
Allowed(r) == IF req[r].kind = "chat" THEN Config[slug[r]].rounds ELSE 1

(* What the agent does with the answer: one that does not conform to the    *)
(* schema is asked for again, and after the retries the provider's error.   *)
AfterLog(r) ==
  /\ retries' = IF reply[r] = Malformed THEN [retries EXCEPT ![r] = @ + 1] ELSE retries
  /\ CASE reply[r] = Text      -> Goto(r, "200")
       [] reply[r] = Malformed -> IF retries[r] < Allowed(r) THEN AskAgain(r) ELSE Goto(r, Status(r, "502"))
       [] reply[r] = Search    -> Goto(r, "search")
       [] OTHER                -> Goto(r, "connect")

(* Faulty: goes on whether the message was taken or not.                    *)
LogLeniently(r) ==
  /\ pc[r] = "log"
  /\ Enqueue(LastMessage(r)) \/ UNCHANGED usageVars
  /\ AfterLog(r)
  /\ UNCHANGED <<req, slug, tools, todo, sent, grant, held, servers, credentialVars, tokenVars>>

(* _enqueue_usage: a broker that cannot be reached fails the completion.    *)
Log(r) ==
  /\ pc[r] = "log"
  /\ \/ Enqueue(LastMessage(r)) /\ AfterLog(r)
     \/ Goto(r, Status(r, "500")) /\ UNCHANGED <<retries, usageVars>>
  /\ UNCHANGED <<req, slug, tools, todo, sent, grant, held, servers, credentialVars, tokenVars>>

-------------------------------------------------------------------------------
(* Credentials: before the model is asked a session applies those of all    *)
(* servers of the config, for their tools to be fetched, and at each call   *)
(* of a tool one applies that of its server.                                *)

OpenSession(r, S) ==
  /\ Goto(r, "apply")
  /\ todo' = [todo EXCEPT ![r] = S]
  /\ held' = held \cup {r}

AttachedServers(r) == Config[slug[r]].tools \cap LiveServers

ListTools(r) ==
  /\ pc[r] = "list" /\ HasConnection
  /\ tools' = [tools EXCEPT ![r] = Config[slug[r]].tools \cap {Search}]
  /\ IF AttachedServers(r) # {} THEN OpenSession(r, AttachedServers(r))
     ELSE Goto(r, "fetch") /\ UNCHANGED <<todo, held>>
  /\ UNCHANGED <<req, slug, retries, sent, grant, servers, credentialVars, tokenVars, usageVars>>

(* The model is told of a server that was removed since its tools were      *)
(* listed.                                                                  *)
Connect(r) ==
  /\ pc[r] = "connect" /\ HasConnection
  /\ IF reply[r] \in LiveServers THEN OpenSession(r, {reply[r]})
     ELSE AskAgain(r) /\ UNCHANGED <<todo, held>>
  /\ UNCHANGED <<req, slug, tools, retries, sent, grant, servers, credentialVars, tokenVars, usageVars>>

Calling(r) == reply[r] \in Servers

(* The servers in their order, which nothing depends on.                    *)
Target(r) == CHOOSE s \in todo[r] : TRUE

CredentialId(r) == CredentialOf[Target(r)]
TypeOf(r)    == credential[CredentialId(r)].type
Found(r)     == credential[CredentialId(r)].state = "live"
Delegated(r) == TypeOf(r) = "delegated_identies_exchange"

WantedKey(r) ==
  <<req[r].user, FieldsOf(CredentialId(r))["audience"], FieldsOf(CredentialId(r))["scopes"]>>

(* A server without headers: the listing leaves it out, a call ends the run. *)
Done(r, headers) ==
  LET left == todo[r] \ {Target(r)}
  IN /\ todo' = [todo EXCEPT ![r] = left]
     /\ tools' = IF headers /\ ~Calling(r) THEN [tools EXCEPT ![r] = @ \cup {Target(r)}] ELSE tools
     /\ held' = IF left = {} THEN held \ {r} ELSE held
     /\ Goto(r, IF left # {} THEN "apply"
               ELSE IF ~Calling(r) THEN "fetch"
               ELSE IF headers THEN "call"
               ELSE Status(r, "500"))
     /\ UNCHANGED <<req, slug, retries, sent, servers, credentialVars, usageVars>>

(* Only a call needs to remember what it sends.                             *)
Carry(r, token) == grant' = IF Calling(r) THEN [grant EXCEPT ![r] = token] ELSE grant

UseStatic(r) ==
  /\ pc[r] = "apply"
  /\ CredentialId(r) # Absent =>
       Found(r) /\ Usable(CredentialId(r)) /\ ~Delegated(r) /\ TypeOf(r) # "m2m_identies"
  /\ Done(r, TRUE)
  /\ UNCHANGED <<grant, tokenVars>>

(* The credential is gone, cannot be decrypted or lacks a value.            *)
CredentialFails(r) ==
  /\ pc[r] = "apply" /\ CredentialId(r) # Absent
  /\ ~Found(r) \/ ~Usable(CredentialId(r))
  /\ Done(r, FALSE)
  /\ UNCHANGED <<grant, tokenVars>>

NeedsToken(r) ==
  /\ pc[r] = "apply" /\ CredentialId(r) # Absent
  /\ Found(r) /\ Usable(CredentialId(r)) /\ Delegated(r)

UseCachedToken(r) ==
  /\ NeedsToken(r)
  /\ \E e \in Cached(WantedKey(r)) : Carry(r, e.token)
  /\ Done(r, TRUE)
  /\ UNCHANGED tokenVars

(* The token of the service is fetched for an exchange, too.                *)
BeginExchange(r) ==
  /\ NeedsToken(r) /\ Cached(WantedKey(r)) = {}
  /\ AskToken(r, WantedKey(r))
  /\ Goto(r, "token")
  /\ UNCHANGED <<req, slug, tools, todo, retries, sent, grant, held, servers, credentialVars, usageVars>>

BeginM2M(r) ==
  /\ pc[r] = "apply" /\ CredentialId(r) # Absent
  /\ Found(r) /\ TypeOf(r) = "m2m_identies"
  /\ Goto(r, "token")
  /\ UNCHANGED <<req, slug, tools, todo, retries, sent, grant, held, servers, credentialVars, tokenVars, usageVars>>

TokenArrives(r) ==
  /\ pc[r] = "token"
  /\ IF exchange[r] # NoExchange THEN KeepToken(r) /\ Carry(r, exchange[r].token)
     ELSE UNCHANGED <<grant, tokenVars>>
  /\ Done(r, TRUE)

(* Faulty: an error leaves the session open.                                *)
TokenFailsHolding(r) ==
  /\ pc[r] = "token" /\ Calling(r)
  /\ LoseToken(r)
  /\ todo' = [todo EXCEPT ![r] = {}]
  /\ Goto(r, Status(r, "500"))
  /\ UNCHANGED <<req, slug, tools, retries, sent, grant, held, servers, credentialVars, usageVars>>

TokenFails(r) ==
  /\ pc[r] = "token"
  /\ LoseToken(r)
  /\ Done(r, FALSE)
  /\ UNCHANGED grant

(* ToolCatalog answers for each server that could be reached.               *)
FetchTools(r) ==
  /\ pc[r] = "fetch"
  /\ \E failed \in SUBSET Servers : tools' = [tools EXCEPT ![r] = @ \ failed]
  /\ Goto(r, "asking")
  /\ UNCHANGED <<req, slug, todo, retries, sent, grant, held, servers, credentialVars, tokenVars, usageVars>>

(* Whatever the call brings, a result, an error or a timeout, goes back to  *)
(* the model.                                                               *)
Call(r) ==
  /\ pc[r] = "call"
  /\ grant' = [grant EXCEPT ![r] = NoGrant]
  /\ AskAgain(r)
  /\ UNCHANGED <<req, slug, tools, todo, retries, sent, held, servers, credentialVars, tokenVars, usageVars>>

-------------------------------------------------------------------------------
(* A search of the knowledge base: the query is embedded in the session.    *)

BeginSearch(r) ==
  /\ pc[r] = "search" /\ HasConnection
  /\ \/ AskAgain(r) /\ UNCHANGED held    (* no default embedding config *)
     \/ Goto(r, "embed") /\ held' = held \cup {r}
  /\ UNCHANGED <<req, slug, tools, todo, retries, sent, grant, servers, credentialVars, tokenVars, usageVars>>

(* An error of the embedding provider ends the run.                         *)
EndSearch(r) ==
  /\ pc[r] = "embed"
  /\ held' = held \ {r}
  /\ AskAgain(r) \/ Goto(r, Status(r, "500"))
  /\ UNCHANGED <<req, slug, tools, todo, retries, sent, grant, servers, credentialVars, tokenVars, usageVars>>

-------------------------------------------------------------------------------
(* What happens around the runs.                                            *)

(* The client of a stream goes away.  Threads that work on a token, a       *)
(* search or the log go on to their end; but the rest of request_stream     *)
(* does not run when its answer is interrupted, so nothing is logged.       *)
Abandon(r) ==
  /\ req[r].stream /\ pc[r] \in {"asking", "stream", "log", "call"}
  /\ UNCHANGED usageVars \/ (pc[r] = "log" /\ Enqueue(LastMessage(r)))
  /\ grant' = [grant EXCEPT ![r] = NoGrant]
  /\ Goto(r, IF pc[r] = "stream" THEN "interrupted" ELSE "abandoned")
  /\ UNCHANGED <<req, slug, tools, todo, retries, sent, held, servers, credentialVars, tokenVars>>

SetServer(s, from, to) ==
  /\ Changed /\ servers[s] = from
  /\ servers' = [servers EXCEPT ![s] = to]
  /\ UNCHANGED <<pc, req, slug, tools, reply, todo, retries, sent, grant, held,
                 credential, masterKey, tokenVars, usageVars>>

RegisterServer(s) == HasCredential(s) /\ SetServer(s, "new", "live")
RemoveServer(s)   == SetServer(s, "live", "gone")

ChangeCredential == CredentialsNext /\ UNCHANGED <<runVars, tokenVars, usageVars>>

Pass == (Tick \/ Evict) /\ UNCHANGED <<runVars, credentialVars, usageVars>>

Work == (\E m \in queue : Record(m) \/ LoseUsage(m)) /\ UNCHANGED <<runVars, credentialVars, tokenVars>>

Step(r) ==
  \/ Load(r) \/ ListTools(r) \/ FetchTools(r)
  \/ ProviderAnswers(r) \/ StreamEnds(r) \/ ProviderFails(r) \/ Log(r)
  \/ Connect(r) \/ UseStatic(r) \/ CredentialFails(r) \/ UseCachedToken(r)
  \/ BeginExchange(r) \/ BeginM2M(r) \/ TokenArrives(r) \/ TokenFails(r) \/ Call(r)
  \/ BeginSearch(r) \/ EndSearch(r)

Next ==
  \/ \E r \in Callers : Step(r) \/ PoolTimeout(r) \/ Abandon(r)
  \/ \E s \in Servers : RegisterServer(s) \/ RemoveServer(s)
  \/ ChangeCredential
  \/ Pass
  \/ Work

Spec == Init /\ [][Next]_vars

-------------------------------------------------------------------------------
(* Properties.                                                              *)

(* Types; and never are more connections kept than the pool has.            *)
TypeOK ==
  /\ CredentialsTypeOK /\ TokensTypeOK /\ UsageTypeOK
  /\ pc \in [Callers -> Running \cup Ended]
  /\ req \in [Callers -> Requests]
  /\ slug \in [Callers -> Slugs \cup {Absent}]
  /\ tools \in [Callers -> SUBSET Tools]
  /\ reply \in [Callers -> Replies]
  /\ todo \in [Callers -> SUBSET Servers]
  /\ retries \in [Callers -> Nat]
  /\ sent \in [Callers -> Seq(TokenCounts)]
  /\ grant \in [Callers -> Token \cup {NoGrant}]
  /\ held \subseteq Callers /\ Cardinality(held) <= PoolSize
  /\ servers \in [Servers -> {"new", "live", "gone"}]

(* A token taken from the cache was issued for the user of the run and for  *)
(* the audience and the scopes its credential has at that moment, whoever   *)
(* cached it and however the credential changed since; and it has not run   *)
(* out, although its life was counted from its arrival.                     *)
TakesFromCache(r) == pc[r] = "apply" /\ pc'[r] = "call" /\ grant'[r] # NoGrant

CachedTokenFits ==
  [][\A r \in Callers : TakesFromCache(r) =>
       grant'[r].key = WantedKey(r) /\ grant'[r].key[1] = req[r].user /\ now < grant'[r].dies]_vars

(* Every model request of a run that the provider answered is logged        *)
(* exactly once: its message waits, was recorded in one row, or was lost by *)
(* a worker.  Only the last may be missing, of a run that failed or whose   *)
(* client left before the message was taken; and it is missing for certain  *)
(* when the client left amid the answer: what was used until then is not    *)
(* logged, although PRD 0016 (line 126) says that it is.  What the log      *)
(* holds was answered, with those tokens.                                   *)
Of(messages, r, k) == {m \in messages : m.run = r /\ m.attempt = k}

Traces(r, k) ==
  Cardinality(Of(queue, r, k)) + Cardinality(Of(lost, r, k))
  + Cardinality({row \in rows : row.message.run = r /\ row.message.attempt = k})

Unlogged(r) ==
  IF pc[r] \in {"stream", "log", "500", "broken", "abandoned", "interrupted"} /\ sent[r] # <<>>
  THEN {Len(sent[r])} ELSE {}

LoggedOnce ==
  /\ \A r \in Callers : \A k \in 1 .. RequestLimit :
       /\ Traces(r, k) <= 1
       /\ k \in DOMAIN sent[r] /\ Traces(r, k) = 0 => k \in Unlogged(r)
       /\ pc[r] = "interrupted" /\ k = Len(sent[r]) => Traces(r, k) = 0
  /\ \A m \in queue \cup lost \cup {row.message : row \in rows} :
       m.attempt \in DOMAIN sent[m.run] /\ m.tokens = sent[m.run][m.attempt]

(* The log keeps what UsageLedger promises: whatever fails, no request      *)
(* enters the costs twice, at a price that is not its own or for another    *)
(* user, and what a worker lost stays out of them.                          *)
Made == {q \in Callers \X (1 .. RequestLimit) : q[2] <= Len(sent[q[1]])}

Charge(q) ==
  [request |-> q, user |-> req[q[1]].user,
   cost |-> IF Config[slug[q[1]]].priced THEN sent[q[1]][q[2]] ELSE 0]

Charges == {Charge(q) : q \in Made}

Told(m, cost) == [request |-> <<m.run, m.attempt>>, user |-> m.user, cost |-> cost]

Recorded == {Told(row.message, row.cost) : row \in rows}

CostsIn(S) == MapThenSumSet(LAMBDA x : x.cost, S)

RowsFor(u) == {row \in rows : row.message.user = u}

Ledger == INSTANCE UsageLedger WITH
  Requests <- Callers \X (1 .. RequestLimit),
  made     <- Charges,
  recorded <- Recorded,
  missing  <- {Told(m, Cost(m)) : m \in lost},
  costs    <- [u \in Users |-> CostsIn(RowsFor(u))]

LedgerKept == Ledger!Spec

(* What the requests of a user cost is in the rows, or else it is the price *)
(* of a request whose message waits or was lost, or that its run, failed,   *)
(* left by its client or still on its way, has not logged: the books        *)
(* balance at every moment.                                                 *)
ChargesFor(u) == {c \in Charges : c.user = u}

Outstanding(u) ==
  {c \in ChargesFor(u) :
     \/ /\ c.request[2] \in Unlogged(c.request[1])
        /\ Traces(c.request[1], c.request[2]) = 0
     \/ \E m \in queue \cup lost : c.request = <<m.run, m.attempt>>}

BooksBalance ==
  \A u \in Users : CostsIn(ChargesFor(u)) = CostsIn(RowsFor(u)) + CostsIn(Outstanding(u))

(* A connection of the pool is kept by exactly the runs amid a session:     *)
(* those that apply credentials, at a call or to list tools, waiting or not *)
(* for the issuer of tokens, and those that wait for the embedding          *)
(* provider.  None is kept while a model or a server is asked, no run holds *)
(* one while it waits for another, and whatever becomes of a run, an error  *)
(* at any of its steps or a client that goes away, its connection comes     *)
(* back.                                                                    *)
ConnectionsComeBack == held = {r \in Callers : pc[r] \in InSession}
=============================================================================
