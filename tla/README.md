# Modela in TLA+

Modela is a FastAPI service that holds the configurations of language models,
runs completions with them (through pydantic-ai), lets those completions call
tools on MCP servers, and keeps a knowledge base whose documents are chunked and
embedded by Celery tasks. Its state is in PostgreSQL, in Redis (caches, the
Celery broker) and, for the length of a request, in memory. This directory holds
TLA+ specifications of the parts of it in which something can go wrong between
two steps, the TLC configurations that check them and TLAPS proofs about them.

Run everything from this directory:

    tlc -workers 2 -config ToolCatalog.cfg MCToolCatalog.tla     # a model check
    tlapm ToolCatalogProofs.tla                                  # its proofs

`PROJECT.json` lists the runs, maps each definition to the lines it was
translated from, and lists the hazards the properties were chosen for.

## Inventory

Paths are relative to `src/app/`. "Hard" names what a test would hardly reach.

| Component | State | Operations | Talks to | Hard | What makes it correct |
|---|---|---|---|---|---|
| Knowledge base indexing (`commands/knowledge_documents/`, `tasks/index_knowledge_document.py`, `repositories/knowledge_document_repository.py`) | documents, chunks, queued tasks | create, update, delete, index | broker, provider, model configs | several workers; stale body between phases; waits and deadlocks between a DELETE and a task; crashes | chunks of a document come from one run, whole, of the present body; none outlives its document; failures keep the usable index |
| Completion events channel (`services/mcp/event_collector.py`, `inference/agent_runner.py`, `services/mcp/mcp_toolset.py`, `routers/completion_router.py`) | collector per completion: events, bytes, drained, suppressed | record, drain, truncation marker, run, run_stream | tool executor, pydantic-ai, client | parallel tools record while the runner is suspended; failure and disconnection | every event once, in order, within budget, before the text about it, or counted |
| ModelConfig registry (`commands/model_configs/`, `repositories/model_config_repository.py`, `models/model_config.py`) | rows of `model_configs` | create, update, soft delete, mark as default | everything that loads a config | requests that overlap at READ COMMITTED; two partial unique indexes; lost updates | slugs and defaults unique; nobody's update is overwritten; a default is not lost |
| MCP servers and tool catalog (`commands/mcp_servers/`, `repositories/mcp_server_repository.py`, `repositories/mcp_tool_catalog_repository.py`, `services/mcp/catalog.py`) | rows of `mcp_servers`; Redis entry per `server_id` | create, update, soft delete, refresh, get tools | MCP servers, Redis, runs | invalidation before commit; fetches that overlap it; identifiers that change hands; a server that is down | one server per id; no stale tools without a race, and not for ever; failures stay apart |
| MCP tool execution (`services/mcp/tool_executor.py`, `client_factory.py`) | none | execute a call, resolve its server and headers | MCP servers, credentials | a server removed after its tools were listed; a credential that fails outside the `try` | a failing tool becomes a result; a failing credential ends the run and leaves nothing behind |
| System prompts (`repositories/system_prompt_repository.py`, `commands/system_prompts/`) | prompts, versions, current version | create, rename, rewrite, delete, read | model configs (RESTRICT) | versions numbered without a lock; a session that keeps what it first loaded; deletion against a new reference | names unique, references whole, numbers without a gap; an update takes effect |
| Completions, summaries, scans (`commands/completions/`, `commands/load_model_config.py`, `inference/agent_runner.py`) | none | load config, ask the model, run tools, answer | all of the above | short sessions around slow calls, and slow calls inside sessions; answers that do not conform; streams that break; clients that leave | one answer or one error, no connection kept, every answered model request logged |
| Provider adapters and parameters (`inference/adapters/`, `inference/model.py`) | none | validate, clamp, resolve | providers | rows that two valid updates made invalid | every value sent is within the provider's bounds |
| Usage logging and pricing (`inference/model.py`, `tasks/log_completion_usage.py`, `services/pricing.py`) | messages, rows of `completion_requests` | enqueue, log | broker | an enqueue that fails after an answer; lost tasks | one row at most per answered request, missing only when lost or its run was cut off |
| Cost reports (`repositories/completion_request_repository.py`, `routers/analytics_router.py`) | none | sum by a dimension over days | rows of `completion_requests` | the last day, the limit | every request counts in its day; groups add up |
| Credentials and delegated tokens (`repositories/credential_repository.py`, `mcp_delegated_token_repository.py`, `services/credential_applier.py`) | credentials; Redis entry per user, audience and scopes | create, replace, delete, apply, exchange, cache | identity service | a connection held while a token is fetched; a credential changed while a token is cached; lifetimes counted from the arrival; another master key | a token goes only to the audience it is for, on behalf of its user, before it runs out |
| Provider catalog drift (`tasks/check_provider_model_catalog.py`, `inference/model_catalog_diff.py`) | none | fetch, diff, publish | providers, NATS | pages, models equally new, a listing or an event of several that fails | an event that arrives says what changed, no more and no less, whatever failed beside it |
| Chunking and front matter (`services/knowledge/chunking.py`, `frontmatter.py`) | none | split | indexing | last window, overlap, params no validation accepted | no text is lost, the loop ends |
| Knowledge search and built-in tools (`services/knowledge/search.py`, `services/tools/`) | none | search | provider, chunks | a connection is held during the provider call; chunks of the old embedding config are hidden after a switch | the connection comes back |
| Sessions and pool (`db.py`) | connections | commit, roll back, run callbacks after the commit | all | exhaustion | a connection that is taken comes back |
| Users, settings, web sockets, NATS events, HTTP shell, telemetry | little or none | | | | see `PROJECT.json` |

How they interact: a request is one database session that commits when the route
returns and rolls back on an exception. Callbacks registered with `on_commit` run
after the commit: this is how tasks are enqueued and events published, and why
they can be lost. Async routes that wait for providers or MCP servers open short
sessions instead, so what they loaded may be out of date when they use it. A
completion loads its config, gets tools through the catalog, executes them
through the executor, whose domain events go to the collector; each call applies
the credential of its server, for which a token may be exchanged; and after every
answer of the model a message goes to the broker, from which a worker writes the
row that the cost reports sum up.

## Modules

| Module | Models | Proofs |
|---|---|---|
| `KnowledgeChunks` | chunks and the output of one run of the task | |
| `DocumentIndex` | abstract: the index of a document is replaced or removed as a whole | |
| `KnowledgeIndex` | commands, broker, workers, transactions of the knowledge base | `KnowledgeIndexProofs` |
| `EventChannel` | abstract: what a client of the events channel is promised | |
| `CompletionEvents` | collector, model run, runner and transport | `CompletionEventsProofs` |
| `ModelConfigRegistry` | overlapping requests on `model_configs` | `ModelConfigRegistryProofs` |
| `ToolCatalog` | overlapping requests on `mcp_servers`, the cache and its readers | `ToolCatalogProofs` |
| `SystemPrompts` | overlapping requests on prompts, their versions and the configs that refer to them | `SystemPromptsProofs` |
| `CompletionActors` | who runs completions for whom | |
| `Credentials` | the rows of credentials, the master key, what a call needs of them | |
| `DelegatedTokens` | tokens in exchange and in the cache, and the clock | |
| `UsageLog` | messages about model requests, the worker, the rows | |
| `UsageLedger` | abstract: what the log promises to who reads costs in it | |
| `CompletionPath` | runs from the request to the answer, with the pool; composes `CompletionActors`, `Credentials`, `DelegatedTokens` and `UsageLog` | `CompletionPathProofs` |
| `ProviderParameters` | what providers accept: validation, clamping, exclusion | |
| `Chunking` | windows of a document | |
| `ConfigSettings` | overlapping updates of the settings, and who uses them; composes the two above | `ConfigSettingsProofs` |
| `ProviderCatalog`, `CostSummaries` | the diff of a catalog, the sums of costs | |
| `Reports` | the two as reports, against what a reader is to conclude | `ConfigSettingsProofs` |
| `SumLemmas` | nothing: induction over numbers and finite sets, sums of costs | itself |

The `MC*` modules instantiate them for TLC. `KnowledgeIndex` implements
`DocumentIndex` (`ReplacedAsAWhole`), `CompletionEvents` implements
`EventChannel` (`ChannelKept`) and `CompletionPath` implements `UsageLedger`
(`LedgerKept`). Operators named after another one with a suffix
and commented "Faulty" are changes a programmer might make by mistake; each run's
property is known to fail under one of them.

### KnowledgeIndex

`doc`, `content` and `rows` are the committed tables; `deleting[d]` is an open
DELETE that holds the row lock; `status[j]` follows a task from the commit that
registers it to its end. A worker's `pc` is the statement of
`index_knowledge_document_task` it is about to execute: phase 1 (`Load`), phase 2
(`Embed`), phase 3 (`Reload`, `DeleteChunks`, `Commit`). Statements run at READ
COMMITTED: `Reload` takes the snapshot of the DELETE, `DeleteChunks` waits for a
worker that already deleted one of its rows. `Commit` is the flush of the
inserts, whose foreign key check waits for a DELETE of the document, and the
commit. `Fail` is any exception or the death of the worker. Title-only updates
change none of this. Chunk texts and vectors are not modelled: a chunk is its
document, index, run, the body and the config it was made with.

### CompletionEvents

One completion whose caller asked for the channel. pydantic-ai is external and
modelled as the code relies on it: turns of text and parallel tool calls, agent
events handed over without a buffer, cancellation of what is running when a run
is over. `recording` is the loop of `record`, during which nothing else runs.
`pc`, `pending`, `reply` and `mark` are where `run_stream` and the transport
stand; without streaming, the answer or `CompletionRunError` carries the same
events. An event is its ordinal, its turn and its size.

### ModelConfigRegistry

Transactions create, update and soft-delete configs. `seen[t]` is the row as the
session loaded it: the flush sets only attributes that differ from it (`Supplied`),
on the newest committed version. `Scan` and `Clear` are `_clear_default`, whose
UPDATE evaluates its condition again on rows it waited for; `Enter` is the entry
into the unique indexes, which waits for a writer of an equal entry; deadlocks are
detected. A conflict, a failing refresh and any other failure roll back.

### ToolCatalog

Transactions create, update and soft-delete servers: `Begin` is the lookup of the
route, `Check` the second lookup and the query for the `server_id`, `Write` takes
the row, `Enter`, with the row held, enters it in the unique index (over all rows,
deleted ones included), which waits for whoever holds a row with that `server_id`;
two that wait for each other are a deadlock, and PostgreSQL aborts one
(`DetectDeadlock`). `Invalidate` deletes the cache entry of the row's present
`server_id`, `Commit` comes after it. Readers `Load` servers in a short session, then, without one,
`Hit` or `Miss` the cache, fetch and `Store`. `refresh` skips the read. `raced` and
`missed` are history: they record that a fetch overlapped an update.

### SystemPrompts

A request is a transaction `t`; `pc[t]` is the statement it is about to run,
`seen[t]` the prompt as its ORM session first loaded it, which later lookups of
the same row do not change (only `Refresh` does), and `number[t]` the number its
version takes, one more than the highest it sees. `Renamed`, `Erased`,
`Versioned` and `Refers` say which lock on the row of the prompt a transaction
has: a changed name and a DELETE exclude everybody, the UPDATE of
`current_version_id` other writers, and a foreign key keeps the row from being
deleted or renamed (`Waits`). A name is entered into the unique index by `Enter`,
which waits for whoever has entered it or may still give it up. What a transaction
wrote shows in `prompt`, `version` and `config` when it commits; `Fail` is any
exception, lost connection or deadlock victim.

### CompletionPath and its parts

`pc[r]` is where run `r` stands or the status it ended with. `Load` is the session
in which the config is looked up. A chat then lists its tools (`ListTools`): one
session applies the credentials of all its servers, one after the other (`todo`),
and a server whose credential fails is left out; with the session closed their tools
are fetched (`FetchTools`). `ProviderAnswers` is a model request, `Log` the
enqueueing of its usage, `AfterLog` what follows: the answer, a tool call, or, if the
answer does not conform to the schema, another request, up to `output_retries`.
At a tool call (`Connect`) a session applies the credential of one server, and if
that fails the run ends. `apply` and `token` are these two sessions: a cached token or
a fixed header is one step, but a delegated token that is not cached and the token of
the service (`BeginM2M`) are waited for with the connection held. `search` and
`embed` are a search of the knowledge base, which holds it while the query is embedded.
`held` are the runs that hold a connection while they wait for somebody else. A
stream passes its answer on as it comes in (`stream`): a client that leaves then ends
the run as `interrupted`, elsewhere as `abandoned`.

Administrators change credentials
(`Credentials`), the master key and the servers meanwhile. A token is issued when
it is asked for and arrives up to `MaxLatency` later (`DelegatedTokens`); its
entry in Redis says until when it may be used (`expires`) and when Redis drops it
(`until`). `UsageLog` has the messages at the broker, the rows and what was lost;
a worker acknowledges a message before it runs the task. In the terms of
`UsageLedger`, the answers are those of runs past `ProviderAnswers`, the costs those
of the rows, and what is missing is at the broker, with a worker or lost.

Left out or put together: the routes that list the tools of servers with no run
(they use the same session and hold its connection in the same way, but are not among
the callers of the pool); the parallel tool calls of one answer are one call; 502
stands for the 504 of a timeout too; sessions that wait for nobody are one step
and need a free connection only at that step; a thread that works on a token or a
search finishes before the run notices that its client has left; the number of
model requests in a run is pydantic-ai's limit; a message is taken by the broker
once. `MaxLatency <= Margin` is assumed (`DelegatedTokensAssumption`): the code
counts the life of a token from its arrival, so that the margin of its refresh has
to make up for the way.

### ConfigSettings and its parts

An update is validated with the columns it leaves as they were loaded (`Accepts`)
and writes only those that differ from them (`Written`), as in
`ModelConfigRegistry`, where slug, type, default and deletion are modelled. `Ask`
is a model request with the row as it is, `Index` an indexing task that cuts a
body with whatever params it finds. `raced` is history: the row was not as loaded
when it was last written. Sampling parameters are tenths; `max_tokens` has one
bound and is left out. `Chunking` says "endless" when the loop of the code would
not end.

### Reports

The weekly check is a process: the task takes the providers one by one (`unchecked`);
a listing that cannot be fetched is skipped (`FetchFails`), the others are compared
(`Compare`), and each event is published or swallowed (`Publish`), what was added
first. `SummarizeCosts` puts what the code computes into `report`. `ReportsExact`
compares both with what a reader is to conclude, stated without the code's operators.
The configuration of `ConfigSettings` checks them too, costs and drift each in
behaviours of its own, for they share no state with each other or with anything.

## Runs

| Run | Instance | Shows |
|---|---|---|
| `knowledge_two_workers` | 1 document, 2 bodies of 1 and 2 chunks, 3 tasks, 2 workers | types; no orphans; whole generations; no failure costs an index; tasks and DELETEs end |
| `knowledge_one_worker` | 2 documents, bodies of 0 and 2 chunks, 3 tasks, 1 worker | one generation per document, freshness, refinement of `DocumentIndex` |
| `knowledge_overlap` | 1 document, 2 tasks, 2 workers | **violation** of `OneGeneration` |
| `completion_events` | 2 calls, bursts of up to 2 events of sizes 1 and 2, budgets 2 and 3 | budget, order, accounting, events before text, arrival, end, refinement of `EventChannel` |
| `completion_events_prefix` | the same | **violation** of `FirstRetained` |
| `model_config_registry` | 2 configs, a third to create, 2 types, 2 requests out of 20 | uniqueness, supplied fields only, when a default may go, every request ends |
| `model_config_default_lost` | the same, requests that mark a default | **violation** of `DefaultNeverLost` |
| `tool_catalog` | 2 servers, 2 configurations, 2 changes out of 5 beside 1 reader that starts again and again; 4 renames that cross, over 3 ids (140,044 states) | unique ids, when an entry may turn stale, isolation of failures, staleness ends, requests end |
| `tool_catalog_stale` | the same | **violation** of `QuietFresh` |
| `system_prompts` | 2 prompts, 1 config, 3 requests out of 12 (188,516 states up to symmetry) | names, references and versions stay whole; numbers have no gap; a run has its prompt; updates take effect |
| `completion_path` | a stream and one of 6 other requests, 2 users, 4 configs, 2 servers of which 1 has a credential, 1 connection, at most 2 model requests each (1,380,598 states) | types and the size of the pool; every answer logged once; costs and what is missing add up to the answers; connections come back; cached tokens fit |
| `config_settings` | 2 writers, 15 patches, 3 updates, bodies of 0 to 8 characters; 2 providers, listings of 2 pages, logs of up to 5 requests (715,687 states up to symmetry) | settings sent are legal; chunks cover; reports are exact |

Why the bounds are enough: but for one, every hazard in `PROJECT.json` involves at most
two transactions or two tasks and one object they share; the third task lets a run
that overlapped another be followed by one that did not. Two sizes and two budgets
are the least for an event that is too large to be followed by one that fits. Two
`server_id`s and two rows let a server give up its id and another take it. The
exception is a deadlock of two renames in `ToolCatalog`: as the query before a rename
refuses the id of a live server, each must find its id free and have it taken by the
other's server later, so that it needs two more renames and a third id; the instance has
these four (without `DetectDeadlock` they wait for ever). Other
bounds are the number of tasks (`Jobs`), of requests (`Txns`) and of calls
(`Calls`, `MaxBurst`), all finite sets of the instance. In `CompletionPath` and `ConfigSettings`
`MaxChanges` (1) bounds what administrators change, `MaxTime` (1) the clock,
`MaxWaiting` (1) and `MaxLosses` (1) the broker, `MaxUpdates` (3) the updates: a
token can be cached by one run and found by another before, after or while the
credential changes and time passes, and the second of two overlapping updates can be
followed by one that does not overlap. A pool of one connection is the least in
which one run keeps another waiting. Its administrators change things beside a stream
and a summary only, and the token of the service is not waited for beside a second chat:
two chats already interleave in every way at the pool, and the change of a credential
concerns the run that uses it. `TokenCounts` has one value, for which the books are
enough: what they must not do is lose, double or misprice a request (`priced` tells two
prices apart). Nothing else is cut off.
What is proved does not depend on any of them. `CHECK_DEADLOCK FALSE` stands where
all requests, tasks, runs or updates can be over; `ToolCatalog` never stops, as
readers return.

Bodies are `"empty"`, `"short"` and `"long"` (0, 1, 2 chunks): with 1 and 2, an
older generation can be longer or shorter than the one that replaces it.

### What the violations say

Each is of a promise that the code keeps under a condition, which a theorem states
(see Proofs): what would have to be ruled out for the promise to hold.

* `OneGeneration`: the docstring of the indexing task says existing chunks are
  "replaced transactionally", PRD 0019 that "the last task to finish wins". Two
  runs for one document can both insert: neither DELETE sees rows the other has
  not committed. A search returns both generations until the next reindex.
* `FirstRetained`: the collector says that "once a budget is exhausted, later
  events are suppressed". An event over the byte budget is suppressed, and a
  smaller one after it is retained.
* `DefaultNeverLost`: PRD 0019 says that marking two configs as default
  concurrently leaves exactly one. A request that marks the config that already
  was the default emits no UPDATE for it, while the other request's clearing
  clears it.
* `QuietFresh`: PRD 0008 has the tool cache invalidated "on server config change".
  The entry is deleted before the commit; a reader that loaded the server before
  the commit fills it again afterwards with the old server's tools.

Divergences that no run shows: the docstring of `MCPToolExecutor` says errors are
mapped to structured responses, but a credential that fails ends the run
(`CredentialFails`, `TokenFails`); PRD 0016 (`docs/prds/0016-streaming-pydantic-ai.md:126`)
has a client that disconnects still log what was used, but the wrapper that logs
(`inference/model.py:141-157`) has no `finally`, and a stream interrupted amid an answer
logs nothing: `LoggedOnce` says that this request is missing for certain, `BooksBalance`
counts what was used as outstanding for ever; PRD 0018 (line 33) and the docstring of
`diff_provider_models` (`inference/model_catalog_diff.py:18-20`) mean "newer" for each
family of models, but the code compares with the newest curated model of all families,
which is what `ReportsExact` states, and the publishing task swallows an event that
cannot be sent, so that subscribers hear of a drift at the next check at the earliest (a
test pins this: `test_publish_failure_is_swallowed`); switching the default embedding config hides
the chunks of the old one from searches until they are indexed again, which PRD
0019 accepts; two updates of a prompt that overlap can give two versions one number
(`NumbersWithoutGap` says what is certain).

### Fairness

`Spec` has none. `FairSpec` assumes what the platform provides, and no more: the
broker delivers what it holds to a free worker, a statement that can run does, a
released lock goes to a waiter in order (strong fairness of the two statements of
a task that wait), deadlocks are detected, the event loop runs what is ready, a
client reads or goes away, Redis expires what is due. Nothing makes a client send
a request, a provider or a tool answer, or a failure happen. In `ToolCatalog` a
fetch from a server may take for ever, for the code sets no time limit on it, and
`RequestsEnd` says so. `SystemPrompts`, `CompletionPath` and `ConfigSettings` have no
liveness property and assume no fairness: what their requests wait for, a lock, a
provider, an issuer of tokens, is in the hands of others, and the pool's time limit
(`PoolTimeout`) is an outcome, not a promise.

## Proofs

The proofs hold for all values of the constants that satisfy the assumptions of
the module (`ChunksAssumption`, `EventsAssumption`, `RegistryAssumption`,
`CatalogAssumption`, `SystemPromptsAssumption`, `CredentialsAssumption`,
`DelegatedTokensAssumption`, `UsageLogAssumption`, `CompletionPathAssumption`,
`ProviderParametersAssumption`, `ChunkingAssumption`, `ConfigSettingsAssumption`,
`ReportsAssumption`: sizes are positive, the markers `NoConfig`, `Unset` and
`Nothing` are no values, payloads are well formed). Init of the database modules
takes the rows that exist to satisfy the unique indexes; a database cannot hold others.

* `KnowledgeIndexProofs`: `TypeCorrect`, `NoOrphans`, `Whole`, `IndexKeptHolds`
  for any number of workers. The strengthening for `Whole` is `RowsNumbered` (a
  row belongs to the generation it names) with `VictimsWhole` (what a run deletes
  are whole generations); for `IndexKept`, that running tasks are distinct and
  delete their own document's rows. `OneGeneration`, false in general
  (`knowledge_overlap`), and the refinement hold for any number of workers as long as
  no two runs for one document are between their DELETE and their commit at once
  (`WritesApart`): what a run found is then all there is when it commits (`SeesAll`).
  `SettledFresh` needs that such runs do not overlap at all (`RunsApart`); with
  `WritesApart` alone TLC finds a run that read an older body commit last. So a lock on
  the document in phase 3 would repair the first and not the second. One worker
  (`OneWorker`, `knowledge_one_worker`) is a special case of both.
* `CompletionEventsProofs`: `IInv` says the collector's counters add up
  (`Collected`), an ended run records nothing (`Quiet`), received and pending
  events together are those handed over (`InLine`) and an answer that is being
  closed has counted all (`Ending`). From it `InOrder`, `AccountedHolds`,
  `BeforeReply` and the refinement `ChannelRefinement`. `WithinBudgetHolds` adds
  `Weighed`: the collector's byte count is the sum of the sizes of what it holds and
  within the budget, which an event joins only if its size still fits.
  `FirstRetainedHolds` says when the promise that `completion_events_prefix` finds
  broken is kept (`ExhaustedForAll`): if all events are of one size, or if the
  largest is so small that `MaxEvents` of them are within `MaxBytes`. With the
  defaults, 100 events and 256 KiB, that is up to 2621 bytes an event.
* `ModelConfigRegistryProofs`: `IInv` adds to uniqueness that no row has two
  uncommitted versions (`LocksApart`), that cleared rows still match (`Found`),
  that creates own their ids, and that what a transaction entered into the
  indexes clashes with nothing committed and nothing entered (`IndexesHold`): the
  unique index is a property of uncommitted versions before it is one of rows.
  From it `UniqueHolds`, `SuppliedHolds` and `DefaultHolds`. `DefaultNeverLostHolds`
  says which overlap alone breaks `DefaultNeverLost`: a config deleted, retyped or
  unmarked between its being loaded to be marked and the commit (`MarkStands`).
* `ToolCatalogProofs`: `RowsApart` and `Locking` are the same idea for one index: no
  two transactions hold one row, and what is entered in the index belongs to no other
  row and to no other entry (`KeyFree`, `KeysApart`), with `KeyRight`: an update will invalidate the id under
  which it leaves the server. `Known` says that what a reader loaded is what is
  committed unless it missed an update, and `Clean` that after the invalidation
  only a fetch that overlaps the update writes the entry. From them `UniqueHolds`
  and `StaleOnlyIfRacedHolds`; `FailureIsolatedHolds` is inductive by itself.
  `QuietFreshHolds` says that stale tools have two causes and no third: a fetch that
  overlaps a change of its server (`FetchesApart`), and a server created under an id
  whose tools are cached (`CreatesClean`). Without either TLC finds `QuietFresh`
  violated.
* `SystemPromptsProofs`: `IInv` adds to `Integrity` that the numbers of a prompt are
  an interval from 1 (`Gapless`), where a request can be (`Stage`), what it may
  count on in the committed rows while others commit (`Tied`: a row it has locked is
  there, the numbers below its own are taken, the version it saw is one of its
  prompt), and that locks and entered names exclude each other (`Apart`). A step
  within a transaction leaves the rows alone (`MovesKeep`); a commit changes them
  only as `Change` says, from which the others keep what they count on
  (`TiedAfter`). From it `TypeCorrect`, `IntegrityHolds`, `NumbersHold`,
  `RunHasPromptHolds` and `UpdateTakesEffectHolds`: every property of its run.
* `CompletionPathProofs`: `IInv` has `Begun` (a run in progress has a config and
  asks no more often than it may), `Applies` (a session that applies credentials has some
  left: that of the called server, or those of a listing), `Grants` (only a call carries a token), `Kept`
  and `Travels` (a token dies at most `MaxLatency` before the time its entry counts
  with), which the margin turns into `CachedTokenHolds`; `TypeCorrect` includes the
  size of the pool, `ConnectionsHold` says who holds a connection: the runs amid a
  session that waits for somebody, and no other. `LogInv` says that a message is in one
  place, that a run not yet past its log, or interrupted amid an answer, has none for
  its last answer and one past it has one; it gives `LoggedOnceHolds`. `BookInv` adds that no
  row or message is about an answer not given, and that each has its answer's price:
  with it `BooksBalanceHolds` (if the callers are finitely many, the costs of the rows
  and of what is missing add up to those of the answers) and `LedgerRefinement`, by
  which a step of the detailed log is an `Answer`, `Enter`, `Miss` or a stutter of
  `UsageLedger`.
* `ConfigSettingsProofs`: what a writer is about to write is legal in the row it
  loaded (`Validated`), so that a row nobody changed meanwhile is legal, and clamping
  leads into the bounds whatever the row says: `SettingsLegalHolds`.
  `ChunksCoverHolds` rests on `LastMultiple` (every position has a window start at
  most a step before it), for bodies of any length and any params. `ReportsExactHolds` is
  about providers, listings and logs of any size: an event that arrived is right, a
  newer model is named exactly if there is one, what was not told was swallowed
  (`DriftInv`: what is unsent, told and swallowed is together what `Diffs` makes of the
  listing), and the groups that `SummarizeCosts` sums up are a partition of the
  requests in its days, so that, if none is left out for the limit, their totals add
  up to the whole.
* `SumLemmas`: the library's induction theorems take an operator, which no installed
  prover can instantiate. These take a set instead: the numbers that have a property
  are a set, and the least number outside it does not exist (`NatInduct`, from
  well-foundedness of `<`); `SubsetInduct` and `ElementInduct` do the same for finite
  sets along their cardinality. From them what a sum over a finite set does when an
  element comes, goes or is renamed, and what the fold of the model adds up to
  (`CostIsTotal`).

Only model-checked: liveness (`WorkSettles`, `EventsArrive`, `AnswerEnds`, both
`RequestsEnd`, `StaleHeals`), which is out of the prover's reach. The other way
round, `LedgerKept` is proved and no property of a run: TLC agrees with it on the
instance of `completion_path`, but needs three and a half minutes for it there, and
`BooksBalance`, the invariant behind it, is in the run instead.

## Not modelled

The tables above and `PROJECT.json` name every part. Out for good: routing, access
control, telemetry, settings, encryption itself (a ciphertext is its plaintext and
its key) and text formatting (no state, or pure functions of strings), web sockets
(not mounted), users (driven by a library). Within the modelled parts: the wording
of answers, NATS events (best effort after the commit), the enabled flag and the
attachment of servers (any set of live servers stands for what a request loads),
`max_tokens`, front matter, the ranking of a search and its filter by dates, the
filter of cost reports by user, the clients an adapter builds.

## Plan

Done, most important first: the knowledge base, the events channel, the config
registry, the tool catalog, system prompts, the path of a completion with
credentials, delegated tokens, the usage log and the pool, settings with chunking,
the reports; each with proofs. Left:

1. Tool calls of one answer in parallel in `CompletionPath`, so that one run can
   hold two connections, and an abandonment that overtakes a thread.
2. Liveness of `CompletionPath`: under the pool's time limit and the client's, every
   run ends.
3. The attachment of servers to configs joined to `ToolCatalog`.
4. A theorem for the last divergence without one: versions of a prompt have distinct
   numbers as long as no two updates of it overlap.
