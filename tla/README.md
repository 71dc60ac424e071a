# A TLA+ model of hot-air-balloon

hot-air-balloon is an assistant service for an operations organisation: a FastAPI
application, PostgreSQL (through async SQLAlchemy), Pinecone, an object store and an
event broker, with a LangGraph agent that calls tools through a gateway and remembers
conversations, user facts and documents. This directory models it in TLA+: the long-term
memory, the short-term conversations under queries and retention, the agent with its tool
gateway, and six more components that, like the agent, share no state with the rest. TLC
model-checks them on small instances; TLAPS proves every safety property these runs pass for
every size (section 4).

Paths below are relative to the repository (`src/app/...`, `docs/...`). "LT" stands
for `src/app/modules/assistant/infrastructure/conversation_memory/long_term`.

## 1. Inventory of the system

Everything runs in one asyncio process per replica; `container.py` builds the
components and starts the background tasks. Nothing keeps two replicas from running,
and the code prepares for it: every worker takes its batch with `FOR UPDATE SKIP
LOCKED`. Between two awaits of a task, every other task, replica and request may run.

| component | state | operations | hard behaviour | what makes it correct |
|---|---|---|---|---|
| Mirror table and vector index (`LT/models.py`, `memory_record_repository.py`, `pinecone_index.py`) | memory rows with `synced_at`, `deleted_at`, `expires_at`; vectors by namespace | insert, insert-or-get a user fact, upsert, list, delete | two stores, no common transaction | every vector has a row; a stamp is honoured |
| Vector sync worker (`vector_sync_worker.py`) | one open transaction per pass | poll, embed and upsert, back off, commit | provider calls with row locks held; failure after effect; the commit comes last | nothing deleted is published again; every row is synced eventually |
| Reconciliation job (`reconciliation_job.py`) | the active ids it read | read ids, list, delete orphans | its snapshot grows stale | sweeps every orphan; takes no vector of a row it could have read |
| Memory retention job (`memory_retention_job.py`) | a batch of ids | soft delete, select, delete vectors, delete rows, purge candidates | four transactions, locks released between them | a row goes only after its vector; everything expired goes |
| Consolidation and promotion (`consolidation_worker.py`, `fact_promoter.py`, `candidate_repository.py`, `fact_extractor.py`) | locked conversations, candidates | pick, extract, policy, promote, stamp | nested transactions of other sessions; a unique-index race; repeated after a crash | one active row per fact; lineage preserved; no idle conversation forgotten |
| User memory erasure (`user_memory_eraser.py`, `checkpoint_eraser.py`) | a request's list of rows | read, delete vectors, delete rows, checkpoints, conversations | races with every worker above; a third store | nothing of the user remains, nothing of others is touched, and it ends |
| Fact policy (`application/facts/act_policy.py`) | none | accept or reject a candidate | order of the rules | agrees with the documented decision table |
| Short-term conversations (`short_term/postgres_conversation_store.py`, `short_term_retention_job.py`) | conversations with their owner, turns, working sets | claim or validate an owner, read, append, purge | two requests in one conversation; append against purge | one owner per conversation; nothing lost that is not expired |
| Agent workflow (`infrastructure/agents/langgraph`) | graph state and tool budget of each request; a checkpointed thread | classify, plan, call, observe, decide, answer | the model may plan anything at any time; the budget is spent after the call | stops within its budget on every path |
| Query use case (`application/use_cases.py`) | none of its own | claim, build context, run the agent, append | failure between answer and append | a query ends with an answer or an error |
| Tool gateway (`tool_gateway/`, `tool_runtime/gateway_runtime.py`) | rate windows of the process, audit rows | scope, authorize, limit, approve, audit, run, retry | requests sharing a window; retries; audit and effect in different sessions | no handler without permission for its site; limits hold; decisions are durable |
| Context and budget (`application/context`) | the blocks gathered for one query | ask the providers together, sort, take greedily | a provider that fails; blocks of zero tokens; one kind that fills the budget | never over budget; a block is dropped only for better ones |
| In-memory conversation store (`conversation_memory/in_memory/inmemory_conversation_store.py`, beside `long_term`) | owners, turns, snapshots of the process | the operations of the port | trimming | keeps the port's promise as PostgreSQL's does |
| Documents (`modules/documents`) | documents, outbox, blobs, the topic | upload, publish, ingest | two tasks working one table off under locks; each chunk its own transaction; tasks that die | stamps tell what happened; every row is worked off |
| Operations (`modules/operations`, evidence adapters, reference resolver) | tables, evidence of a conversation | query, adapt, keep, answer a follow-up | order and text forms the next stage assumes | results adapt; a follow-up quotes the newest result |
| Work-order status (`modules/operations`) | work orders | find, check the transition, compare-and-set | two users from one snapshot | an approved change is carried out, no update is lost |
| Users and authorization (`modules/user`) | users, roles | register, audit | two registrations of one email; an audit during writes | one user per email; the audit misses nothing |
| Container and settings (`container.py`, `core/config.py`) | started resources | validate, build, start, close | failure halfway; tasks that ended | settings accepted can be built; what is used outlives its users |
| HTTP, logging, CI, migrations | none | | | out of scope |

Interactions: ingestion and consolidation *write* mirror rows; sync, retention,
reconciliation and erasure *act* on rows and vectors; erasure and consolidation also
meet on conversations, which short-term retention deletes; the query use case drives
the store, the agent and, through it, the gateway.

## 2. What is modelled now

### Long-term memory

This is the part where most actors meet on shared state, without one transaction that
covers it. One module per component, each with `Init`, one action per transaction or
provider call, and the same four endings everywhere: `...Fails` (a provider call raises),
`...Crashes` (a database error, which no task catches, or the process dies),
`...Restarts` and, for the loop's normal course, `...Step`.

| module | models |
|---|---|
| `MemoryMirror` | the shared state: `rows`, `vectors`, `lockedBy` (row locks of open transactions), `promotions` (candidates with `promoted_memory_record_id`); `RecordDocumentChunk`, `ExpiryPasses` |
| `VectorSyncWorker` | `sync_once`: `PollUnsynced`, `EmbedAndUpsert`, `SyncFails`, `BackoffOverflows`, `CommitSync` |
| `ReconciliationJob` | `reconcile_once`: `ReadActiveIds`, then per namespace `ListOrphans` and `DeleteOrphans` |
| `MemoryRetentionJob` | `purge_once`: `SoftDeleteExpired`, `SelectSoftDeleted`, `DeleteExpiredVectors`, `DeleteExpiredRows`, `DeleteExpiredCandidates` |
| `ConversationTable` | conversations as long-term memory sees them: idle, consolidated or gone, with or without turns, locked or not, with a checkpoint thread or not |
| `ConsolidationWorker` | `consolidate_once` and `record_or_get_user_fact`: `PickConversations`, `SkipTurnless`, `ExtractFacts`, `SelectFact`, `InsertFact`, `ReselectFact`, `ConflictVanishes`, `MarkPromoted`, `FinishConversation`, `CommitConsolidation` |
| `UserMemoryEraser` | `erase_user_memory`: `CollectMatchedRows`, `DeleteMatchedVectors`, `DeleteMatchedRows`, `EraseCheckpoint`, `CommitErasure` |
| `LongTermMemory` | the composition of all of these, the fault budget, fairness and the properties |
| `MirroredIndex` | the abstract promise: remember, publish, withdraw, retire, forget and, where users may ask for it, erase |
| `MCLongTermMemory`, `MCDeployments` | who owns which conversation, for the configurations; the small deployments (which processes run, how many rows and faults) that `Mirror` checks |
| `LongTermMemoryProofs`, `UserFactProofs`, `MirroredIndexProofs` | the proofs |

How state and steps correspond to the code:

- A step is what happens between two awaits that reach a shared store: a transaction
  that only reads and commits, one call to a provider, or one commit. Between them,
  anyone may act.
- A row lock is taken by `FOR UPDATE` and by `DELETE`, and given back by commit or
  rollback. `SKIP LOCKED` filters locked rows out of a batch; everything else waits
  for them (a conjunct of its guard). Locks that are taken and released within one step
  (the retention job's first two transactions) do not show in `lockedBy`.
- Rows are numbered in `created_at` order. A conversation stands for its turns, so
  `source_turn_ids` is a set of conversations; a fact stands for its content hash.
  `expires_at` is never, ahead or passed; the clock is the action `ExpiryPasses`.
- A deleted row keeps its kind and owner in the model because its vector's metadata,
  if a vector is left, still does.
- The partial unique index on (owner, content hash) of live user facts is the guard
  of `InsertFact`: the insert is refused when an active row exists, and waits when
  that row's deletion is pending.
- What a reconciliation job compares with is `rec[r].active`, which grows stale while it goes
  from namespace to namespace. `rec[r].inserted`, the rows that had ever been inserted when it
  read them, is history for the properties: no guard reads it.
- A provider call that raises may have taken effect: `SyncFails` has both outcomes.
- `0.05 * (2 ** sync_retry_count)` is computed before `min(2.0, ...)`. At a count of
  1024 the power is no longer a finite float and the exception handler itself raises
  `OverflowError`: `BackoffOverflows`, with 1024 abstracted to `MaxBackoffExponent`.
- The `_run` loops have no handler: an exception ends the task (`pc = "dead"`), and
  nothing in the code restarts it but a restart of the service (`...Restarts`, which
  therefore has no fairness).

Bounds. `MaxRecords` rows are ever inserted, `MaxChunks` of them document chunks; `MaxFaults`
bounds provider failures, database errors and crashes together. One or two records
suffice for the properties here: each is about one row, or about two rows of one fact
(`OneActiveRowPerFact`, the erasure's deadlock). Two conversations are needed where
two promotions of one fact must meet, two users where an erasure could touch another
user's row, two sync workers where locks must keep passes apart. Faults are at most
two: `BackoffOverflows` needs one failure before it when the exponent bound is 1. `Purge`,
which is about liveness, has no faults: a crash between a promotion and its batch's commit
is met in `Mirror` only, whose second deployment has one fault.

Fairness. `FairSpec` gives each process fairness on its own steps: asyncio runs every ready task,
PostgreSQL grants a lock that is free, and a provider call ends with an answer or an
exception. Reconciliation and retention are never disabled by others in the middle of
a pass, so weak fairness is enough. Sync, consolidation and erasure wait for locks
others take and release, which PostgreSQL queues: strong fairness. Faults, restarts,
the clock, the writers and new erasure requests have none. The liveness properties
say "or every task of this kind has died", because that is what the code does. That a row
whose back-off overflows is ever synced is therefore not stated.

### The agent and the tool gateway

| module | models |
|---|---|
| `RateLimiter` | `FixedWindowRateLimiter`: the current window, whether it is exhausted, `Consume`, `RetryAfterSeconds` |
| `ToolGateway` | `GatewayToolRuntime.invoke` and `ToolGateway.invoke`: `DenyCall`, `RefuseInput`, `LimitCall`, `AdmitCall` (with approval), `FlushDecision`, `HandlerReturns`, `HandlerRaises` (with retries), `CommitCall`, `DatabaseFails` |
| `AgentWorkflow` | the LangGraph nodes and the budget: `ClassifyIntent`, `PlanByIntent`, `NoCallableTool`, `PlanByModel`, `ModelFails`, `BlockCall`, `InvokeTool`, `ObserveResult`, `CallRaises`, `DecideNextStep`, `Respond` |
| `AssistantAgent` | concurrent requests, fairness, the properties |
| `MCAssistantAgent` | the requests of the configurations |
| `AssistantAgentProofs` | the proofs |

How state and steps correspond to the code:

- `run[r]` is the graph state and the `ToolCallBudget` of one request, `gate[r]` its call
  in the gateway. Graph nodes of one request run one after another; requests interleave
  at every await. `counters` is the one thing they share in memory, and `try_consume` has
  no await: checking and consuming are one step.
- A query is what `resolve_intent` makes of its text: a read tool, a direct answer, or
  neither, in which case the model plans. The model may name any tool with any site, be
  unsure, answer, or fail. A query that asks for a status change ("mutation") lets the
  write tool pass the semantic check, or not, if the order or status planned is another.
- Audit and trace rows are flushed in the call's session and committed when the gateway
  has returned *or raised* (`gateway_runtime.py:86-88`); `audit[r]` holds the committed
  decisions. `DatabaseFails` is a flush or commit that raises. Handlers use sessions of
  their own.
- The handler of the write tool always raises, see `WriteFails`: `MayRaise`.
- `admitted` is a history variable: when the limiter let a call of each user and tool pass.
- Time is counted in ticks, `TicksPerSecond` to a second, so that `ceil` has something to
  round. A counter that does not exist is one whose window is over.
- Every modelled tool has the same limit. The web search tool, context assembly, and the
  checkpoint a thread leaves are not part of this: the channels the nodes read are
  `UntrackedValue`, set anew for each request (`state.py:98-103`).

Bounds. Two requests of one user: one planned by the model, with a budget above the
policy's cap (a technician of one site who asks for a change) or equal to it (a reader of
two sites), one resolved by a pattern (a global reader with one call
or, where `allow_tool_calls` is false, none; or a direct answer).
Two are enough for a limiter shared by them, since a request calls one tool after another.
Two calls in all and one per tool make a second plan, a tool that is used up and a cap that
bites all reachable. `MaxTime` is the length of a window of two seconds in `Components`, where
one window can be used and the next begin, and one tick past it in `WriteFails`.

Fairness. Each started request is weakly fair, its workflow's and its gateway call's steps
together, of which one at most is ever possible: it is one task of the event loop, and what it
waits for (the model client, the database) answers or raises. No request waits for another.
Arrivals and the clock have no fairness: a query ends even if time stands still.

### Short-term conversations

| module | models |
|---|---|
| `ShortTermMemory` | the tables of conversations, turns and evidence, and checkpoint threads, under queries (`OrchestrateAssistantQuery.execute` as its four transactions and the agent's run), `ShortTermRetentionJob.purge_expired`, and consolidation, which only locks and stamps a row here |
| `ConversationLedger` | the abstract promise of `ConversationStorePort`: claim, append, forget |
| `InMemoryConversationStore` | the store used without a database; refines the same ledger |
| `ShortTermMemoryProofs` | the proofs |

How state and steps correspond to the code:

- A query's actions are the transactions of the store: `Claim` (`INSERT ... ON CONFLICT DO
  UPDATE ... WHERE user_id = ...`), `ReadRecent`, `ReadRecentEvidence`, `AppendExchange`
  (claim, two turns, evidence and the conversation's counters in one transaction).
  Between them other queries, another user's claim of a purged id and a purge may come.
  `ResolveReference` answers from evidence; `StartAgent` and `FinishAgent` save the thread.
- The two turns of an exchange are one element of `exchanges`; `turnCount` still counts
  turns, because consolidation selects by it. Evidence is a second set of the same
  elements. `expired` is what the clock has done.
- The retention job's transaction is READ COMMITTED and deletes what it selected by id.
  Its own deletes are invisible until `CommitPurge`, so they are kept in `job[j].turns`.
  `adelete_thread` commits on another connection: `EraseCheckpoint` is a step of its own,
  and `PurgeFails` after it leaves rows without a thread.
- The foreign keys cascade in `CommitPurge`: rows appended since the conversation was
  found stale go with it, which `FreshTurnsLost` shows.

Bounds. Two queries and one conversation: every hazard here is about two calls that meet
in one conversation, or one call and one job. Two users claim it in turn. One failure of
the job. The retention period is much longer than a query takes, so days pass only while no
query is under way; a conversation that is stale at the start stands for the calls of
earlier weeks. One job: the second replica's delete waits in `DeleteExpiredTurns` (several
jobs are covered by the proofs).

Fairness. A query's steps and the job's are strongly fair: both may wait for a row another
transaction locks again and again, and PostgreSQL queues lock requests. Consolidation, once
it holds a row, is weakly fair. New calls, the clock and failures have none.

### Components on their own

`MCComponents` runs seven modules that share no state, one per behaviour, so that one run
checks them all: the agent's requests of above, and these.

| module | models |
|---|---|
| `DocumentPipeline` | `UploadDocument.execute` (blob, key check, commit of document and outbox row), `OutboxPublisher._publish_batch`, `DocumentIngestionConsumer.ingest_once`; the `FOR UPDATE SKIP LOCKED` row locks both kinds of task take on the same table; kills, failed deliveries and lost connections |
| `ApplicationContainer` | the validators of `Settings`, `Container.build`, `start` with its roll back, `close`, tasks that end on their own |
| `ContextAssembly` | the providers' answers in any order, `TokenBudgetAllocator.allocate`, `DefaultContextAssembler.assemble`; any provider may raise, `recent_turns` by its token counter, and loses its own blocks only |
| `OperationsEvidence` | the SELECTs of the read tools, `CollectionResultAdapter`, the evidence trail, `ReferenceResolver` and the field queries, status transitions by others |
| `UserDirectory` | `RegisterUser.execute` as its two transactions and `RunUserConsistencyAudit.execute` as one statement per check, while users register |
| `InMemoryConversationStore` | see above |
| `MCContextAssembly`, `MCComponents` | the token counts of the configurations; the composition and its instances |
| `DocumentPipelineProofs` | the proofs about documents and their outbox |
| `ContextAssemblyProofs` | the proofs about the assembled context |
| `ComponentProofs` | the proofs about users, the tools and follow-ups of operations, the in-memory store and the container |

How they correspond, where it is not evident:

- In `DocumentPipeline`, row ids stand for `created_at` order; `publisher[p].batch` and
  `ingester[i].batch` are the locked rows of an open transaction. Chunks are counted per
  document, because `memory_store.record` commits each in a session of its own: a task that
  dies leaves them, and its successor records them again. `ConnectionLost` drops the locks
  while the task goes on to the end of the document.
- In `ApplicationContainer`, `running` is `started` without the tasks that ended by
  themselves; `phase` follows the calls. Settings are the set of what is switched on.
- In `ContextAssembly`, a text is a number in alphabetical order with a token count;
  `Charge` is the allocator's `max(1, count)`. `Sorted` puts each block at its `Place`, one past
  the number of blocks that sort before it, and keeps equal blocks in their order, as `sorted`
  does. `Taken[k]` is what the allocator's loop holds after `k` blocks, `Sums[k]` the sum of the
  first `k` numbers: recursive functions, which a proof can unfold.
- In `OperationsEvidence`, `DueText` is what decides how `isoformat()` texts compare:
  the second, then the character that follows it (`.` or `+`). Priorities compare as strings
  in `ORDER BY`, by rank in the resolver. A resolver chooses positions of a snapshot (`Chosen`);
  the reply is the set of the items there.
- In `UserDirectory`, `ImportedRows` are rows written by others, wrong in the ways the
  audit looks for. An audit's `now` is what its caller gives (`now_utc`, which the tool's input
  offers) or else the clock's: `auditRun.given` tells which.

Bounds. Two uploads (with one key, or a readable and an unreadable text of two chunks), two
ingesters and one publisher, batches of two, one failure: enough for two tasks to want one row
and for a successor to repeat a chunk. Settings: every combination of the features with at most
one credential missing, or all. Two blocks per provider and a budget of five, with texts of
zero, one and three tokens. Five rows of operations, a limit of two, three snapshots and a
resolver that sees the last two. Two registrations, two spellings of one email, two imported
rows; an audit of all checks as of the clock's now with a limit below 1, and one of two checks
as of an earlier now with a limit above 500.

Fairness. `PipelineFairness`: the publishers' and ingesters' steps are weakly fair. A dead
task is started only with the next process, which nobody promises, so restarts have none.
`SKIP LOCKED` never waits. The agent's requests are as fair as said above; the others have no
liveness property. `Components` does not check deadlock: a container that has closed, an
assembled context and requests that were all answered are at their end.

## 3. Runs

Passing runs:

| run | instance | shows |
|---|---|---|
| `Mirror` | three deployments: 2 rows, 1 of them a chunk, 2 sync workers, retention, consolidation, 2 faults; 2 rows of facts, 2 conversations, 2 consolidators, retention, 1 fault; 1 row, 2 sync workers, retention, consolidation and reconciliation, 1 fault | `TypeOK`; `SyncingRowsStayLive`: rows whose embedding is under way are live and locked by their worker; `VectorsHaveRows`; `OneActiveRowPerFact` through the race of select, insert, conflict and re-select, with the winner's row expiring meanwhile; `OnlyLiveRowsArePublished`; `StampsFailOnlyWithVectors`: a stamped live row is left without its vector by nothing but a deletion of that vector; `LiveVectorsAreKept`: that deletion is a reconciliation's, of a row it could not have read; `ImplementsMirroredIndex` |
| `Purge` | 2 rows, 2 conversations, one of each worker; fair | `LineagePreserved`; `ExpiredMemoryIsPurged` from table and index; `IdleConversationsAreConsolidated`, also when their turns expired first |
| `Erasure` | 1 row, 2 users, one of each worker but retention; 1 fault; fair | `ErasureTouchesOwnRowsOnly`; `LiveVectorsAreKept`: only an erasure that matched a live row, or a reconciliation that could not have read it, takes its vector; `OrphansAreSwept`; `EveryRowIsSynced` after failures |
| `ShortTerm` | 2 queries of 2 users in 1 conversation, retention with 1 failure, consolidation; fair | `RowsMatchTheirConversation`; `QueriesReadTheirOwnersRows` although the id changes hands between the calls; `ConsolidationReadsEveryTurn`: a stamped conversation has no turn the stamping transaction did not read; `LiveTurnsLeaveWithTheirConversation`; `ImplementsLedger`; `QueriesEnd`; `StaleConversationsArePurged` |
| `Components` | the agent (2 requests of 1 user, 2 tools, 2 sites; one call per window of two seconds) and the six components of the last section; fair | `CallsWithinBudget`, `AdmissionsBounded` (never more than 2 * limit - 1 in a window's length, across requests), `RetryAfterIsHonest`, `DecisionsAreDurable`, `HandlersSeeAuthorizedSites`, `QueriesEnd` (agent); `StampsAreEarned`, `IndexedDocumentsStayAsTheyAre`, `OutboxIsWorkedOff` (documents); `ValidSettingsBuild`, `UsersStopFirst` (container); `ContextFitsBudget`; `ToolResultsAdapt`, `FollowUpsQuoteTheLatestResult` (operations); `OneUserPerEmail`, `AuditMissesNothing` (users); `InMemoryImplementsLedger` |

Deadlock is checked in `Mirror` and `Purge`. `Erasure` does not check it: the system can
really stop there (below), and TLC would report that and nothing else. `ShortTerm` and
`Components` end when all calls are answered and no job finds anything; `QueriesEnd` says what
matters of it.

Runs that show the code violating what the repository says of it:

| run | what the repository says | what the code does |
|---|---|---|
| `ErasureLeavesVector` | `docs/context-and-memory-management-plan.md:319`: zero vectors remain after an erasure | A sync holds the row `FOR UPDATE`; the erasure deletes the vectors (no lock taken), the sync upserts, commits, and only then the erasure's `DELETE` gets the row. The vector stays, with the owner in its metadata, until reconciliation finds it. |
| `ErasureDeadlock` | `.github/copilot-instructions.md:47`: background workers have timeouts and deterministic shutdown | The erasure has deleted (locked) the row of a fact and waits for a conversation that a consolidation pass has locked; that pass waits, in a second session, for the row. For PostgreSQL the first session of the pass is merely idle, so its deadlock detector sees no cycle, and no lock or statement timeout is configured. |
| `LineageLost` | `docs/context-and-memory-management-plan.md:103`: a duplicate preserves source-turn lineage | After an `IntegrityError` the existing row is returned without merging the source turns, which the other duplicate path does. A later erasure by lineage or expiry of turns then works on an incomplete lineage. |
| `ReconciliationTakesLive` | `docs/system-operational-test-and-coverage-plan.md:250`: reconciliation deletes only orphans | The job reads the ids of the table once and lists the namespaces afterwards. A row inserted and synced in between is not among the ids: its vector is deleted although the row is live, and because `synced_at` is set no worker ever publishes it again (`reconciliation_job.py:34-50`). `LiveVectorsAreKept` says what holds instead: a row that was there when the job read keeps its vector. |
| `SharesIgnored` | `docs/context-and-memory-management-plan.md:63,126`: per-kind shares, unused share spills by priority | `budget.py:29` sorts by share and then takes whatever still fits the total: two recent turns use up the whole budget, and a document within its kind's share is dropped. `ContextFitsBudget` says what holds instead. |
| `WriteFails` | `tests/unit/operations/test_write_work_order_status_tool.py:83`: an allowed transition is applied | The use case reads `.status` of what `find_status_by_code` returns, which the repository and its port declare as a list: `AttributeError`. The test's store returns a single snapshot. The run allows write tools and lets no database call fail, so that nothing else can raise. (The default wiring does not allow write tools; the call then ends as `approval_required`.) |
| `FreshTurnsLost` | `docs/system-operational-test-and-coverage-plan.md:237`: retention deletes only expired data | The job selects stale conversations that have no turn left, erases threads one by one, and then deletes those conversations by id. A turn appended in between goes with its conversation by the foreign key. `LiveTurnsLeaveWithTheirConversation` says what holds instead. |

Further limits that TLC found while the model was written, which have no run of their
own (each comes from adding an actor to one of the runs, or a property to its cfg):

- `VectorsHaveRows` fails with an eraser (`ErasureLeavesVector`). `ImplementsMirroredIndex` does
  not: `Erasing`, which is `Erasers # {}`, allows the abstract index its step `Erase`, which takes
  a row and may leave the vector, and everything else it promises still holds. `Mirror` has no
  erasers, so it checks the promise in its strong form.
- `LiveVectorsAreKept` names the two tasks that take a live row's vector. What they leave is a
  row with `synced_at` set and no vector, for good: `StampsFailOnlyWithVectors` says that
  nothing else leaves one.
- A fact promoted from a user's conversation between the erasure's read and its commit
  outlives the erasure, live and with its vector; candidates are never erased at all
  (`user_memory_eraser.py:39,74`).
- An erasure that fails after deleting vectors leaves live rows with `synced_at` set
  and no vector.
- Any exception ends a worker task for good; with `EveryRowIsSynced` or
  `OrphansAreSwept` stated without the "has died" clause, one fault refutes them.
- The limiter lives in the process's memory: `AdmissionsBounded` is per process and per
  lifetime of the process, and replicas each have their own.
- The audit row of a call is committed after its handler has run, and a handler's own
  effect in its own session before that: a crash in between leaves an effect without a
  row. `DecisionsAreDurable` says what holds: whatever a request goes on with is committed.
- With more than one call allowed, an answer the planner gives after a call is final and
  does not come from the `FinalResponseComposer` (`plan_action.py:22`), against the
  assertion in `agent_brain.py:102`. The wiring allows one call, so this does not happen
  as deployed.

Hazards met while modelling that no run has a property for:

- `user_memory_eraser.py:39,65,110` and `vector_sync_worker.py:43`: the erasure's stale read
  and its partial failures (above); a batch of rows that always fail starves later rows.
- `consolidation_worker.py:87`: `consolidated_at` is never reset, so turns appended after a
  consolidation do not reach long-term memory.
- `short_term_retention_job.py:76,103,134`: threads of expired turns are erased although the
  conversation goes on; a failed commit leaves rows without their thread; one transaction
  holds every row of a large purge.
- `conversation_evidence.py:65`: evidence above its limit of bytes rolls the whole exchange
  back; the in-memory store never looks at `expires_at`.
- `document_ingestion_consumer.py:63,79`: a document that can never be downloaded ends every
  ingester that meets it; a lost connection gives the row to another one while the first still
  records chunks, so chunks can be there twice (`IndexedDocumentsStayAsTheyAre` says exactly
  when).
- `kafka_callout.py:70`, `outbox_publisher.py:39`: an event may be delivered although the
  call raises, so consumers see it again; a stop re-raises the task's error before the flush.
- `documents/wiring.py:59`: with the outbox enabled and no blob storage nothing publishes.
- `vector_sync_worker.py:82`: a row that has failed 1024 times ends the worker at each further
  failure; `Mirror` goes through it as through any crash.
- `context/budget.py:30`: within a kind blocks come in reverse alphabetical order of their text.
- `resolver.py:68`: an empty result is passed over for an older one, and values are as old as
  their snapshot.
- `operations.py:132`: `priority.desc()` sorts text, which puts "critical" last.
- `modules/user`: a user who registers during an audit, or after the "now" an audit's caller
  gives, may be reported as created in the future (`use_cases.py:80`); the entity takes names of
  two characters which the audit reports (`entities.py:45`); the authorization policy reads
  roles and sites in two statements.

## 4. What is proved

All proof modules hold for every value of the constants: any number of rows, users,
facts, conversations, queries, workers of each kind, batch sizes and faults, under the ASSUMEs
of the model's modules (bounds are naturals, batch sizes positive, session names
distinct).

`LongTermMemoryProofs`:

- `TypeCorrect`: `Spec => []TypeOK`.
- `SyncingSafe`: `Spec => []SyncingRowsStayLive`.
- `PublishingSafe`: `Spec => OnlyLiveRowsArePublished`.

The invariant is `IInv == TypeOK /\ SyncingRowsStayLive /\ FailedRowsMayRetry /\
PromotionHasItsParts`. The first two need each other: `CommitSync` adds one to the
retry count of its failed rows, which stays within its bound only because the count was
below it when the call failed (`FailedRowsMayRetry`) and no other worker has the row,
that is, because of its lock. `PromotionHasItsParts` says that the conversation, fact and
record a promotion writes are set by the time it writes them. Each actor has a lemma
that its steps preserve the invariant; `LockedRowsKept` and `OthersKept` say once, for
all of them, that rows locked by sync workers are left alone. Its last section describes
the life of a row once for all later proofs (`RowsMove`): a row is inserted by ingestion or
by a consolidator, keeps its kind, owner and fact, only gains sources, and never becomes
live again.

`UserFactProofs`:

- `OneRowPerFact`: `Spec => []OneActiveRowPerFact`.
- `ErasureIsConfined`: `Spec => []ErasureTouchesOwnRowsOnly`.
- `LineageSurvives`: `Spec => []LineagePreserved`, if there is at most one consolidator.

The first two have the invariant `FactInv`. `FactsAreUnique` says of rows what the property
says of a cardinality; the guard of the insert that stands for the partial unique index
keeps it, and nothing else makes a row live. `SourcesAreOwned` says that a row names
conversations of its own owner only, which is why an erasure that matches by lineage stays
with its user (`MatchesAreOwned`). The third needs its assumption, as `LineageLost` shows:
two consolidators break it. `InsertsAreFree` is where the assumption is used: a lone
consolidator that looked a fact up in vain meets no conflict at its insert. `LinksAreNamed`
and `PromotionsAreNamed` carry the named conversation from there to the promoted candidate.

`MirroredIndexProofs`, with nothing assumed of who runs:

- `Refinement`: `Spec => ImplementsMirroredIndex`.
- `StampsAreTrue`: `Spec => StampsFailOnlyWithVectors`.
- `LiveVectorsSurvive`: `Spec => LiveVectorsAreKept`;

and under the assumption `Erasers = {}`, for the reason given in section 3:

- `MirrorHolds`: `Spec => []VectorsHaveRows`.

Here the invariant `MInv` adds `VectorsMirrored` (a vector lies in its row's namespace, and the
row is there unless users may be erased) and `BatchesWithdrawn`. The latter is the heart of
it: the retention job keeps no lock between its transactions, so what makes its hard
delete safe is that soft-deleted rows never become live again, that sync only
publishes live rows, and that vectors of a namespace already withdrawn are not there. An erasure
that takes a row of such a batch meanwhile disturbs none of this: the row is gone, so nobody
publishes it, and the job's delete passes it over. So the refinement needs no assumption: the
retention job never takes a row before its vector is gone for good, whatever erasures do, and
the only step that can leave a vector without a row is `Erase`.

For live rows and their vectors `VInv` adds `OrphansWereNotRead`: a row inserted before a
reconciliation job read its ids is among them as long as it is live (`RowsAge`: no row becomes
live again), so what the job calls an orphan, if it is live, was inserted later.
`TakenFromLive` goes through the steps that delete vectors; retention's batch has no live row
(`BatchesWithdrawn`). For the stamps, `StampsFollowUpserts` says that a step stamps only rows
whose vectors are there or were taken from a stamp on its way, and `PromisesFollowVectors` that
a stamp, on its way or committed, stays true until the vector itself is taken.

`AssistantAgentProofs`, for any number of requests, users, tools and sites, any limits and
any clock resolution:

- `AgentTypeCorrect`: `Spec => []TypeOK`.
- `BudgetRespected`: `Spec => []CallsWithinBudget`.
- `RetryAfterHonest`: `Spec => []RetryAfterIsHonest`.
- `HandlersAuthorized`: `Spec => []HandlersSeeAuthorizedSites`.
- `AuditIsDurable`: `Spec => []DecisionsAreDurable`.
- `AdmissionsAreBounded`: `Spec => []AdmissionsBounded`.

The invariant of the first three is `TypeOK /\ CallsHaveOutcomes /\ BooksBalance`. A call is
checked against the budget before it starts and paid for when it is observed, so the budget
alone does not bound the calls: `BooksBalance` says that what is left and what was called add up
to at most the cap, that the per-tool counts are the numbers of observed calls, and that the
call under way can still be paid. `CallsHaveOutcomes` says that an ended call has an outcome to
observe. `RetryAfterHonest` is arithmetic: `RetryAfterExact` shows, from the rounding of `\div`,
that the delay is the least that suffices. `HandlersAuthorized` and `AuditIsDurable` need
`GateInv`: `GateIsHonest` carries what was checked when the call was decided (the scoped site,
the decision) to the handler and the commit; `AuditKeepsUp` says that committed rows and
observed calls have the same length, or differ by the one call that ended but is not yet
observed. `AdmissionsAreBounded` rests on `WindowsKept`, about the history of one counter: the
last `used` admissions are those of the current window and begin at its start, and an admission
`MaxCalls` or more before the first of these is at least a whole window older than that start. A
window that expires while unused costs nothing, so two full windows can touch, and the bound is
`2 * MaxCalls - 1`, not `MaxCalls`.

`ShortTermMemoryProofs`, for any finite number of queries and any users, conversations and
jobs:

- `ShortTermTypeCorrect`: `Spec => []TypeOK`.
- `TablesStayTogether`: `Spec => []RowsMatchTheirConversation`.
- `ReadsAreOwned`: `Spec => []QueriesReadTheirOwnersRows`.
- `StoreImplementsLedger`: `Spec => ImplementsLedger`.
- `StampsCoverEveryTurn`: `Spec => ConsolidationReadsEveryTurn`.
- `LiveTurnsFollowTheirRow`: `Spec => LiveTurnsLeaveWithTheirConversation`.

The invariant adds `RowsAreOfDoneQueries` (a query appends once, so its exchange is new when
it does), `CountsAreEarned` (`turn_count` is at most twice the number of queries that are
done, which is why it keeps its type), `QueriesBegin` and the finiteness of the turns table.
`QueryMoves` and `TablesMove` say once what every step that appends nothing may do. For the
refinement, a claim of an unowned row is the ledger's claim, an append its append, a
purge its forgetting, and all other steps stutter. The last two have an invariant of their
own about what is held from one step to a later one: `LockedRowsGainNoTurn` (an append has to
lock the conversation's row first) and `JobsHoldExpiredTurns` (what a job selected has expired
and stays so, however long it takes to delete it).

`DocumentPipelineProofs`, for any finite number of uploads and any publishers, ingesters, chunks
and failures:

- `OutboxTellsTheTruth`: `PipelineSpec => []StampsAreEarned`.
- `FinalDocumentsStay`: `PipelineSpec => IndexedDocumentsStayAsTheyAre`.

Both are about facts one task learns in one step and commits several steps later. `PInv` says
what it may rely on meanwhile: what a publisher has sent was sent (`PublisherKnows`); the
chunks of the documents an ingester is done with are there, and those of the current one up
to where it is (`IngesterKnows`); while its connection lasts, its rows are not stamped by
anyone and in nobody else's batch (`RowsAreLocked`); and a final status is the one the
document's text calls for (`StatusesMatchRows`), so that a late ingester can only set the
same one again.

`ContextAssemblyProofs`, for any texts, token counts, budget and number of blocks:

- `ContextsFit`: `ContextSpec => []ContextFitsBudget`.

What a recursive function computes is not known to the prover before one exists that satisfies
its equation. `SetInduction` is induction with a set in the place of the predicate; from it
follow `SumsExist` and `TakenExists`, which give the two functions of the model their types and
equations. The same induction carries `LoopInvariant` through the allocator's loop
(`LoopStarts`, `LoopTakes`, `LoopDrops`): the tokens in use are the sum of what was taken and
within the budget; taken and dropped add up to the blocks seen; what was taken is in the order
of priority; and each block seen is taken as often as it came, or did not fit after some of the
blocks taken that do not go behind it (`Accounted`). For the last, a block dropped at its turn
stays accounted for, because later blocks are only appended. `SortedHolds` shows that the places
of the blocks are a permutation (`PlacesAreOrdered`, `PlacesAreTaken`), so that sorting keeps
each block as often as it came. `AnswersTyped` and `AssembledLast` say that the assembler waits
for every provider, so that what was brought does not change once the context is made.

`ComponentProofs`:

- `EmailsStayUnique`: `DirectorySpec => []OneUserPerEmail`.
- `AuditIsComplete`: `DirectorySpec => []AuditMissesNothing`.
- `ReadsAdapt`: `OperationsSpec => []ToolResultsAdapt`.
- `FollowUpsQuoteTruly`: `OperationsSpec => []FollowUpsQuoteTheLatestResult`.
- `MemoryImplementsLedger`: `InMemorySpec => InMemoryImplementsLedger`.
- `SettingsSuffice`: `ContainerSpec => []ValidSettingsBuild`.
- `ShutdownIsOrdered`: `ContainerSpec => []UsersStopFirst`.

Emails are unique because the index refuses the second insert, whatever the look-up before it
saw; `RowsHaveWriters` and `CallsInOrder` say that a registered row is as `User.register` made
it, which the audit needs. `AuditProgress` relates the checks of an audit to the table at its
start: rows only ever arrive, so a finished check has found everything the table had, or its
limit, and a row a registration wrote can only be found in the two ways `Excusable` names: for
its name of two characters, or as created after the audit's now; if that now is the clock's,
only when it arrived since. `ResultsAreAsked` says what a SELECT returns, from which
`ReadsAdapt` shows, adapter check by adapter check, that nothing it returns is refused. For a
follow-up, `RecentIsTheEnd` says that what a resolver sees is the end of the trail, so that the
newest snapshot with anything in it is the same for both, and `BestAreNotOutranked` that the
items chosen for a minimum or maximum are all those no other has a better rank than; a status
that changed since the snapshot changes nothing, for the evidence is a copy (`OperationsStays`).
`TrimKeepsTheNewest` and `ExchangesArePast` show that an append to the in-memory store is the
ledger's append and a forgetting from the old end, and nothing else.

`UsersStopFirst`, for any settings and any number of failures, follows from `StartedInOrder`
(every started resource comes before every other one in `BuildOrder`, whether starting, rolling
back or closing), from `UsedFirst` (the list has what is used before its users) and from
`PassiveRun` (what is used is no task, so it does not end by itself).

What these proofs assume beyond the modules' bounds: a table, and the codes of operations,
are finite, and an id of a registration is never an email (`DirectoryAssumption`,
`OperationsAssumption`). No state of the program is otherwise.

Only model-checked are the liveness properties (`ExpiredMemoryIsPurged`,
`IdleConversationsAreConsolidated`, `OrphansAreSwept`, `EveryRowIsSynced`, both `QueriesEnd`,
`StaleConversationsArePurged`, `OutboxIsWorkedOff`): fairness and ENABLED are outside the prover's
reach. All other properties of the passing runs are proved, without assumptions but for two:
`VectorsHaveRows` where there are no erasers, and `LineagePreserved` for at most one consolidator.

## 5. What is not modelled

- Of long-term memory: reads (recall, recent memories), which change nothing; the text
  of facts and the policy that accepts them (any subset may be accepted); candidates
  without a record; limits on how many conversations a user may have; the interval
  timers (a task may start its next pass at any moment); a permanent failure for one
  row, as opposed to any number of failures.
- Of short-term memory: the text of turns, the working set's content, and pages of old turns;
  evidence of the in-memory store does not expire because its code never looks.
- Of the agent: the web search tool, the content of a checkpoint thread (its nodes do not read
  it), the language model. The write tool always raises in the model, as it does in the code.
- Of the documents: the consumers of the topic, which are not in this repository; formats and
  the extraction of text, which is readable or not.
- Of operations: columns no follow-up asks for.
- Of users: roles and site assignments, which no code of the application writes while it
  serves (the agent's requests carry what was read of them as their context).
- The policy that accepts extracted facts (`act_policy.py`): `ExtractFacts` may accept any
  subset of the candidates, so its decision table is not checked.
- Migrations, the scripts under `.github` and CI: no behaviour of the running system.
- `PipelineTypeOK`, `ContainerTypeOK`, `InMemoryTypeOK` and the agent's `TypeOK` document their
  modules' state; the latter three are part of proved invariants, the first is, but for the
  numeric bounds of the instance, `Shape` in `DocumentPipelineProofs`. None is a run's property
  of its own.
- Logging, metrics, HTTP mapping, settings, prompts and the language model's answers,
  which are arbitrary where they matter.

## 6. Plan

In this order:

1. `FactPolicy`: the decision table of `act_policy.py` as an operator, against the table in the
   documentation, and used by `ExtractFacts`.
2. Roles: assignment and removal of roles and sites, and what a request reads of them in two
   statements, once the policy is wired.
3. A second retention replica and a second conversation in `ShortTerm`, if a smaller query
   model allows it.
