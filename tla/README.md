# BRAVI: TLA+ models, checks and proofs

BRAVI is a question-answering service over a knowledge base: a FastAPI process that
answers users and operators through two LangGraph graphs, streams the answers as
server-sent events, ingests documents into PostgreSQL/pgvector, and calls models on AWS
Bedrock. This directory holds TLA+ models of the parts of `src/backend/app` that keep
state, what TLC checks of them on small instances, and theorems TLAPS proves of them for
every value of their constants. Paths below are relative to `src/backend/app` unless they
start with `docs/`.

Everything in the API process runs in one asyncio event loop: a step of a model is what
the code does between two awaits (or one committed transaction, where the code holds no
state of its own between the awaits), and steps of different requests interleave at will.

## 1. The system

| component | state | operations | interacts with |
|---|---|---|---|
| Circuit breaker and retries (`clients/bedrock_client.py`) | one breaker per process: `_state`, `_consecutive_failures`, `_opened_at`; per call the retry attempt | `before_call`, `record_success`, `record_failure`, `_with_retry`, `embed`, `generate_stream` | called by the nodes of all graphs |
| Knowledge base (`models/knowledge_*.py`) | rows of documents and chunks, idempotency keys, `superseded_by` pointers | create, settle, delete | written by ingestion, read by every chat turn |
| On-demand ingestion and deletion (`services/ingestion_service.py`, `graphs/ingestion_graph.py`) | documents, jobs, background tasks | `ingest_document`, `_run_on_demand_ingestion`, `delete_knowledge` | knowledge base; row locks and foreign keys of PostgreSQL |
| Startup ingestion (`jobs/run_initial_ingestion.py`, `jobs/ingestion_scheduler.py`) | `knowledge_sources`: `is_ingested`, `content_hash`; a semaphore | `run_initial_ingestion`, `_process_source` | knowledge base; `delete_knowledge` resets a source |
| Rate limiter (`middleware/rate_limit.py`, `clients/redis_client.py`) | a Redis hash per caller: `tokens`, `ts`, a TTL | `enforce`, `allow`, `_consume`, `transactional_update` | guards the endpoints; shared by all replicas |
| Chat turn (`services/chat_service.py`, `utils/sse.py`, the two routers, the two chat graphs) | a task per graph, its queue, its transaction, the events sent | `chat`, `operator_chat`, `_stream_chat_graph`, `stream_with_keepalive`, the nodes | Bedrock, knowledge base, history, shutdown |
| Conversation history (`graphs/nodes/condense_history.py`, `persist_message`) | `sessions.title`, `history_summary`, `history_summary_updated_at`, `messages` | `persist_message`, `condense_history`, `run_retention_cleanup` | the turns of one session; the retention job |
| Graceful shutdown (`shutdown.py`, `main.py`) | a flag, a count of streams, an event | `track_stream`, `wait_drained`, `lifespan` | the chat streams |
| Ingestion pipeline (`graphs/ingestion_graph.py` and its nodes, `utils/chunking.py`) | one run's bytes, pages, chunks, embeddings, rows | `load_source` ... `update_ingestion_status`, `split_into_token_chunks` | run by both ingestions; Bedrock |
| Metering (`graphs/nodes/log_chat_metrics.py`, `utils/pricing.py`) | a row of `usage_metrics` per turn, two Prometheus counters | `log_chat_metrics`, `estimate_cost_usd` | the turn's transaction |
| Cost budget (`services/cost_budget_service.py`, `jobs/cost_budget_scheduler.py`) | a gauge, the scheduler's one pending firing | `run_cost_budget_check` | reads `usage_metrics`, in a process of its own |
| Retention (`services/retention_service.py`, `jobs/retention_scheduler.py`) | none | `run_retention_cleanup` | deletes messages and metrics |
| Analytics (`services/analytics_service.py`) | none | `get_operator_analytics` | reads `usage_metrics`, statement by statement |
| Health, errors, request parsing, configuration, prompts, schemas, migrations | none | validation, text, declarations | all |

What makes it hard, component by component, and what makes it right:

- **Breaker.** Callers overlap: one admitted before a trip reports after it, into another
  state. Only the call that finds the cooldown over is a probe, and only its report ends
  `HALF_OPEN`. Right: closed, it trips when enough failures in a row were recorded and not
  before, the assertion in `before_call` cannot fail, every probe and open period ends.
- **Ingestion and deletion.** A request, its background task, its deletion and another
  upload with the same key interleave between commits; any of them may die. Right: keys
  unique, supersession acyclic, every completed document searchable and any other only
  where a COMMIT was not answered, document and job in agreement, an answered deletion
  final, no document left queued but by a COMMIT that was not answered, the end of the
  process, or a task whose start or recovery the database failed.
- **Startup ingestion.** The source is read before a download and a graph run and written
  after them; a worker that raises ends its run and leaves the others at work beside the
  next one. Right: nothing is ingested twice for nothing unless two workers overlap on it, a
  source marked ingested is searchable, every batch ends.
- **Rate limiter.** Optimistic transactions, retried with an old clock reading; a key that
  expires; connections lost at any command. Right: updates are atomic, each admitted request
  pays once, nothing else is paid but the EXECs that were not answered, admission is bounded.
- **Chat turn.** The generator relays a queue another task fills, under keepalives; the
  client may leave at any await; COMMIT or ROLLBACK may fail. Right: one terminal event,
  which tells what the database holds; tokens complete and in order; no model called for
  a tier that does not need it; streams counted out.
- **History.** Turns of one session overlap across three transactions and a model call.
  Right: the summary is committed with its reply and forgets nothing that a turn could
  still see; the session's row is always released.
- **Ingestion pipeline.** Windows of tokens overlap, may be blank and end anywhere; batches
  are answered one by one, perhaps too short; any node may fail or raise. Right: no concept
  of the text falls between two chunks, no chunk repeats another, and what completes has
  stored each chunk with the embedding of its own content, what does not has stored none.
- **Metering.** The counters move before the commit, rows are stamped when their
  transaction begins and seen when it commits, checks are skipped, fail or are restarted, and
  a report is five snapshots. Right: counters and rows differ by exactly what is between them,
  the alert is true of the day it speaks of, the numbers of a report fit together.

Two failures run through several components: a COMMIT or EXEC whose answer is lost, so that
its caller takes for failed what has happened, and the end of a process between two steps.

`PROJECT.json` lists each hazard at its line, with the properties that cover it.

## 2. The modules

| module | models | built from |
|---|---|---|
| `CircuitBreaker` | the breaker and the calls that use it | |
| `KnowledgeBase` | abstract: the committed rows, one action per transaction | |
| `OnDemandIngestion` | uploads, tasks, deletions, restarts | implements `KnowledgeBase` |
| `StartupIngestion` | runs, workers, the semaphore, deletions | implements `KnowledgeBase` |
| `TokenBucket` | abstract: one atomic update of the bucket per request | |
| `RateLimiter` | WATCH, HGETALL, EXEC, retries, expiry | implements `TokenBucket` |
| `StreamDrain` | `ShutdownState` | |
| `Conversation` | abstract: a turn's rows and what its client is told | |
| `ChatTurn` | handlers, graphs, streams, commits, shutdown | INSTANCE `StreamDrain`; implements `Conversation` |
| `ChatHistory` | one session's rows under overlapping turns | |
| `IngestionPipeline` | one run of `ingestion_graph` over one document | |
| `Metering` | metrics of turns, budget checks, purges, reports | |
| `*Proofs` (`OnDemandProofs`, `StartupProofs` for the two ingestions) | the theorems | extend the module they are about |
| `MC*` | instances for TLC | extend the module they check |

### CircuitBreaker

`state`, `consecutiveFailures` and `sinceOpened` are the breaker's fields, the time since
`_opened_at` standing for the timestamp itself (`-1` is None). A caller is `invoking`, in
`backoff`, `streaming`, or has ended. `Reject` and `Admit` are `before_call`; `embed` and
`generate_stream` differ in when they report: `embed` once its attempts are over,
`generate_stream` at the end of the stream. `Lose` is a call that ends without a report:
its task is cancelled, its stream abandoned, or it raises something the client does not
classify. `prober`, `streak` and `exhausted` are history variables: the call that found the
cooldown over, the failures recorded since the last success, and those of them that had used
up their retries.

### KnowledgeBase, OnDemandIngestion, StartupIngestion

`KnowledgeBase` is what an operator or a chat turn may ever see: a row appears (and may
supersede another), settles, or disappears together with its chunks and the pointers to it.
A document completed by a COMMIT that was not answered is `inDoubt`, and only such a one may
be marked failed while it has chunks (`Distrust`).

`OnDemandIngestion` has one action per await of the three handlers that another actor can
tell apart: the key's lookup, the superseded document's lookup, the insert with its unique
index and foreign key, the start of the task (whose job row is locked from then on, or
`StartFails`: opening the session, reading the job and the first flush come before the `try`,
so an exception there is recovered by nothing and document and job stay queued),
`store_vectors` (whose foreign key locks the document's row), the commit, the crash of the
graph and the recovery in a new session (`RecoveryFails` when the database refuses that
too), the deletion's lookup, `SELECT FOR UPDATE`,
cascade and commit. PostgreSQL's locks are guards; a wait that ends in a deadlock or a
statement timeout is `DeletionAborted`. A task whose COMMIT took effect but was not answered
goes on to its recovery, which finds a completed document and marks it failed
(ingestion_service.py:151-169); an upload whose COMMIT was not answered answers 500 and starts
no task, so its document stays queued. `Restart` kills the process: requests and tasks are
gone, rows stay. Documents are identified with the uploads that create them.

`StartupIngestion` has runs of the job, `scheduled` or by hand (`manual`), and their workers
under each run's semaphore; a worker reads its source when it starts (`Acquire`), fetches
(`Download`), runs the graph and commits. A worker's writes are one transaction, so they are
one step. A worker ends its run in one of two ways: `Returns`, where the last one to return
ends it, or `Raises`, when an exception leaves the worker. `asyncio.gather` then raises too
and cancels nothing: under the scheduler the run counts as ended while its other workers go
on (`orphaned`), and APScheduler, whose `max_instances=1` sees no run, may fire the next one
beside them; a run by hand is over, since `asyncio.run` cancels the rest (`killed`). What
raises is a statement the database fails, a COMMIT, whether it took effect or not
(`Commits`), and every exception out of the graph (`Crash`): the handler means to log it and to
return an outcome, but its rollback has expired the source row it reads for the log, which
raises `MissingGreenlet`. `Die` and `SchedulerDies` are the end of a process, and
`ContentChanges` the web server. Every source starts with the same content (`FirstHash`):
hashes of two sources are never compared. `changes`, `resets`, `ingestions` and `overlapped`
are history: what has happened to a source, and whether two workers were ever at work on it.

### TokenBucket, RateLimiter

`TokenBucket` counts in units of one refill per clock tick, which keeps the arithmetic
integral: `Cost` units make one token. It has the hash, its expiry, the clock and, as
history, what was `spent`, how long the hash was unwritten, and `regress`: the time that
updates stamped with an older clock reading than the one before them give back to be
refilled again. The clock is read once, before the retries (rate_limit.py:74), so
`regress` can grow, and the admission bound says by exactly how much. `RateLimiter` splits
the update into WATCH, HGETALL and EXEC; `dirty` is what Redis keeps of a WATCH. The
connection may be lost at WATCH or HGETALL, which fails the request (`LoseConnection`), or
at EXEC, which redis-py reports like a conflict, so that the loop tries again: with nothing
written (`LoseExec`), or with the token already taken (`LoseAnswer`).

### StreamDrain, Conversation, ChatTurn

`Conversation` is what a client may rely on: a turn's rows appear in one step, at most once
and before it hears of them; then it hears at most once how the turn ended; an error means
that nothing was stored or that the COMMIT was not answered; a turn nobody listens to stores
nothing later.

In `ChatTurn`, `pc` follows a request from the handler through the nodes of the graph to the
closing steps of `_stream_chat_graph`. One action per node; routing is `CannedTier`, the
threshold (`BelowThreshold`/`Continue`) and `Mode`. Questions are abstracted to a persona,
whether there is an image, and what the classifiers make of them. The graph's task appends to
`queue`; `Relay` sends its head; `Keepalive` may come at any time the graph runs: the pending
read of the queue survives its timeout, so an item that arrives just then stays queued.
`called` are, per request, the nodes whose call of Bedrock was answered. `pending` is the open
transaction and `stored` what is committed. `CommitFails` may have taken effect (`lost`).
`Disconnect` is cancellation at any await of a stream.

### ChatHistory

Turns of one session, each through the handler's transaction (`StoreQuestion`: the title and
the user's message) and the graph's (`BeginReply`, `ReadSession`, `ListMessages`, `Fold`,
`Flush`, `StoreReply`). Two facts of the code matter: `created_at` is `now()`, PostgreSQL's
time of the *transaction's* start, while `history_summary_updated_at` is read from the
process's clock after the model has answered; and the UPDATE of the session's row keeps
its lock to the end of the transaction (`holder`). `summary.tells` is the set of messages
that went into the rolling summary, one clock stamps everything, and each stamp advances it.
`Purge` is the retention job, which deletes messages of turns that are over: its horizon
of days is taken to be longer than a turn.

### IngestionPipeline

A token is text or whitespace; a document is its kind and its pages, and nothing else of
it matters to the windows. `node` is the graph's node, and one action is one node, except
that `chunk_text` is one action per window of `split_into_token_chunks` (`TakeWindow`) and
`embed_chunks` one per batch, because that is where a failure can fall. Offsets count from
0 as in the code. `Answer(n)` is a batch of embeddings, each represented by the window it was
computed from, so that an embedding stored with the wrong chunk is visible; Bedrock may
answer for one text less than it was sent. `Fail` is a node that returns status "failed"
and is routed to the last node, `Crash` an exception that leaves the graph, after which the
caller rolls back. The branch of `load_source` for a state that is failed when the graph is
entered is left out: no caller enters it so.

### Metering

`turn` follows the transactions of chat turns: `open`, `logged` (row flushed, counters
moved), then `stored`, `failed` or `undone` (rolled back after the counters moved). `began`
is the row's `created_at`, `kept` (history) when it was committed. The budget scheduler is
`due`, `check` and `gauge`: `Tick` fires it each hour, APScheduler may skip a firing, the check
may fail or its process be replaced. `StartPurge` computes the cutoff, `EndPurge` deletes with
it. A report holds its `answers` in the order of `get_operator_analytics`' statements, and
(history) what kinds of commits `changed` the table since it was opened. A turn's usage says
whether the text model, the embedding model or both were called: the report counts each by its
own column. `Commit` is also a COMMIT whose answer is lost, since rows and counters are then
the same, and `ChatTurn` says what the client hears of it. Money is counted in
the smallest amount the price table yields; `Unit` of them are one in the last place of
NUMERIC(10,4), to which `RowCost` rounds.

## 3. What the runs show

Twelve runs: eight hold, and four show where a document of the repository and the code part.

| run | instance | shows |
|---|---|---|
| `circuit_breaker` | 3 callers, threshold 2, cooldown 2, 1 retry | the fields stay consistent, a closed breaker trips when its failures are due, half-open is owed an answer, open periods and calls end |
| `on_demand_ingestion` | 2 uploads, 2 deletions, 1 key (or none), 2 contents | `KnowledgeBase` implemented, document and job agree, deletions are final, uploads settle |
| `startup_ingestion` | 2 sources, 2 runs under way at once, scheduled or by hand, 1 permit, 2 hashes, 1 deletion, at most 3 documents and 1 change | needless ingestions only where workers overlap, ingested means searchable, `KnowledgeBase` implemented, batches end |
| `rate_limiter` | 3 requests, a burst of one token (2 units), TTL 2, 2 attempts, 3 ticks | `TokenBucket` implemented, each admitted request paid once, admission bounded |
| `chat_turn` | an operator's question, with or without an image, that gets a canned answer, and a user's the model answers with up to 2 tokens; 1 keepalive | `Conversation` implemented, one terminal event, no tier calls a model of a later one, tokens in order, exact count, clean drain, streams end |
| `chat_history` | 3 turns that overlap at will, condensing from 2 turns on | summary and reply are atomic, what the summary can forget, the row's lock is released |
| `ingestion_pipeline` | windows of 3 tokens, overlap 1, batches of 2; every text of up to 6 tokens, every document of up to two pages, 6 and 3 tokens long at most | no concept cut, no chunk redundant, stored whole or not at all, every run of the graph ends |
| `metering` | 2 turns, generated or canned with an image; a budget of 5, rounding to 2; retention of 1 day, days of 2 hours, 3 ticks | counters and rows, the alert and the day, the numbers of a report |
| `breaker_lost_probe` | as `circuit_breaker` | *violated*: half-open gets back to open or closed |
| `idempotent_retry` | as `on_demand_ingestion` | *violated*: a retry with the same key gets the original document |
| `startup_overlap` | 2 sources, 2 runs | *violated*: runs cannot overlap, or may safely |
| `history_forgets_replies` | as `chat_history` | *violated*: sequential turns lose nothing from the summary |

**Why the bounds are enough.** Three callers are what it takes for a probe, a late success
and a late failure to meet; a threshold of 2 separates "first" from "last" failure, and
a cooldown of 2 separates started, running and over. Two uploads meet in every way over
one key or one supersession, and two deletions can meet on one document. Two sources are
what a raising worker and the one it leaves behind take, and two runs make the next firing,
or a run by hand, meet it; a run that is over may start again as a later one. Three
requests are enough for one to lose its transaction twice and give up, and for the token to
be taken before and after a refill and an expiry; with two units to a token the bucket also
holds fractions of one, and three ticks outlast the TTL. Two tokens can be swapped, one
keepalive can fall between them. Three turns of a session make a second summary that should
tell of what the first missed. Six tokens make three windows of a page, the middle one blank
or not, the last one cut short or not, and with a second page they make up to four chunks:
two batches, the last one full or not. Two metered turns can straddle midnight, a check, a purge
and two statements of a report, and three ticks reach the second day's second hour, when the
first hour's rows are purged; one generated answer stays below the budget and two reach it. Larger
values were left out only for time. The bounds that belong to the models, not the code, are
`MaxDocs`, `MaxChanges`, `MaxTime`, `MaxTokens`, `MaxKeepalives`, `NumTurns`, `LastHour`,
`FirstPage` and `SecondPage`.

**Symmetry** is used for the requests of `rate_limiter` and the turns of `metering`: no
action or property tells their members apart, and neither run checks liveness.

**Deadlock** is checked for the breaker, whose callers never stop arriving. All other
instances have finitely many requests (or one document, room for so many documents, or a last
hour) and stop when those are served or used up.

**Fairness.** Every fairness condition is weak and on a step the event loop, a timeout or
the database brings about: a call to Bedrock that is awaited ends (connect and read
timeouts, bounded retries), a statement ends (statement timeout), a worker with a permit
goes on, a stream's generator is driven or closed. Nothing is assumed of clients (except
that one which has opened a stream reads it or goes away), of failures or of restarts.
In `IngestionPipeline` every node returns or raises, since its downloads, calls and statements
have timeouts. `Metering` assumes none: its properties are about what has happened.
Breaker liveness also assumes callers keep arriving and the clock runs, since a breaker
nobody calls stays as it is. uvicorn by default waits for open connections before it runs
the lifespan's shutdown; `ChatTurn` does not assume it, so the drain is checked on its own.

**Findings** (details and quotes in `PROJECT.json`):

1. A probe that is cancelled or abandoned leaves the breaker half-open and every later call
   rejected until the process restarts (`HalfOpenResolves`). `HalfOpenIsOwed` and
   `CallsEnd` show this is the only way for it to stay there.
2. A retry that overlaps its original gets a 500 from the unique index
   (`RetryGetsOriginal`).
3. The comment of ingestion_scheduler.py says that `max_instances=1` keeps runs from
   overlapping and that an overlap would be safe. A worker that raises ends its run for
   APScheduler and leaves the others at work; the next firing reads their sources before they
   write, and ingests the same content again (`NoNeedlessIngestion`). A run by hand beside the
   scheduler's does the same. `NeedlessOnlyByOverlap` shows there is no other way.
4. The reply of every turn that condenses is older than the summary it makes and never
   gets into a later one (`NothingForgotten`). `ForgottenOnlyByOverlap` bounds what is lost to
   exactly those replies and to messages of overlapping turns.

The code parts from a document or a comment in five more places. No run is violated to show
them: the models do what the code does, and the property named with each is stated so that it
holds of that, and says what is kept.

5. `docs/14-bedrock-integration.md` section 6 counts "consecutive retry-exhausted failures"; the
   code counts every failure, also one that was not retried (bedrock_client.py:149).
   `TripsWhenDue` is two bounds: a closed breaker has opened by the documented count, and never
   before that many failures of any kind in a row. In between it trips earlier than documented.
6. The same section has no way out of an open period but the cooldown and a probe; a call
   admitted before the trip that succeeds late closes the breaker at once
   (bedrock_client.py:143). `OpenEnds` holds either way, and `OpenEndsTwoWays` (section 4) names
   both ways.
7. The recovery of an on-demand task is to keep its document from being "stuck in
   `queued`/`processing` forever" (ingestion_service.py:154); what fails before the `try`
   (128-136) or in the recovery itself leaves it so while process and database live.
   `UploadSettles` excuses those tasks and no others (`LostOutsideTry`).
8. `docs/02-functional-requirements.md` and `docs/IMPLEMENTATION_PLAN.md` have the batch complete
   for all other sources when one fails; a worker whose graph or COMMIT raises fails again while
   it logs that (run_initial_ingestion.py:165), and a run by hand ends with it, its other workers
   cancelled. `BatchEnds` excuses those, and shows that the scheduler's go on.
9. `docs/22-error-handling.md` section 6 says short-circuited turns "never call Bedrock at all";
   the image of a question is described before the question is classified
   (preprocess_input.py:49). `TiersCallInOrder` says what is kept: that call is the only one,
   and a question without an image is answered without any.

**Noted while modelling**; the models do what the code does here, too:

- A document whose COMMIT was not answered is marked failed and stays searchable
  (ingestion_service.py:151-169); an upload whose COMMIT was not answered stays queued for good.
- The budget check runs at the top of the hour and sums the day so far, so what is spent in a
  day's last hour is never checked (cost_budget_service.py:42).
- The request counter is described as "Chat turns completed" (utils/metrics.py:33) but moves
  before the commit; `CountersLeadRows` says by what it runs ahead.
- `short_circuited_pct` divides counts of two snapshots and may exceed 100 when a turn
  commits in between; `top_questions` is asked without an end of its period
  (analytics_service.py:59).
- A source may be marked with the hash of content that is nowhere searchable, if two workers
  overlap on it, by a run by hand or by what a raising worker left behind, and two deletions
  fall around them: one reads a source that a deletion has reset and ingests the content its
  hash still names; meanwhile the other ingests new content and writes its hash, and that
  document is deleted; the first completes and marks the source, but the ORM leaves out of its
  UPDATE the hash that equals the one it read. Later runs skip the source until its content
  changes again. `IngestedIsSearchable` says what is kept: the marked content is searchable
  unless workers overlapped on the source and a deletion reset it, and some document of the
  source is even then.
- `config.py` accepts a retention of 0 days, which empties the tables, a negative overlap,
  which leaves gaps between windows, and a batch size of 0, which ends no batch.

**Mutants.** Each property of a passing run has a mutated definition (a comment in the
module says what is mutated) under which the same run violates it.

## 4. What is proved

All theorems hold for any constants that satisfy the named ASSUMEs: that counts, sizes and
times are natural numbers, that the model's NULLs are not real values, that an overlap is less
than its window (which `config.py` enforces), that a bucket's TTL covers its refill, and that
requests of chat turns, runs and sources of the startup ingestion and turns of `Metering` are
finitely many. The threshold, the permits, the batch size and the retention are assumed to be
at least one: `config.py` does not enforce that, and section 3 notes what other values do to
batches and retention. The finite bounds that are the models' own are constants too, so the
theorems hold whatever they are. `AdmittedHavePaid` and `OnlyOvertakenGiveUp` also need the
limiter's requests to be finitely many, since they count them. The startup ingestion has at
least one source and one run.

- `CircuitBreakerProofs`: `TypeCorrect`, `TripsAtThreshold`, `AssertionHolds`,
  `HalfOpenOwed`. The inductive invariant adds to the checked ones that, closed, the count
  equals the failures recorded in a row and is below the threshold, that otherwise that
  streak is at the threshold (`CountInv`), and that a call in backoff has a retry left
  (`RetryInv`). `TripsAtThreshold` follows from `CountInv` of every step: a failure seen in
  HALF_OPEN is not counted by the field, so it is only of a closed breaker that count and
  streak are the same. Of the other steps: `CallsAreBounded` (each step of a call in flight
  decreases the steps it has left), `ProbesAlone` (a breaker that is not closed admits one
  call, its probe), `OpenIsBounded` (while it is open nothing is admitted, and its cooldown
  starts anew only by a failure of a call in flight, of which there are ever fewer) and
  `OpenEndsTwoWays`.
- `OnDemandProofs`: `Consistent`, of the abstract `KnowledgeBase`: keys are unique,
  superseding rows are newer, completed documents have chunks and any other document
  that has them is in doubt; the strengthening is that no row is younger than the clock.
  `Implements` proves every step of `OnDemandIngestion` a step of
  `KnowledgeBase` or a stutter. Its invariant says what every task and deletion relies on
  about the rows between its own steps: a task that has not ended finds its document
  queued or deleted; between `store_vectors` and the commit it is certainly there, thanks
  to the lock, and whatever a recovery finds completed is in doubt; a lock is held by one
  deletion. `KeysUnique`, `SupersessionSound` and
  `SearchSound` then follow from `Consistent`; `TypeCorrect`, `JobsAgree` and
  `DeletionSound` from the invariant itself. `QueuedOwed` and `TasksRunOnce`: a queued document
  has a task, or its recovery, still to settle it, unless that was lost, and tasks only go
  forward. `LostOutsideTry`: what is lost while process and database live failed before the
  task's `try` or in its recovery; an exception inside the `try` is always taken up by one.
  `DeadlocksAreOfTwo`: by the order of creation, deletions never wait for each other in a
  circle, so what PostgreSQL's deadlock detector can meet is a task and the deletion of its
  document.
- `RateLimiterProofs`: `Implements`, `TypeCorrect`, `AdmissionIsBounded`,
  `AdmittedHavePaid`. The invariant behind `Implements`: a request that has read and is not
  dirty holds exactly what the hash holds, and its clock reading is not in the future. The
  admission bound is an accounting invariant of `TokenBucket`: spent plus what is left
  never exceeds the capacity plus the elapsed time plus `regress`. `AdmittedHavePaid` counts
  the unanswered payments besides the admitted requests. `OnlyOvertakenGiveUp`, of behaviours
  without lost connections and expiry: each conflict of a request, the pending one included,
  is the update of another one that was answered by it, so `MaxAttempts` conflicts take
  `MaxAttempts` other requests.
- `StartupProofs`: `TypeCorrect`, `Implements`, `NeedlessNever` and `MarkedIsSearchable`, for
  any number of runs under way, scheduled, left behind or by hand. Behind `Implements`: every
  row belongs to a source and has chunks exactly when it is completed (`RowInv`), a deletion
  knows the source of what it found (`DeletionInv`), a run that is over has no worker
  (`RunInv`), and the workers under way leave `MaxDocs` room for their rows (`RoomInv`). Of a
  source not `overlapped`, one worker at most is at work (`AloneInv`), and what that one read
  before the download still holds when it writes, except that a deletion may have reset it
  (`ReadInv`); so the ingestions done and the one under way are paid for by the first, by
  changes or by resets (`PaidInv`). Of every source: a hash once written is never NULL again,
  so whoever marks it has a document of it (`KnownInv`), and nothing but a reset takes the
  document of the source's hash away (`HashInv`). `BatchesGoOn`: workers only go forward, and
  no source is worked on twice in a run.
- `ChatTurnProofs`: `TypeCorrect`, `TerminalOnce`, `Implements`, `ShortCircuits`,
  `TokensArriveInOrder`, `CountIsRight`, `DrainIsClean`. `Implements` proves every step of
  `ChatTurn` a step of `Conversation` or a stutter. Its invariant `IInv` adds to the type
  invariant that a turn comes to its COMMIT with its reply and its metric, has stored nothing
  before it and both after it, unless the COMMIT failed (`RowsInv`), and that by then its queue
  is empty (`QuietInv`).
  `SentInv` (a terminal event was sent only by a turn that is over), `CallInv` (what each node
  may have called before it), `OrderInv` (while the graph runs, the tokens sent and then those
  queued are the tokens generated) and `WaitInv` (the shutdown's wait and the count of streams)
  are built on it, one per theorem. `StreamsGoOn`: a step of a turn takes it a stage further
  or leaves it fewer tokens to make or relay; only keepalives leave it where it is.
- `ChatHistoryProofs`: `TypeCorrect`, `SummaryHasReply`, `ForgetsOnlyOverlaps`. The last needs
  to know, of every turn between its statements, what it may still miss: one that has read the
  session can list every message its summary does not tell of (`ReadInv`), one that is to write
  a summary tells of every message (`DraftInv`), each but for those the property excuses; a turn
  alone under way began after the summary was made (`BeganInv`), and turns under way together
  are remembered as overlapping (`OverlapInv`). `SummaryHasReply` needs that no draft tells of
  an uncommitted reply (`ReplyInv`) and who holds the row's lock (`LockInv`). `LockEndsWithTurn`:
  the lock is taken free and given back by the next step of its holder; `SummariesAreSerial`:
  the summary changes only with the reply of that holder.
- `IngestionPipelineProofs`: `TypeCorrect`, `ConceptsStayWhole`, `NothingRedundant`,
  `StoresWhole`, for every size, overlap, batch size and document. None of the properties is
  inductive: the invariant adds that every concept that ends before the next window begins or
  lies in a page already split is held (`Progress`), that chunks are in the order of the text and
  each but a page's last is a full window (`InOrder`, `Full`), what each node finds done
  (`Stages`), and that the embeddings are those of the chunks before the batch or fewer
  (`Aligned`). `EveryStepAdvances`: node, page, window and batch, compared in that order, only
  grow, up to the last ones; an overlap as large as the window, which the settings refuse,
  would break this.
- `MeteringProofs`: `TypeCorrect`, `CountersAhead`, `AlertTrue`, `ReportConsistent`. The sums
  of the module are the library's folds over a set, in the order of a CHOOSE. Their laws come
  from one lemma, `SumIsSize`: the sum of `f` over `S` is the number of pairs `<<x, i>>` with
  `i` in `1..f[x]`; the set of subsets where it were not would have a least member. From there
  on they are facts about cardinalities. `CountersAhead` and `AlertTrue` rest on what the types
  do not say: a turn that can still commit is of the process that runs, and no row is kept in
  the future (`TurnInv`); a purge takes nothing of the day a running check sums, for the
  retention is at least one day and a check at most one hour behind the clock (`PurgeInv`).
  `ReportConsistent` relates each answer given so far to what the same statement would find
  now, with `<=` while nothing was purged and `=` while nothing changed (`ReportInv`).

**The halves of liveness that need no fairness.** Each of the seven properties below says that
something ends, and rests on a measure and on fairness. The measure is proved:

| checked under fairness | proved of every step |
|---|---|
| `CallsEnd` | `CallsAreBounded` |
| `OpenEnds` | `OpenIsBounded`, `OpenEndsTwoWays` |
| `UploadSettles` | `QueuedOwed`, `TasksRunOnce`, `LostOutsideTry` |
| `BatchEnds` | `BatchesGoOn` |
| `StreamsEnd` | `StreamsGoOn` |
| `LockReleased` | `LockEndsWithTurn` |
| `PipelineEnds` | `EveryStepAdvances` |

So no call, task, batch, stream or pipeline can go round for ever, whatever the constants are.
That a next step is always possible, and is taken, is what the runs show.

**Proved only.** The theorems of this table, `AssertionHolds`, `ProbesAlone`, `KeysUnique`,
`SupersessionSound`, `SearchSound`, `Consistent`, `DeadlocksAreOfTwo`, `OnlyOvertakenGiveUp`
and `SummariesAreSerial` are no properties of a run of their own; the
runs check what follows from some of them, or what they follow from.

**Only model-checked:** the seven properties of the table, since liveness under fairness is out
of the prover's reach. Every invariant and every other action property that a passing run
checks is also a theorem.

## 5. What is not modelled

- Content: prompts, the classifiers' patterns, what retrieval ranks first, metadata,
  request and response bodies, the wording of errors and logs, pypdf and the tokenizer.
- Validation of requests, uploads and configuration, which happens before any state changes:
  the bounds it enforces are the models' ASSUMEs and a request that fails it is rejected.
- Health endpoints, the operator's lists, top questions, latency percentiles and trending
  questions, which only read and relate to no other number; the Prometheus counters other than
  those of requests and cost, which nothing reads back.
- The pool of database connections, which is SQLAlchemy's, and the cron triggers, which are
  APScheduler's. Clock skew between replicas or between process and database.
- Schemas and migrations: the constraints the models rely on are mapped at the ORM models.

`expire_on_commit=False` (`db.py`) is why a row object read before a commit is modelled as
keeping the values it was read with. It says nothing of a rollback, which expires every object
of its session: in the startup job's handlers the next attribute that is read raises (`Crash`).

## 6. Plan

Done, in this order: breaker, knowledge base and on-demand ingestion, rate limiter, startup
ingestion, chat turn with the drain, history, and proofs of the first three; then the
ingestion pipeline and its proofs, metering with the cost budget, retention and the report,
lost COMMITs in ingestion and lost connections in the rate limiter, `Conversation` with the
proof that `ChatTurn` implements it, and the proofs of `StartupIngestion` and `ChatHistory`;
last the proofs of `Metering`, the step theorems of section 4, and the workers that a raising
one leaves behind in the startup ingestion. What would come next:

1. The breaker composed with a retrying graph, so that a turn's outcome depends on it.
2. A bound on the needless ingestions of sources whose workers overlap, which needs an account of
   what each run has read: a stale one that completes late costs the others another ingestion.
3. The pipeline inside the on-demand task, so that a crash in the middle of a batch and the
   recovery of its document are one behaviour.
