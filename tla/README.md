# Verification of the payment webhook service

TLA+ models of the payment webhook service in `src/src`, checked with TLC on small
instances and proved with TLAPS for all instances where the prover reaches.

## 1. Inventory

The service stores payment webhooks of a provider in PostgreSQL and applies them to
orders. The API process, any number of worker processes and operators' requests share
nothing but the database; everything they do is a transaction on it.

| Part | State it keeps | Operations | What makes it hard |
|---|---|---|---|
| Webhook ingestion `webhooks/` | `webhook_events` (inbox and queue), `webhook_deliveries` | one upsert statement per delivery | redelivery, conflicting bodies, disorder, lost responses |
| Event workers `worker/worker.repository.ts` | open transaction; `orders`, `order_status_history`, `webhook_events` | claim, lock order, decide, commit; retry; dead letter | two workers, failure of one statement, crash at any point |
| Retry policy `worker/retry-policy.ts` | none (pure) | evaluate | the attempt at the limit, jitter |
| Event processor `worker/payment-event-processor.ts` | none (pure) | process | stale sequences, unknown types |
| Dead letter replay `admin/dlq.repository.ts` | open transaction; `webhook_events` | replay | races with workers and other replays |
| Reconciliation `admin/reconciliation.*` | open transaction, advisory lock; `orders`, history, `reconciliation_*` | fetch, begin, visit, commit | old snapshot, many locks held long, failure half way |
| Provider client `provider/`, provider stub `provider-simulator/server.js` | an exchange in progress | fetchSnapshot | abort timer, stalled body, malformed payload |
| API process: controllers, guard, DTO, pool | requests in progress, clients of the pool and its queue | receive, replay, reconcile, list, query | killed between statement and answer; one pool for all |
| Worker loop `worker/worker-loop.service.ts`, pool `database/database.module.ts` | `shutdownRequested`, `activePromise`, pending timers and callbacks; the pool | poll, back off, shut down | shutdown racing the loop, two shutdown hooks |
| Readers: order query `orders/`, dead letter list `admin/dlq.*`, metrics, health | none | SELECT | statements of one answer, or pages of one list, see different commits; counters counted from rows that change |
| Migration runner `database/migration-runner.ts` | `schema_migrations` | run | two runners, failure inside a file, restart |
| Simulator `provider-simulator/` | deliveries sent and answered, verdict per order | generate, send, poll, report | late answers, polling while workers go on |
| Chaos coordinator `provider-simulator/docker-chaos.js` | its progress | kill, confirm, restart, wait | runs beside the burst, docker fails part-way |
| Verification scripts `scripts/` | the step they are at, what has failed | requests, polls, SQL, assertions | assert on a service whose workers run, fail and crash beside them |
| Logging, configuration | none that a decision depends on | | |

Interactions. Ingestion hands events to workers through the rows of `webhook_events`;
workers exclude each other with `FOR UPDATE SKIP LOCKED` on the event and `FOR UPDATE` on
the order; a replay waits for the event row and makes it `PENDING` again; a reconciliation
takes one advisory lock and then the orders of its snapshot one after another. No process
sends another a message.

What each part has to guarantee:

* ingestion: every accepted delivery is counted and logged once, the first body under an
  `event_id` is the one that counts, and a redelivery changes nothing else;
* workers: the effect of an event happens exactly once, on the state of the order at that
  moment, or not at all; no attempt beyond the budget; every queued event settles;
* processor: the newest sequence wins in whatever order events arrive;
* replay: only a dead letter is revived, with a clean record, and its effect is still
  exactly once;
* reconciliation: all or nothing, never back to an older sequence, explained by its report;
* worker loop: it never stops by itself; a shutdown begins no transaction, abandons none
  and ends;
* migrations: files in order, each by one runner, and success means a complete schema;
* API process: 202 only for what is stored; every request ends, however small the pool and
  however silent the provider; no effect but those of the service;
* order query: one answer is true of one moment; dead letter list: a walk through the pages
  misses a letter only if a replay moved the list;
* metrics: what is declared a counter never falls;
* simulator: it is the acceptance test of the service, so a PASS must prove convergence and
  a FAIL must have a reason outside the logic of both; and the run ends, or the one wait that
  has no limit is to blame;
* verification scripts: an assertion fails only for a cause outside the service's logic;
* together: no deadlock, no lock that outlives its transaction, and an audit trail that
  explains every order.

`PROJECT.json` lists the hazards of the code line by line with the property that covers
each.

## 2. Modules

| Module | Models | Notes |
|---|---|---|
| `RetryPolicy` | `retry-policy.ts` | delays in ticks; `Delays` is every value the random number can give |
| `PaymentEventProcessor` | `payment-event-processor.ts` and the `COALESCE` of the update | pure operators |
| `Tables` | the schema, row locks, COMMIT and ROLLBACK, the clock | the shared variables |
| `Ingestion` | `UPSERT_AND_DELIVER_SQL` and the decision before it | one action, one statement |
| `Worker` | `WorkerRepository.processOne` | actions named after the phases of the transaction |
| `DlqReplay` | `DlqRepository.replay` | select, commit, refuse, abort |
| `Reconciliation` | `ReconciliationService.reconcile`, `executeReconciliation` | fetch, begin, visit, commit, abort |
| `PaymentService` | all of them over one database | `Spec` for safety, `FairSpec` for progress |
| `Invariants` | | every property, with the code it is about |
| `Ledger` | | the abstract specification: each transaction one step, no locks, claims, retries, clock |
| `LedgerRefinement` | | the refinement mapping and `ImplementsLedger` |
| `LockProofs`, `EventProofs`, `HistoryProofs`, `RefinementProofs` | | theorems about `PaymentService`: types and locks; events; orders, runs, agreement and metrics; the ledger, `ApiProcess` and `WorkerLoop` |
| `Metrics` | `metrics.repository.ts` over `PaymentService` | the counts as state functions |
| `OrderQueries` | `orders.repository.ts`, the times of transactions | a client beside `PaymentService` |
| `DlqListing` | `DlqController.list`, `DlqRepository.list` | a client beside `PaymentService` |
| `ProviderClient` | `provider-client.ts`, `server.js` | one exchange per reconciliation |
| `ApiProcess` | controllers, guard, pool, kill and restart of the API | composes `ProviderClient` with the handlers of `PaymentService` |
| `WorkerLoop` | `worker-loop.service.ts`, the hook of `database.module.ts` | `PaymentService` with a process around each worker; what a callback does up to its next `await` is one step |
| `MigrationRunner` | `migration-runner.ts` | stands alone |
| `ReadProofs`, `MigrationProofs`, `SimulationProofs`, `ScriptProofs` | | theorems about the readers, `MigrationRunner`, `Simulation` and the verification scripts |
| `Generator` | `generator.js` | pure operators; random choices are inputs |
| `Convergence` | `orders.repository.ts` `findById`, `convergence.js` | what a reader sees and what the simulator concludes |
| `ChaosCoordinator` | `docker-chaos.js` | on the processes of `Worker` |
| `Simulation` | `simulator.js` | composes the three above with `Ingestion` and `Worker` |
| `ScriptRunner` | what a step of any `scripts/verify-*.ts` does | beside `PaymentService` and `Metrics` |
| `VerificationScripts` | the five scripts | sequences of steps, data for `ScriptRunner` |
| `MC*` | | instances for TLC |

`PaymentService` is the centre. There a worker polls whenever it is idle, may be killed at
any time, and a request takes a connection when it wants one. Three modules replace a part
of it by the process that the code has, and each is shown to implement it: `WorkerLoop` puts
the polling loop and the shutdown around every worker (`LoopsAreTheWorkers`), `ApiProcess` the
pool, the guard and the provider around the requests (`ImplementsService`), and `Simulation`
the simulator and docker around ingestion and workers (`SimulatorRunsTheService`). What is
true of every behaviour of the service is therefore true of all three.

### State and how it corresponds to the code

* `events[e]` is the row of `webhook_events` with that `event_id` (`status = "ABSENT"`: no
  row). `id`, `status`, `reason`, `attempts`, `next`, `count`, `replays` are `id`,
  `processing_status`, `outcome_reason`, `attempt_count`, `next_attempt_at`,
  `delivery_count`, `replay_count`; `body` stands for the payload with the columns copied
  from it, and equality of bodies for equality of `payload_hash`. `next` counts the ticks
  still to wait, so the row is due at 0.
* `deliveries[e][r]` counts the rows of `webhook_deliveries` with that result. Nothing in
  the service reads them back one by one.
* `orders[o]`, `history[o]`, `runs` are the tables `orders`, `order_status_history` and
  `reconciliation_runs` with its details. The field `amount` stands for the pair amount
  and currency (section 7).
* `eventLock`, `orderLock`, `advisoryLock` name the transaction that holds the lock.
* `worker[w]`, `replay[r]`, `recon[r]` hold the program counter of one process and what
  its open transaction has read. What it has written is determined by what it has read
  and reaches the tables in its commit action, because at READ COMMITTED nobody can see
  it earlier.

* `loop[w].run` says what the loop of a process waits for: a transaction (`ticking`), the
  callback of a settled one, a timer, or nothing. `shutdownRequested` is the field of that
  name, `ending` that `pool.end()` was called, `hook`, `awaited` and `done` the progress of
  the framework through the two shutdown hooks, whose order it chooses.
* `runner[r]` is a migration runner: the file it is at and `appliedSet`, which it never
  reads again. `schema` and `versions` are the committed objects and rows, `ddlLock[f]` the
  runner whose uncommitted objects of file `f` others wait for.
* `reader[q]` is an order query: the snapshot its transaction has taken and the answer it has
  put together. `shown[o]` lists the history of an order by `changed_at`. Of the times only
  the order matters: `open` lists the open transactions by their beginning
  (a reconciliation begins its own before it waits for the advisory lock, `BeginWaiting`; a
  worker with its claim, which waits for nobody), `overtaken` how many rows younger
  transactions have committed before an older one.
* `letters` is the list of dead letters by `processed_at`; a worker that commits late enters
  its letter anywhere. `walk[q]` is a client's walk: its page, what it has `seen`, and what it
  has to see (`steady`: dead all the time).
* `exchange[r]` is one call of `fetchSnapshot`: asked, headers there and the timer cleared,
  body there. `delivery[d]` and `target[r]` are the webhook and replay requests in progress,
  `clients` the requests that hold a client of the pool, `waiting` its queue; `acked[e]`
  counts answers 202. A request whose process was killed is `orphan` until PostgreSQL ends
  its session.
* `script`, `step`, `done` are the script that is run, its step and the answered ones of that
  step's parallel requests; `failed` that an assertion failed; `base` the metrics first read,
  `file` the provider's orders the script has written, `causes` what went wrong outside the
  service, `exit` the exit code.
* `options` is the command line of a simulator run, `plan` is `eventsToSend`, `sent` the pool's `idx`, `reply[i]` what the service answered to
  delivery `i` and `answer[i]` how the simulator classified it: they differ when a sender
  gave up before the answer came, or got only the headers of it (`BROKEN`). `verdict[o]` is the result of `checkOrderConvergence` on
  the final response of an order.

### Granularity

One action is one statement, or several that no other transaction can tell apart: the
statements between a claim and the order lock, and those between the order lock and the
commit, touch only rows the transaction holds. A lock that is not free is a guard that is
false. `INSERT .. ON CONFLICT DO NOTHING` of an order waits for an uncommitted insert of
the same order, so `orderLock` covers it.

### Failure

`BusinessError` (a statement of the business block fails), `AbortTransaction` (anything
else fails, the connection included), `Crash` and `Restart` may happen at every point of a
worker's transaction, `ReplayAbort` and `AbortRun` at every point of the requests'. A crash
after COMMIT is a crash in `idle`; a COMMIT that takes effect but whose reply is lost throws out
of `processOne`, which only the loop notices (`TickThrows` of `WorkerLoop`). A response that is lost, or a 503, makes the provider
deliver again, which is another `Ingest` of the same body.

## 3. Runs

| Run | Instance | Question |
|---|---|---|
| `workers` | 2 workers, 3 events (one with two conflicting bodies for different orders, one with an inadmissible type), 2 orders, 2 deliveries each, 2 attempts | is the effect exactly once and in order under redelivery, disorder, retry and crash |
| `deadletters` | 2 replay requests, 2 workers, 2 events, 2 replays each; 1 client with pages of one letter | what replays may do to dead letters and how they race; what a walk through the list shows |
| `reconcile` | 2 reconciliations with crossing orders and snapshots of different age, 1 worker, 1 event on either of the 2 orders; 1 order query | deadlock, staleness, all or nothing; is an answer true of one moment |
| `ledger` | 2 workers of which one stays up, 1 replay, 1 reconciliation, 2 events (one with two conflicting bodies), 2 orders | does the whole service implement the abstract ledger, and does every queued event settle |
| `agreement` | 2 workers, 2 events of one order, the newer without an amount | expected violation, see section 6 |
| `chronology` | as `reconcile`, with 2 workers and 1 reconciliation on one order | expected violation, see section 6 |
| `migration` | 3 runners, of which one is started again, 4 files, the last with `IF NOT EXISTS` | order, conflicts, failure, completion |
| `loop` | 2 worker processes, 2 events of one order, no replays or reconciliations | are processes that loop, fail, shut down and restart the workers of the service; what a shutdown leaves |
| `simulation` | 4 command lines: 1 event and two copies of it in order, 2 events in any order, 1 event with a duplicate and a forged delivery, 1 with a forged and a stale one; 2 senders, 1 worker killed at the second response | what PASS and FAIL mean, and does a run end |
| `api` | 2 webhook requests, 1 replay, 1 reconciliation, 1 worker, a pool of one client, six forms of the provider's file | acknowledgement, the pool, the provider, kill and restart |
| `overflow` | 2 webhook requests with a sequence that is too large | expected violation, see section 6 |
| `scripts` | the five scripts; 2 workers beside all but the one that wants them stopped | does an assertion ever fail by chance |

Bounds. `MaxDeliveries`, `MaxReplays` and `MaxRuns` bound how often the environment acts on
one event; nothing depends on more than the difference between the first and a later
delivery, between no replay, one and another, and between a run and the one before it.
Two attempts reach both branches of the retry policy and the boundary between them; in
`workers` delays reach 2 ticks, so a retry can become due before or after anything else. Two workers
and two requests of a kind are enough for every pairwise race, and each run with two
reconciliations has two orders in opposite directions, the least that could deadlock; one
event, ahead of one snapshot or level with both, is enough to come before, between and after them.
Three events on one order give every arrival order of an older, a newer and a newest
sequence. In `loop` one delivery of each event and two attempts are enough: a retry is
one more transaction to the loop, and a request to the API is one more transaction that may
hold a row. Three migration runners allow two that have read the same
versions and a third that has not; four files are those of the repository. The four command
lines of `simulation` have every pair of kinds of deliveries on one event; the kill at the
second of two or three responses leaves deliveries before, during and after it.

In `api` one client is the smallest pool and the one on which a request could starve
another; `MaxInteger` 2 makes 3 the sequence that does not fit; two deliveries leave one to
be repeated. `AskedOrders` is the order that the client queries, `AskedLimits` a page of one
letter, so that each letter is a page, and one beyond `MaxLimit`, which is refused. In
`scripts` the numbers of requests that differ only in their number are reduced:
`HotKeyRequests` (3 for 100), `DisjointOrders` (3 for 5), `UniqueDeliveries` (4 for 800),
`Concurrency` (3 for 100). The scripts are run one at a time on a service that nobody
else uses, as they say.

Symmetry is used for workers, for replay requests and for reconciliations, in runs without
liveness properties, and no property names one of them. Event identifiers are not symmetric,
since their bodies differ.

Only `simulation` and `scripts` switch deadlock checking off, because a simulator run ends
with its report and a script with its exit code. Everywhere else a process can always be
killed or started again, so no state is without a step. That processes do not wait for each other in a circle is therefore a
property of its own, `NoWaitCycle`, over every set of processes. The violating runs stop at
their counterexample.

### What the properties say

* Locks and reads: `ReadsAreCurrent` (what a transaction decides on is still true when it
  commits: the claimed event, the locked order, the row a replay has read, the orders a
  reconciliation has compared), `NoOrphanLocks`, `NoWaitCycle`.
* Effect: `ExactlyOnce`, `AuditTrail`, `NothingNewerLost`, `NoUnknownType`,
  `SequenceNeverDecreases`, `OutcomesAreFinal`, `RetryBudget`, `StatusIndependentOfWorkers`.
  `SecondDefenceIdle` (the unique index of migration 002 never has to refuse a row) is
  proved and in no run, because it follows from `ExactlyOnce` and `ReadsAreCurrent`.
* Deliveries: `DeliveriesAccounted`.
* Reconciliation: `RunsExplainRepairs`; `LastRunWins` (an order is never behind what the last
  run over it was told, and at equal sequences that run has decided it, even if its
  snapshot was fetched first); `RunsAreIdempotent` (a run that is told of an order what the
  last run over it was told repairs nothing there).
* Implementation: `ImplementsLedger`, `ImplementsService`, `LoopsAreTheWorkers`.
* Progress: `EveryEventSettles`, `NoEndlessWait`.
* Readers: `AnswersAreCoherent` (an order is in the state its history leads to and an event
  is shown as decided exactly if its row is), `WalksMissNothing`; `CountersNeverDecrease`,
  checked where outcomes could be taken back.
* API: `AcknowledgedIsStored`, `RequestsAnswered`, `ReconcileAnswered`. The last says what
  holds: headers are waited for no longer than the abort timer, and with the snapshot there
  a run ends. Between the two a provider may stall in the body for ever, and the code has no
  limit for that; `RequestsAnswered` says that nobody else waits for it.
* Worker process: `StoppedIsQuiet`, `ClosedPoolIsIdle`, `GracefulExit`, `LoopLives`,
  `ShutdownEnds`.
* Migrations: `FilesInOrder`, `OneCreator`, `SuccessMeansComplete`, `SchemaCompletes`.
* Simulator: `PassMeansConverged`; `FailureHasReason` (the reasons are a failed request or
  docker command, a delivery count never reached, the deadline, a dead letter, and a base event
  that was more than five minutes old when it was served and was ignored); `SimulationEnds`.
* Verification scripts: `FailureHasCause`. The causes are a refused request, a deadline, an
  unreachable service, an event of the script that was given up after its attempts, and one
  that the scripts bring about themselves: the second replay of
  `verify-retries-dlq.ts` 193 expects the event not to be dead, and the workers may have
  given it up again by then ("died again").

In `workers` and `agreement` no reconciliation takes part: a reconciliation may bring an
order past queued events, so the state of an order then depends on when it ran.

## 4. Fairness

`FairSpec` assumes of a worker that it claims and gets its locks if they become available
again and again (strong fairness: its polls repeat for ever and PostgreSQL grants row locks
in the order of the requests, while SKIP LOCKED passes over a row that happens to be
locked at the moment of a poll), and that it finishes a transaction it can finish (weak
fairness: nothing in the code waits there). Of the workers in `Survivors` it assumes that
they are started again after a crash (docker-compose.yml sets no restart policy, so by whoever
operates them, or by the chaos coordinator with `docker compose up`) and that crashes and failed
transactions cease at some time; without that no event need ever settle, and the code
promises nothing else. Requests in progress end, and time passes. It assumes nothing of the
provider, of operators, of statement errors in the business block - they may fail every
attempt, and then the event is a dead letter - or of the other workers, which may die in
any state and never return.

`FairProcessesSpec` assumes of a worker process that its event loop runs due callbacks and
timers, that a transaction that can end ends and a lock that becomes free again and again is
granted, that the framework goes on to the next hook, and that requests in progress end
(`RequestFairness`, for a tick may wait for the order of a reconciliation). It assumes nothing of signals,
kills, restarts, failures or deliveries, so `LoopLives` and `ShutdownEnds` hold in spite of
all of them.

`FairMigrationSpec` assumes that a live runner goes on, that the runners in `Retried` are
started again after a failure (by whoever starts the services, since they wait for a
migration that succeeded) and that kills and failing statements cease some time.

`FairApiSpec` assumes that the API process and PostgreSQL go on with what is possible, that a
statement that waits for a lock gets it if it becomes free again and again, and that the
abort timer fires. It assumes nothing of the provider, whose headers and body may stay away,
and no failure or kill is ever necessary. `RetryingSpec` adds the provider of DECISIONS.md
70-73, which repeats what was not accepted, and that failures of the database and kills end;
without both no delivery need ever be stored.

`FairSimulationSpec` assumes only what the simulator and the coordinator bound themselves:
every request has a timeout, the polling a deadline, the wait for containers 30 seconds, and
their own steps are taken. Nothing is assumed of the service. Of docker it is assumed that a
command returns or fails, for the coordinator sets no limit on it (`docker-chaos.js` 30).
`SimulationEnds` has one exception, which it states: a response that breaks off after its headers.
It raises neither `end` nor an error anybody listens to (`simulator.js` 98-114), so its
promise never settles. `BrokenOff` counts such responses in the burst, and the phase `stuck`
is the same while polling; no report is printed then, and with nothing left to wait for
the process may end without one.

## 5. Proofs

For every value of the constants that satisfies the named assumptions (`TablesAssumption`,
`RetryAssumption`, `ReconciliationAssumption`, `ProcessesAssumption` and the like: NULL is
no value, bodies are well typed, processes can be told apart, the configuration passed
`workerConfig`). `SnapshotsAssumption` says that `Snapshots` holds every usable snapshot that
one of the provider's files can give (no order twice, values their columns can hold), and
`ValidIsUsable` proves that the client's validation lets no other through;
`HooksAssumption`, that NULL is no shutdown hook; `SimulationAssumption`, that the set of bodies
has room for whatever the generator makes of the command lines, and that NULL is no answer;
`ScriptsAssumption`, that the scripts are the five, and that the provider's bodies and files,
the events and the orders include those they use; `SecondAttemptAssumption`, that an event has
two attempts or more. With `WORKER_MAX_ATTEMPTS` 1, which the configuration admits, scenario D of
`verify-retries-dlq.ts` looks for a retry that cannot come.
TLC evaluates the assumptions
in every run.

| Theorem | Module | Property |
|---|---|---|
| `TypeCorrect` | `LockProofs` | `TypeOK` |
| `DecisionsAreCurrent` | `LockProofs` | `ReadsAreCurrent` |
| `SequencesNeverDecrease` | `LockProofs` | `SequenceNeverDecreases` |
| `LocksEndWithTransactions` | `LockProofs` | `NoOrphanLocks` |
| `NobodyWaitsInCircles` | `LockProofs` | `NoWaitCycle` |
| `EffectIsExactlyOnce` | `EventProofs` | `ExactlyOnce` |
| `IndexIsNeverNeeded` | `EventProofs` | `SecondDefenceIdle` (in no run) |
| `NewestSequenceWins` | `EventProofs` | `NothingNewerLost` |
| `TypesAgree` | `EventProofs` | `NoUnknownType` |
| `RetriesAreBounded` | `EventProofs` | `RetryBudget` |
| `OutcomesStay` | `EventProofs` | `OutcomesAreFinal` |
| `InboxMatchesLog` | `EventProofs` | `DeliveriesAccounted` |
| `OrdersAreExplained` | `HistoryProofs` | `AuditTrail` |
| `RepairsAreReported` | `HistoryProofs` | `RunsExplainRepairs` |
| `LastRunHasLastWord` | `HistoryProofs` | `LastRunWins` |
| `RepeatedRunChangesNothing` | `HistoryProofs` | `RunsAreIdempotent` |
| `WorkersDoNotMatter` | `HistoryProofs` | `StatusIndependentOfWorkers` |
| `ServiceImplementsLedger` | `RefinementProofs` | `ImplementsLedger` |
| `AnswersAreOfOneMoment` | `ReadProofs` | `AnswersAreCoherent` |
| `WalksShowEveryLetter` | `ReadProofs` | `WalksMissNothing` |
| `CountersCountUp` | `HistoryProofs` | `CountersNeverDecrease` |
| `ValidIsUsable` | `RefinementProofs` | of the operators `Valid` and `SnapshotOf` |
| `ApiIsTheService` | `RefinementProofs` | `ImplementsService` |
| `ApiKeepsTheLedger` | `RefinementProofs` | `ImplementsLedger`, of `ApiSpec` |
| `AnswersAreBacked` | `RefinementProofs` | `AcknowledgedIsStored` |
| `ProcessesAreTheService` | `RefinementProofs` | `LoopsAreTheWorkers` |
| `ProcessesKeepTheLedger` | `RefinementProofs` | `ImplementsLedger`, of `ProcessesSpec` |
| `StoppedLoopsAreQuiet` | `RefinementProofs` | `StoppedIsQuiet` |
| `PoolsCloseIdle` | `RefinementProofs` | `ClosedPoolIsIdle` |
| `ExitsAreGraceful` | `RefinementProofs` | `GracefulExit` |
| `MigrationTypeCorrect` | `MigrationProofs` | `MigrationTypeOK` (in no run) |
| `FilesAreInOrder` | `MigrationProofs` | `FilesInOrder` |
| `CreatorsAreUnique` | `MigrationProofs` | `OneCreator` |
| `SuccessIsComplete` | `MigrationProofs` | `SuccessMeansComplete` |
| `PassesAreEarned` | `SimulationProofs` | `PassMeansConverged` |
| `FailuresHaveReasons` | `SimulationProofs` | `FailureHasReason` |
| `SimulatorRunsTheService` | `SimulationProofs` | `Spec`, of `SimulationSpec` without requests |
| `ScriptsFailForACause` | `ScriptProofs` | `FailureHasCause` |

### The service

The argument has layers, each an inductive invariant on top of the one before.

1. `TypeInv` (`LockProofs`): `TypeOK` with `ControlOK`. A commit writes fields of rows its
   process read earlier, so that a process inside a transaction has a stored body is part
   of it.
2. `LockInv` (`LockProofs`): one part per process - the rows it has read are locked by it
   and unchanged. `SparesOthers` says that a step of one process changes only rows that are
   free or its own; `OthersUndisturbed` concludes that it disturbs no other process's part,
   so each action has to be examined for its own process only. The clock is the exception:
   it changes rows that are locked. That it never changes one that was claimed needs
   `QueueOK` and that a claimed row was due. `SequenceNeverDecreases` follows, because
   workers and reconciliations compare with a sequence that is still current.
3. `EffectInv` (`EventProofs`): `ExactlyOnce`, `NothingNewerLost` and the types of stored
   events (`KnownTypes`). Only `CommitResult` decides an event (`Undecisive` for all other
   steps), and by `LockInv` that event was waiting, so it had no row, and has one
   afterwards. The case that needs `LockInv` once more is the replay: the row it read was
   `DLQ`, and still is.
4. `HistoryInv` (`HistoryProofs`): `Explains(history[o], orders[o])`, which is `AuditTrail` for
   one order with one clause more. `AuditTrail` compares the order with the last row that
   had an effect; that the next row cannot break the chain needs that no earlier row is
   newer than the order. Workers and runs both append a row that starts where the order is
   (`AppendExplains`), because they have read it under its lock.

What stands on them:

* The moves of a row. `EventProofs` lists the moves one row of `webhook_events` can make
  (`Moves`: inserted, counted again, a tick closer, settled, rescheduled, given up, revived)
  and shows that every step of the service moves every row in one of these ways. That a
  worker's decision is a move of the committed row, and not of an older copy, is `LockInv`.
  `RetryBudget` is kept by every move, and gives `OutcomesAreFinal`: a settled row has no
  time left to run down, so redelivery is the only other move it can make.
* The delivery log. `Accounted` is `DeliveriesAccounted` for one event, strengthened: an event
  without a row has no delivery, and one that was too old on arrival stays ignored. Each
  delivery adds one to the row and one to the log, and no move of the row by others takes
  it into or out of "too old".
* `LastRunWins`: a run that commits writes the orders as it has compared them, `LockInv`
  says that they are still so, and afterwards only a newer sequence changes one of them.
  `RunsAreIdempotent` is a step of the next run: if it is told the same, the order it reads
  is either as it was told, or further, and neither is a reason for a repair
  (`ToldAgainRepairsNothing`).
* `RunsExplainRepairs`: `Balanced` counts, per order, the rows of reconciliations and the
  reports that name it. A run adds one to both or to neither, and workers' rows are none of
  a reconciliation.
* Agreement. `StatusIndependentOfWorkers` compares a quiescent state with what a recursive
  function computes over the accepted events of an order (`SingleWorkerRow`). Both are shown
  to be led by those events (`Leads`): no event is ahead of the row, and the row has
  the sequence and status of one of them, or the defaults. For the function this goes by a
  smallest set of events that breaks it (`SmallestSubset`, from the well-foundedness of
  strict inclusion), which is also how the function is shown to exist (`ComputationExists`);
  for the service it is `NothingNewerLost` and the invariant `OrdersFollow`. Two rows led by
  the same events agree (`LeadersAgree`). `WorkersDoNotMatter` has two hypotheses, on
  constants: there is no reconciler, and no two of the provider's bodies for one order have the
  same sequence and different events. The run `workers` satisfies both; without the second the
  first of two such events to be committed wins.
* Waiting. `NoOrphanLocks` is inductive with `LockInv`. With it, `AdvisoryOK` (the
  advisory lock belongs to the one reconciliation that runs) and `TodoOK` (what a run still
  has to visit it has not locked, because a snapshot lists no order twice) it gives
  `HoldersGoOn`: whoever is waited for is a worker that waits for nobody, or the
  reconciliation that runs and not the one that waits. `NoWaitCycle` follows, without an order
  on the locks of orders; the advisory lock is what makes it true.
* `RefinementProofs`: every action is mapped to a step of the ledger or to a stutter. Beyond
  `EffectInv` this needs `ProgressOK` (a run that commits has compared exactly the orders
  its snapshot lists) and `MissingOrders` (an order without a row has the column
  defaults, so its amount is NULL and no snapshot agrees with it: a run never leaves an
  empty order behind). `KnownTypes` excludes the third outcome of the processor, the unknown
  type.

### The readers

`ReadProofs` begins with what `InsertAt`, `RemoveAt` and `SubSeq` do to the positions of a
list's elements.

* A query. `CommittedIsCoherent` says that the committed state itself satisfies `Coherent`:
  that is `ExactlyOnce` with `Explains` of the same order, so the first statement of a query
  takes a coherent snapshot. `ReaderOK` says that the answer so far is a part of it. The lines
  are shown in another order than the rows were written; `ShownOK` says that they are the
  same rows, which needs that no transaction has been overtaken by more rows than there are.
* A walk. The invariant is `NothingSkipped`: while no letter has left the list, every letter
  that has been dead since the walk began and stands before its offset has been seen. New
  letters only push others down the list, behind the offset or over it once they were seen.
  A page extends the offset by what it shows, and a page that is not full reaches the end.
* The metrics (in `HistoryProofs`). A count says something of a finite set only, and `EventIds` need not be one:
  `CountedOK` adds to `LockInv` that the stored events and the logged deliveries are finitely
  many. An event counted as out of order is `IGNORED`, so neither a worker nor a replay
  finds it again (`OutOfOrderStays`), and a dead one leaves its status by a replay alone
  (`DeadStay`). The counters therefore count sets that only grow.

### The processes

* `ApiProcess` (in `RefinementProofs`): every step of it is mapped to a step of `PaymentService` or to a
  stutter. That needs little of the process's own state (`ProcessInv`): a request that was
  admitted has a body of the provider, and a response whose headers have come has a
  readable file; what the client's validation lets through is then a snapshot the service
  knows (`ValidIsUsable`). The pool, the guard and the kills only leave steps out.
  `AnswersAreBacked` counts: the answers 202 for an event together with the requests that are
  stored and not yet answered (`StoredFor`) are no more than its deliveries. `AckInv` also
  says that the requests in progress are finitely many, without which there is no counting.
  `ApiKeepsTheLedger` puts the two refinements together.
* `WorkerLoop` (in `RefinementProofs`): every step of a process is a step of its worker or concerns the loop
  alone (`LoopIsWorker`), so the processes implement the service without any invariant, and
  what is proved of the service can be used: types, and that no lock outlives its transaction.
  A transaction is open only during a tick, and each hook sets its flag
  before it waits, so whatever callback or timer is still to come finds it (`ProcessOK`);
  when the loop's hook has returned only a timer can be left, and when the pool's hook has,
  no tick. Either hook may come first.
* `MigrationProofs`: in `MigrationInv` objects and versions are committed together
  (`schema = versions`), a runner has passed only recorded files (`PassedFilesRecorded`), and
  who has recorded a file without committing holds its objects (`CreatorsHoldLocks`). What
  a runner read stays true because no version is ever removed, which is why it may decide
  on a reading that is old.

### The simulator

`SimulationProofs` begins with the plan. `Sound` says what the generator's list has in common
with every permutation of it: base events have distinct numbers, a copy is the copy of a base
event, noise has the order and the sequence of one, and two deliveries with a right signature
and one number have one body; `Counted`, how many there are of each kind.

* Whatever the service stores is therefore expected (`StoredIsExpected`), and the event of
  an open transaction is stored and waits (`HoldsOK`). So when the simulator finds an order
  in its expected state with every event settled, no transaction is open that could change
  the order, and none can begin: a verdict stays true (`SettledStays`), although the next
  order is looked at later. `PassesAreEarned` adds that a finished cycle of the coordinator
  leaves all workers alive (`ChaosOK`).
* `RepliesOK`: a stored event was told `CREATED` (or `IGNORED`, if it was old when it was served)
  exactly once, to its base delivery or to a copy that was faster. `LateOK`: as long as no base
  event is in the inbox as `STALE_TIMESTAMP`, no delivery of one was told `IGNORED`. With such an
  event there is nothing to show, for that is a reason (`ServedTooLate`): `occurred_at` is fixed
  before the burst, whose length nothing bounds. Without a failed request the deliveries told
  so are in bijection with the base events, and the counts come out as planned
  (`AnswersAddUp`). The sequence of an order is that of one of its base events (`SeqOK`), so
  no order gets ahead of its last event, which would be the only other way for an order to
  fail for good. What the report goes by is fixed when the burst is over (`AfterTheBurst`).
  So a run without a reason to fail passes (`OtherwiseItPasses`).

* `SimulatorRunsTheService`: each delivery the service works on is a body of the plan, so an
  ingestion of `PaymentService`; the coordinator's kills and starts are those of its workers.
  The other variables of the service are held by `NoRequests`: while the simulator runs,
  nobody asks for a replay or a reconciliation.

That a finite set of base events has one with the highest sequence (`LastExists`) needs
induction; it is had from the library's theorem that strict inclusion of finite sets is well
founded, which takes no operator as a parameter.

### The verification scripts

`FailureHasCause` is about five programs, and its invariant is therefore about five programs:
`Knows` says what a script knows of the tables at each of its steps as long as `causes` is
empty, whatever workers claim, fail, crash and commit beside it. What is known at a step has to
survive every step of every worker, and has to be enough for the assertion that comes next.
When a cause has come up there is nothing left to show.

* `verify-ingestion.ts` has no workers beside it. Its requests are side by side, so the
  number of answers (`done`) and the delivery count rise together, and only the last answer
  ends the step; that the log has as many rows is `Accounted`.
* `verify-worker.ts` knows what `EffectInv`, `HistoryInv` and `OrdersFollow` say, and of each
  wait that is behind it that its event was settled so (`Past`, `PastStays`). That an event
  is in the state it waited for follows from the order the waits impose: when `a-capture` is
  sent, the refund with the higher sequence has been applied, so it can only be
  ignored (`NothingNewerLost`); the two rows of the history are those of the two events
  (`ExactlyOnce`).
* `verify-retries-dlq.ts` inserts rows whose amount the database refuses. They are waiting or
  dead and never settled (`RetriesKnow`), and what made them dead is the attempt at the
  limit (`Limited`), which is the second or a later one (`RetryThere`); no order and no row of a history appears.
* `verify-observability.ts` has inserted or sent all there is (`ObservedRows`), so the three
  deliveries can be told apart in the log and counted (`CountedOK`). The event with sequence 0
  is stale even if it is processed first, because a missing order starts at 0. This script
  asserts `reason` after a wait that ends when the event is dead, too: here an event given up
  is a failure, and the only one without an entry in `causes`.
* `verify-reconciliation.ts` knows the five orders, their histories and the reports row by row.
  A run that commits has compared exactly the orders of its file (`ProgressOK`), so it leaves
  each of them as the verdict on what was there before says (`CommittedRun`). Of two runs side by side the one that
  commits first repairs, and the other finds the order repaired (`OneRepaired`).

`HotKeyRequests` and `Concurrency` may be any positive number here; the orders of test D and the unique
deliveries of the burst, whose names are listed, are bounded by those lists. The 800 deliveries
of the code differ in their event alone.

### Only model-checked

* Liveness, fairness and whatever needs ENABLED: `EveryEventSettles`, `NoEndlessWait`,
  `RequestsAnswered`, `ReconcileAnswered`, `LoopLives`, `ShutdownEnds`, `SchemaCompletes`,
  `SimulationEnds`.

RECURSIVE operators would cost a module its SMT backend; there are none.

## 6. Findings

`DECISIONS.md` 27-30 says that the final result is identical however many workers take
part. `agreement` shows that the amount need not be: an event without an amount keeps the
stored one (`COALESCE`, `worker.repository.ts` 127), so if the newer event carries none and
is committed first, the older one is `STALE_SEQUENCE` and its amount is never stored, while
a single worker, taking events by id, would have stored it. Status and sequence do agree
(`StatusIndependentOfWorkers`, checked in `workers` and proved as `WorkersDoNotMatter`),
provided no two events of an order share a sequence and no reconciliation intervenes.

`orders.e2e-spec.ts` 146 says that GET /orders/:id returns events in chronological order, and
223 sorts the history by `changed_at`. That column is the start of the writing transaction
(`DEFAULT now()`), and `orders.repository.ts` 89 sorts by it. `chronology` shows a
transaction that begins first, waits for the order and commits last: its change is shown
before the one it follows.

`DECISIONS.md` 70-73 says that a failed insert is answered 503 so that the provider tries
again. The DTO (55) puts no upper bound on `sequence`, and the column is a 32-bit INTEGER.
`overflow` shows that such a delivery is answered 503 for ever, with the database and the
process in order; `provider-client.ts` 157 refuses the same value from the provider's list.

## 7. What is left out, and why

* Bytes: JSON, the HMAC, validation of formats, error texts, logs, correlation ids. A
  signature is one of the cases the guard tells apart, a format is membership in a set; a
  refused request is the absence of a step.
* Timestamps other than `next_attempt_at` and the order of `changed_at` and `processed_at`.
  Staleness on arrival is a free choice at each delivery, which is more than the clock
  allows. In `Simulation` it is free for every delivery but those generated old, which are always stale.
* Amount and currency apart. The `COALESCE` of the update (`worker.repository.ts` 127-128) applies
  to each of them, and the DTO lets a payload carry one without the other; in the model an
  event carries both or neither. The properties that mention the amount are about runs and the
  simulator, whose snapshots and events always carry both, and `ResultIndependentOfWorkers`, which
  is violated as it is.
* The identity column gives ids in the order of the inserts' commits. In PostgreSQL an
  insert may commit after one that drew a larger id; a worker then claims the two in the
  order it sees them, as in the model, and only the order of their later retries differs.
* Integer widths, except for the sequence of a webhook and of a snapshot in `ApiProcess`:
  elsewhere `Nat` stands for the accepted values of `INTEGER`.
* The latency percentiles of the metrics and the latency criteria of the simulator and the
  scripts; the simulator's report and files. `burstContinued` (`docker-chaos.js` 126) is a
  constant of the report and no state of the model.
* What the scripts check of the form of an answer (an array, a number, the absence of a
  column), of `last_error` (`verify-retries-dlq.ts` 124-127 and 301-304), of an `updated_at` that a
  second reconciliation leaves alone (`verify-reconciliation.ts` 243-252; that it repairs nothing
  is in the model), and their cleaning up before a run.
* What becomes of the containers after a failed `docker compose kill`: `executeKill` throws
  before the restart, and the model lets the workers stay dead, as the code does.
* Health (one `SELECT 1`) and structured logging: no state, and no decision depends on them.

## 8. What could follow

1. Amount normalisation, which exists three times (service, simulator, convergence), as an
   operator with the decimal strings as data.
2. `WorkerLoop` and `ApiProcess` together, and the shutdown of the API process. Each of the
   two implements `PaymentService` with the other's part as it is there; their composition
   is beyond the state space of a run.
