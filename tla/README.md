# A verification of Lightdash's backend

This directory holds TLA+ models of Lightdash, TLC configurations that check
them on small instances and TLAPS proofs that hold for every instance. The
reference is the code under `src/`; paths below are relative to
`src/packages/backend/src` unless they say otherwise.

## 1. The system

Lightdash is a BI server. A query compiled from dbt models is submitted over
HTTP, executed on a customer's warehouse (or on DuckDB over files that were
materialized earlier), streamed to object storage as one results file, and
paged from there by the browser. The API servers, the NATS workers and the
scheduler workers are separate processes that share PostgreSQL, object storage
and NATS; nothing else. Every server that boots first brings that PostgreSQL to
the schema of its release, next to others that do the same.

| Component | State | Operations | Talks to |
|---|---|---|---|
| Asynchronous queries: `services/AsyncQueryService`, `models/QueryHistoryModel` | one `query_history` row per query: status, `cache_key`, `results_file_name` | submit, look up the cache, enqueue, claim, execute, fall back, cancel, expire, poll | NATS, results storage, warehouses |
| NATS queue: `clients/NatsClient`, `nats/NatsWorker` | in-memory JetStream streams, one durable consumer each, `max_deliver` 1 | publish, fetch, ack / nak / term | async queries |
| Results storage: `clients/ResultsFileStorageClients` | objects named by `createUniqueResultsFileName` | open an upload, write, close, read | async queries, materializations |
| Results cache: `ee/services/CommercialCacheService` | none of its own: the newest row of a cache key | find | `query_history` |
| Composed DuckDB queries: `services/QuerySourceService`, `AsyncQueryService.executeAsyncDuckdbSourceQuery` | `query_history.duckdb_execution`, the cache key over result files | submit legs and joins in dependency order, wait for references, bind their files, guard, look up, execute | async queries, NATS |
| Pre-aggregates: `ee/services/PreAggregateMaterializationService`, `ee/models/PreAggregateModel` | `pre_aggregate_materializations` rows, at most one active per definition | insert, run the query, poll it, promote, mark failed, read the active one | async queries, scheduler |
| Database migrations: `scripts/migrate`, `database/migrationLease.ts` | `knex_migrations`, its lock, the `migration_lease` row, the run ledger | claim, renew, migrate, retry, park, complete, follow, take over, unlock | PostgreSQL |
| Scheduler: `scheduler/SchedulerWorker`, `SchedulerMigrationQuiesce`, `migrationLeaseProbe` | Graphile runners, the known state of the lease, permits to dequeue | poll the lease, hold jobs back, stop and release them, resume in a ramp, shut down | migrations, every service with a job |
| Sandboxes: `ee/services/SandboxRuntime`, the pipeline of `ee/services/AppGenerateService` | `sandbox_registry` rows, remote sandboxes, stored snapshots; versions of an app and their stages | acquire, resume, suspend, suspend by uuid, destroy; build a version, retry, cancel, delete | providers, S3, the scheduler |
| Secret rotation: `scripts/rotate-lightdash-secret`, `utils/EncryptionUtil` | every encrypted column, the payloads of queued jobs, the keyring of each replica | dry run, re-encrypt page by page, report blockers; encrypt, decrypt with fallbacks | PostgreSQL, every replica |
| Query compilation: `queryCompiler.ts`, `packages/common/src/compiler` | none | metric query to SQL | - |
| Frontend, CLI, warehouse adapters, formula language, REST controllers, CRUD services | request-local or per-row | - | the above |

What is hard is in all rows but the last two, because work is carried by
several processes that only share single `UPDATE` statements:

* **interleavings** - the submission marks a row QUEUED after it published the
  message, so a worker may already have finished it; a cancellation overwrites
  a row whose executor is never told; two refreshes of a pre-aggregate promote
  at the same time;
* **partial failure** - a publish times out although the message is stored; an
  `UPDATE` fails after the database applied it; a clean-up fails after the
  results landed;
* **leases** - a migration holder that stalls does not know that another has
  taken over; a follower decides on two reads, of the files and of the lease; a
  scheduler worker acts on an answer that may be older than a claim, and a
  resume awaits five times while the lease comes and goes;
* **waiting on one another** - a join holds a worker loop while it waits for
  legs that ride on the same stream;
* **three systems, no transaction** - a snapshot in a bucket, a sandbox at a
  provider and a row that names both; ciphertext that replicas with different
  keyrings write while a command re-encrypts it;
* **crashes and loss** - `max_deliver` is 1 and the streams live in memory, so
  a dead worker or a restarted NATS loses a query;
* **stale reads** - the cache looks at the newest row of a key before the new
  row exists, and never at its status.

What would make each component correct:

* *async queries*: a READY row names a complete results file; results are never
  exchanged; a query has one executor; an ended query never runs again; every
  accepted query ends;
* *cache*: a hit hands out complete results of its own key that outlive the hit;
* *composed queries*: legs never wait behind the query that waits for them; what
  a join answers, from its own run or from the cache, was computed from exactly
  the files its references name; its row tells how it ended;
* *pre-aggregates*: one active materialization per definition, whose file
  exists, and which is there whenever a query could be served from it;
* *migrations*: one runner migrates at a time; who reports success has left
  nothing to do; a parked release rests; no follower waits for ever;
* *scheduler*: no job runs while the worker knows of a migration, but for the
  grace period; the runners it had are all back afterwards, and never too many;
  a shutdown ends;
* *sandboxes*: a version that is ready has its own work and that of the versions
  before it; what the registry names exists, and what exists is named,
  but for what a failed call lost, and then only that;
* *secret rotation*: every replica can always decrypt what it will be asked for,
  newer values are never overwritten, and a report without blockers stays true (it
  does of what the command can find: finding 3).

`PROJECT.json` lists the hazards line by line, with the property that covers
each of them or the reason why none does.

## 2. Plan

In this order; all of them are written.

1. `QueryLifecycle`: the abstract promise to whoever polls a query.
2. `AsyncQuery`: submission, queue, workers, cache, fallback, faults;
   implements `QueryLifecycle`. `MCAsyncQuery` instantiates it.
3. `AsyncQueryProofs`: type correctness, the safety invariants, the action
   properties and the refinement, for every instance.
4. `MaterializationSwitch`, `PreAggregate`, `MCPreAggregate`, `PreAggregateProofs`:
   the materialization job and `promoteToActive` statement by statement under
   PostgreSQL's READ COMMITTED row locks; at most one active materialization, its
   file, and the continuity of service, for any number of jobs; `PreAggregate`
   implements `MaterializationSwitch`, an exchange in one step.
5. `MigrationHistory`, `MigrationLease`, `MCMigrationLease`, `MigrationLeaseProofs`:
   the lease, its heartbeat, the Knex lock, retries, parking, followers and `migrate
   unlock`; who holds the lease, and what success means, for any runners and releases;
   `MigrationLease` implements `MigrationHistory`.
6. `PausableWorker`, `SchedulerQuiesce`, `MCSchedulerQuiesce`,
   `SchedulerQuiesceProofs`: one scheduler worker next to the lease of
   `MigrationLease`, of which it only sees whether it is active; its safety proved for
   any number of runners; `SchedulerQuiesce` implements `PausableWorker`, which has
   jobs and modes but no runners, probe or stages of a resume.
7. `PlainStore`, `SecretRotation`, `MCSecretRotation`, `SecretRotationProofs`: the
   command, the replicas and the operator's runbook; everything stays readable, and
   `SecretRotation` implements `PlainStore`, which knows of no secrets.
8. `AppVersions`, `Sandbox`, `MCSandbox`, `SandboxProofs`, `SandboxWorkProofs`: the
   sandbox manager with the registry and both kinds of provider, composed with the
   pipeline that builds the versions of an app; that rows and sandboxes agree and that
   no work is lost, proved; `Sandbox` implements `AppVersions`, which has neither jobs
   nor sandboxes.
9. `DerivedQueries`, `ComposedQueries`, `MCComposedQueries`, `ComposedQueriesProofs`:
   legs and joins over one stream, above `AsyncQuery`, whose submission and dispatch
   of one query they take as a few steps; `ComposedQueries` implements
   `DerivedQueries`, in which a join is answered at once.

The modules are composed by what one sees of another: `PreAggregate` and
`ComposedQueries` see of a query that it lands, fails or is abandoned, as
`QueryLifecycle` says and `AsyncQuery` implements; `SchedulerQuiesce` sees of the
migrations that the lease is claimed and freed.

## 3. What is modelled

### QueryLifecycle

`phase[q]` (none, open, ready, failed), `result[q]` and `stored`. A query is
submitted, lands on a stored file, or fails; failing a landed query is allowed
(cancelling or a failed clean-up do it), landing a failed one is not.

### AsyncQuery

Processes are the worker loops (`Workers`) and, named by the query itself, the
main-loop run a server starts when NATS is off or the query reads an external
source. An action is what one process does between two awaits that matter;
what it awaits from outside (the warehouse, the upload, the publish) is
nondeterministic.

| Variable | In the code |
|---|---|
| `status`, `cacheKey`, `resultsFile`, `older` | `query_history` columns `status`, `cache_key`, `results_file_name` and the order of `created_at` |
| `stored` | result objects whose upload completed |
| `sub`, `hit`, `target` | where `executePreparedAsyncQuery` is, what `findResultsCache` returned, the execution plan |
| `stream` | queries whose JetStream message no consumer has been handed |
| `pc`, `on`, `attempt` | where a process is (`NatsWorker.handleQueryMessage`, `prepareQueuedQueryForExecution`, `runAsyncWarehouseQuery`, `runAsyncPreAggregateQuery`), its query, and whether this is the warehouse retry |

The `UPDATE`s of `QueryHistoryModel` are operators (`UpdateToReady`,
`UpdateStatusToQueued`, ...) with exactly the `WHERE` conditions of the code:
READY needs PENDING or EXECUTING, QUEUED needs PENDING, EXECUTING and EXPIRED
need PENDING or QUEUED, and ERROR and CANCELLED need nothing. The actions
follow the code in order; each is mapped to its lines in `PROJECT.json`.

Abstractions:

* SQL, rows, pages and columns are gone; a results file is the triple of the
  process, the query and the attempt that wrote it, which is as unique as the
  random suffix of `createUniqueResultsFileName`.
* Results storage is configured (without it no page can be read at all).
* Warehouse, pre-aggregate and duckdb streams are one set: a message may be
  handed out at any time after the publish, which includes every order.
* The queue timeout and cache freshness are clocks, so both outcomes are
  always possible. `hit` may always be a miss (stale, `invalidateCache`, off).
* A database call that throws is taken as not applied, except the commit, for
  which both are modelled: for the others the two outcomes end alike.
* Materializations are left to `PreAggregate`: they keep their files elsewhere.
* `Faults` names the failures outside this code an instance admits: `crash`,
  `nats_loss`, `rebuild` (the arguments cannot be rebuilt), `database`,
  `cleanup`. A failing warehouse, upload or publish needs no switch.

### MaterializationSwitch

`phase[j]` of each row (none, pending, active, ended), `stored` and `definition`.
`Promote` makes a pending row active and ends the active one in one step, and needs
its file; otherwise an active row only ends by `Lose`, which a database that loses
answers may do, or with its definition (`Drop`).

### PreAggregate

The jobs (`materializePreAggregate`) of one pre-aggregate definition; a row of
`pre_aggregate_materializations` is named by the job that inserts it.

| Variable | In the code |
|---|---|
| `definition` | the row of `pre_aggregate_definitions`, which a complete compile deletes |
| `status`, `linked` | columns `status` and `query_uuid` (set or not) of the committed rows |
| `query`, `stamp`, `stored` | the `query_history` row of the materialization query, its `results_updated_at`, the files in object storage |
| `pc` | where the job is: before, in, or after the transaction of `promoteToActive` |
| `target`, `held` | the row the running statement waits for, and the rows its transaction has locked |

`promoteToActive` is one transaction of four statements, and two refreshes run
it at once. Each statement that may wait is two actions: `SelectActive` and
`SelectDemoted` take the snapshot of a READ COMMITTED statement, `LockActive`
and `SupersedeOthers` are the lock granted and the row looked at again, which
PostgreSQL skips when it no longer matches. `SetActive` meets the partial
unique index of the migration: an uncommitted entry of another transaction is
waited for, a committed one that stays is the 23505 that `RecordRejected`
catches. What a transaction wrote becomes visible in `Commit`; a failed call, a
23505 and a dead worker give back its locks (`Rollback`). `MarkFailed` and the
clean-up wait for a transaction that holds their row.

Abstractions:

* The materialization query is a status that lands or fails at any time; how it
  gets there is `AsyncQuery`. A claimed query may stay open for ever (section 4),
  so nothing here supposes that it ends: the poll's time limit ends the job.
* `materialized_at` is any value of `Times`: clocks of different processes.
* Deleting a definition and its rows is one step, taken when no transaction
  holds a row, as its locks demand.
* A definition that a partial compile changes in place is not told from the old
  one, and what `getFileSize` reads changes no state.
* `Storage` says how rows are written: as JSONL, as Parquet (a query without
  rows writes no file) or not at all (the row then names no file).
* `Faults` admits `crash`, `database`, `recompile` and `retention` (the
  clean-up of `query_history`, which unlinks materializations).

### MigrationHistory

`history`, the migrations that were applied in their order, `upgraded`, what each
runner told when it ended and which successes the ledger `recorded`; nothing of the
lease. A migration is only ever applied as the next missing one of some release that
runs, so none comes before an older one of its release; Graphile
Worker's migrations come after all of them; a report of success needs a complete
release, and an entry of the ledger also Graphile Worker's migrations. A runner that
dies may leave a last step behind.

### MigrationLease

The runners are the processes of `migrate up` (every server that boots) and
`migrate wait`; an operator runs `migrate unlock`. Two releases meet in a
rolling deployment or a rollback.

| Variable | In the code |
|---|---|
| `done`, `graphile` | `knex_migrations` by id, and whether Graphile Worker's migrations ran |
| `knexLock` | `knex_migrations_lock.is_locked` |
| `holder`, `fresh`, `current`, `parked` | the `migration_lease` row: `claim_token`, whether `last_heartbeat` is younger than `expiryMs`, whether `current_migration` is set, `parked_app_version` |
| `pc`, `plan`, `attempt` | where a runner is in `runUp`, `followMigrations` and `runHolderAttempt`, `state.pending` as it last read it, its attempt |
| `outcome` | the `migration_run_ledger` row of that attempt |
| `operator` | between the two calls of `runUnlock` |

Each lease operation is one `UPDATE` with its `WHERE` conditions, or one
transaction (`ParkRun`, `CompleteRun`); between any two of them other runners
act. The state of the migrations is always read before it is used, so what a
runner plans may be out of date (`plan`). A holder whose lease was taken goes on
until a heartbeat tells it (`LoseLease`), and a process that dies may have its
last statement committed (`Die`).

Abstractions:

* A runner claims at most once, so it stands for its token; of
  `current_migration` only matters whether it is set.
* `fresh` replaces the clock: it may turn false when the holder is dead or its
  heartbeats do not arrive (`stall`), since `expiryMs` (75 s) is several
  heartbeat intervals (10 s), and heartbeats have a connection of their own.
* A migration is the number its file name starts with; names without a
  timestamp are left out. Knex itself is external: `migrate.up` takes its lock,
  runs one migration that is not done yet, and gives the lock back.
* The preflight gate may abort or pass. `cleanupInvalidIndexes` drops indexes
  no property looks at and is part of the step before it. `assertHeld` never
  throws, because `onLeaseLost` has already ended the process.
* `ensureSchema`, `status`, telemetry and the attribution of unlocks are left
  out. The two reads of `runUnlock` are one step.
* `Faults` admits `crash`, `database` (a call fails, or its answer is lost),
  `timeout` (of a follower), `stall`, `unlock` and `unlock --force`. A failing
  migration needs no switch.

### PausableWorker

The `mode` of the process and the `jobs` it works on. Jobs begin until a migration is
heard of and may still end, or slip through, until the stop that follows the grace
period; no job survives a stop, and none begins before runners are started anew
(`Serve`). A migration that is heard of in the middle of a restart starts the grace
period again. A failure or a shutdown leads to `ending`, in which nothing is promised
but an exit without jobs.

### SchedulerQuiesce

One scheduler worker process with its Graphile runners; other processes share
nothing with it but the lease.

| Variable | In the code |
|---|---|
| `lease` | whether `migration_lease` is claimed with a fresh heartbeat |
| `known`, `grace`, `quiesced` | `leaseActive`, `graceTimeout`, `isQuiesced` |
| `probe`, `cached` | the read of the lease under way (`refreshPromise`) and `cachedResult` |
| `resume` | where the current `resume()` is between its awaits; a new generation makes it stale |
| `runner`, `kind`, `managed`, `main` | the Graphile runners, what each was started for, `managedRunners`, `this.runner` |
| `stopping`, `snapshot`, `dead` | `runnerStopPromise`, the runners it stops, `poolDeadAt` |
| `worker` | a worker of each runner: idle, asking for a permit, waiting, permitted, with a job |
| `phase` | `run()`, the launch, the life and the shutdown of the process |

What happens on an answer of the probe is one action (`ProbeAnswers`): the code
applies the state and wakes those that share the promise without another await.
Abstractions: a runner has one worker, since workers of one runner only differ
in their jobs; the handlers are left out, a job begins and ends; the times (poll
interval, cache, jitter, ramp, grace) are only an order of events. `Faults`
admits failing starts and stops, dying runners, a shutdown, and `slow start`: a
start that outlasts the next answer of the probe.

### PlainStore

`content` of the cells, what each replica is `writing` and `working` on, and `jobs`,
all in plaintext: writes, copies, inserts that come second, deletions, jobs, restarts.
There is no secret, no command and no operator.

### SecretRotation

| Variable | In the code |
|---|---|
| `stored` | every encrypted column, token hash and job payload: the value and the secret it was made with |
| `keyring`, `target` | `LIGHTDASH_SECRET` and its fallbacks, in each replica and as deployed |
| `sending`, `taken`, `jobs` | a write that is encrypted but not committed, a locked job with the payload that was read, `graphile_worker.jobs` |
| `running`, `execute`, `tables`, `keys` | the command, `--execute`, `--table`, its own keyring |
| `cursor`, `open`, `page`, `blocked` | the keyset cursor of each source, the sources with pages left, the updates of the page in hand, the list of blockers |
| `swaps`, `cleared`, `fresh`, `deaths` | the operator: how often the secrets were swapped, whether the last report was a final dry run without blockers |

Actions are statements: a replica encrypts in one step and commits in another;
the command reads a page in one and updates its rows one by one, each only while
the row still holds the ciphertext that was read. The operator's steps are those
of `docs/lightdash-secret-rotation.md`. Abstractions: salts; sessions and signed
links, which expire while the operator waits; two commands at once.

Two constants say what the command cannot find. `Registry` is `CIPHERTEXT_REGISTRY`;
`Tables` are all that hold ciphertext, also those that the registry leaves out.
`Copied` are the tables whose ciphertext is copied verbatim from row to row (preview
projects, external connections), at any time, also while the command runs: an old
ciphertext may come in behind its cursor. `Covered` cells are the others: jobs, tokens
and what is registered and not copied.

### AppVersions

Of each version whether it is being built, `ready` or in `error`, and the `package` of
a ready one; `deleted`. A version begins when the one before has ended, is published
with work of itself and earlier versions only, or fails; after that only a hard
deletion changes it. Jobs and their attempts, sandboxes and snapshots are left out.

### Sandbox

| Variable | In the code |
|---|---|
| `status`, `attempts`, `published`, `sandboxId` | the versions of an app, the attempts of their jobs, the source in S3, `apps.sandbox_id` |
| `registry` | `sandbox_registry`: the provider's id of the live sandbox, `snapshot_ref` |
| `state`, `work`, `stored` | at the provider: the sandboxes, what is in their workspaces, the snapshots |
| `pc`, `seen`, `uuid`, `row`, `handle`, `taken` | each job, cancellation and deletion: where it is and what it has read |
| `lost` | not in the code: the rows and sandboxes that somebody died or failed on before he could clean up |

A job is `runPipeline` stage by stage; its calls of the manager (`resume`,
`acquire`, `suspend`) are split at every call of the registry and the provider,
and so are a cancellation (`suspendByUuid`) and a deletion. A workspace is the
set of turns whose work it has. Every call of the provider and every write of
the registry and of `apps.sandbox_id` may fail, and so may the agent, the build and
the upload while their sandbox runs; what the code catches and only warns about goes
on. Three of these failures leave
something behind, which `lost` records: the orphan of `acquire` that cannot be
destroyed (`DestroyOrphan`; SandboxManager.ts:110-118), a row that is not updated or
deleted after what it names was removed (`MarkSuspendedThrows`, `UnregisterThrows`;
SandboxManager.ts:181, caught at AppGenerateService.ts:2783), and a sandbox of Azure
whose row is deleted although the answer to its own deletion was not 2xx (`Kill`;
AzureContainerAppsSandboxProvider.ts:300-310). A death at one of these places is
recorded, too. Abstractions:

* Of the coding agent only that it adds its turn's work; catalog and build stages
  change no state the properties see; time-outs of a provider are its own.
* `Sweep` releases the jobs of dead workers only. `releaseStaleLocks` releases
  every job without progress for five minutes, and the heartbeat that shows
  progress begins after the sandbox stage (AppGenerateService.ts:5378). The model
  supposes that this stage takes less than five minutes; when it does not, two
  workers run one job, which no property here speaks of.

### DerivedQueries

`phase[q]`, what a join asks for (`refs`, `sql`), the `file` each query names and
the `answer` it holds: its SQL and the files it was computed from. A join is answered
in one step from what its references name then, with a file of its own or with that of
a join that has the same answer. A row may fail afterwards; a failed one is never
answered, and no answer is exchanged.

### ComposedQueries

| Variable | In the code |
|---|---|
| `status`, `file`, `older` | `query_history`: status, `results_file_name`, the order of `created_at` |
| `keyed` | the joins whose `cache_key` is the hash of their SQL and files |
| `served`, `refused` | `duckdb_execution.cacheHit` and `.refusal` |
| `sub`, `refs`, `sql`, `limit` | where a submission is, and what a join asks for: the references in the order of their names, the SQL, the row limit |
| `stream` | the pre-aggregate stream, in its order |
| `pc`, `on`, `inputs`, `hit` | a worker loop or an in-process run, its query, the files its polls have read, the file the cache found |

Rows move by the conditional `UPDATE`s of `AsyncQuery`, whose submission,
queueing and claiming are a few steps here. `PollReads` takes one reference at a
time, since each has a poll of its own; `CacheHit`, `MarkDuckdbCacheHit` and
`LandDuckdbCacheHit` are separate because a cancellation may come between them.
Abstractions: SQL is a value; columns, pivots, previews and authorization are
left out; database calls do not fail (`AsyncQuery` has them fail); a results file
is named by the query that wrote it. References are read back from a `jsonb` column,
which orders its keys, so their order is one of the names (`Places`), not of the
request.

## 4. Checks

No state constraint is used. Deadlock is not checked: when everything has ended
the system may stop.

| Run | Instance | Shows |
|---|---|---|
| `queries` | 2 queries of one cache key, 1 worker and the main loops, all faults | `OneExecutor`, `ClaimHolds`, `ResultsAreStored`, `EndedStaysEnded`, `IInv`, the inductive invariant of the proofs, and `ImplementsLifecycle`: the refinement to `QueryLifecycle` |
| `liveness` | the same, no fault | `ReturnedQueryEnds` under `Fairness` |
| `materializations` | 2 jobs, JSONL, all faults | `OneActive`, `ActiveIsStored`, `StaysServed`, `PreAggregateInv`, the inductive invariant of the proofs, `ImplementsSwitch`: the refinement to `MaterializationSwitch`, and `MaterializationEnds` under `Fairness` |
| `stalled_heartbeats` | 3 runners of 2 releases, 1 attempt, one forces; all faults | `DoneIsMigrated`, `ParkedRests`, `OwnersEndRuns`, and `MigrationInv`, the inductive invariant of the proofs |
| `runners_end` | 3 runners of 2 releases, 2 attempts, one waits; crashes | `OneMigrator`, `ImplementsHistory`: the refinement to `MigrationHistory`, and `RunnersEnd` under `Fairness` |
| `quiesce_and_resume` | 2 runners, 2 claims of the lease, 1 failed probe; all faults but slow starts | `OneSchedule`, `NeverUnhealthy`, `NobodyForgotten`, `ImplementsPause`: the refinement to `PausableWorker`, and `Resumes`, `ShutdownEnds` under `Fairness` |
| `rotate_secret` | 2 replicas, a table of 2 rows, a copied one of 2, one that is not registered, a job, a token; a rollback, a death of the command | `StaysReadable`, `ClearedWhereCovered`, `RotationInv`, the inductive invariant of the proofs, `ImplementsPlainStore`: the refinement to `PlainStore`, and `RotationEnds` under `Fairness` |
| `turns_of_an_app` | 2 versions, both kinds of provider, 2 troubles (deaths, failed calls, a cancellation, a deletion) | `OwnWorkIsPublished`, `EarlierWorkIsKept`, `RowsStayResumable`, `LiveIsRegistered`, and `AppInv`, the inductive invariant of the proofs |
| `pipelines` | 2 legs, 2 joins, 1 worker loop that may die, a cancellation | `ResultsFollowReferences`, `OutcomeIsTold`, `ImplementsDerived`: the refinement to `DerivedQueries`, and `JoinsEnd` under `Fairness` |
| `branches_from_head` | 3 versions on a provider that stores snapshots, no trouble | violates `BranchesFromHead` (finding 1) |
| `same_files` | 2 joins over two places, with two row limits | violates `SameFilesSameAnswer` (finding 2) |
| `cleared_by_the_runbook` | 2 replicas, a registered table and one that is not, of 1 row each; no writes, no death | violates `ClearedIsFinal` (finding 3) |

**Bounds.** Two queries of one cache key are enough for a cached hit on the
other's results and, with a worker and the main loops, for two executors to meet;
messages are never redelivered. Each query has at most two attempts by the code.
Two jobs are an active row and a promotion that replaces it, or two promotions of
which one waits for the other's locks; two clock readings make one older, equal or
newer than the other. A third job only adds rows to wait for, and the proofs hold for
any number.
Three runners are a holder, its successor and a follower that sees both. The two
releases share a migration and have one each of their own: one order of the
releases is accepted, the other is a diverged ledger, which `--force` overrides.
Two attempts are a retry and a parking. Two Graphile runners are a resumed one
and its ramp; a second claim is what makes a resume stale (`MaxClaims`, and
`MaxFailures` for the probe, cap the counters). A batch of one row and a table of
two give a page with a cursor behind which a row is inserted; `MaxSwaps` 2 is a
rotation with its rollback, `MaxDeaths` 1 a rerun, `MaxRequests` 1 a write that
races the command, and the proofs hold for any of these numbers. Two turns are a
version and the one that resumes its sandbox; the finding needs a third.
`MaxBoxes`, `MaxSnapshots` and `MaxTroubles` (deaths, failed calls, cancellations
and deletions together) cap what is created and what fails. In `rotate_secret` one
write, copy or deletion (`MaxRequests`) meets the command at any of its steps; in
`cleared_by_the_runbook` none is needed. One worker loop and
two joins are the smallest instance in which a join holds the loop its leg needs.

Safety runs use symmetry (of queries, jobs, or runners of one release and
command); runs with liveness do not.

**Fairness.** Weak fairness of the submission of each query, of each worker loop
and of each run: Node resumes every continuation whose promise settles,
`spawnWorkerLoop` fetches for ever, and JetStream hands out what it stores. It
supposes that warehouse calls settle. In `PreAggregate`, weak fairness of
`Advance`, the steps of a running job that are no failed call: Node resumes it,
PostgreSQL grants a free lock, and its poll gives up by itself; that a call fails
is never owed. In `MigrationLease`, weak fairness of every runner (a migration
ends or fails) and of the expiry of a dead holder's lease; its followers'
time-out is a fault, so that no run ends by it alone. In `SchedulerQuiesce`, weak
fairness of timers, of the database's answers and of calls of Graphile Worker;
jobs need not end, and the lease need not be freed: `Resumes` supposes that it
is. In `SecretRotation`, weak fairness of the replicas' statements and restarts
and of the running command, and an operator who repeats dry runs and executions
until one clears: strong fairness, because a death or a write may disable the
start in between. In `ComposedQueries`, weak fairness of the dispatch and of every
process; a wait times out for certain only when what it waits for was abandoned
by a dead process, which is less than the code's 15 minutes promise: no other
wait needs its time-out to end, or `JoinsEnd` would not hold. Nothing is owed by
users, by failures, or by the materialization query. `Sandbox` states no fairness.

**Findings.**

1. *An iteration may be built on the version before the last.* A version is ready
   before its job has suspended the sandbox, and an iteration is accepted as soon
   as it is. On Docker and Cloud Run the row still names the snapshot of the turn
   before, which `resumeRow` prefers: the iteration gets a sandbox without the
   last version's work and publishes that. `docs/data-apps.md` says that iteration
   always branches from the head.
2. *A join may be served results that are not its own.* The key of a join hashes
   its SQL, its files and its parameters. A compose query's row limit is none of
   them and is applied after the look-up: a larger limit is served the shorter
   results. The comment at the key says that the files are what the results depend
   on, and the one at the look-up that a later run over the same files is served the
   earlier run's results.
3. *An empty list of blockers does not mean that the old secret can be removed.*
   `docs/lightdash-secret-rotation.md:91-93` says that an empty blocker list plus the
   time-based gates mean it, and `registry.ts:7` that the registry lists every database
   field with ciphertext. The tokens and the client secret of Jira installations
   (`JiraAppInstallationsModel.ts:82-96`) and the refresh token of Google Sheets
   credentials (`ExternalSourceModel.ts:262`) are not in it: they are neither
   re-encrypted nor reported, and cannot be decrypted after the removal. The run has
   one such row. Copies lead to the same end: with one registered and copied table
   (`Registry`, `Tables` and `Copied` all of one table, two rows and one request)
   `ClearedIsFinal` is violated by a copy that reads the old ciphertext before the
   execution and inserts it behind the cursor of the final dry run.

**Observations.** What the models show, or show with a constant the runs do not
use, where nothing in the repository promises otherwise:

* *Queries.* Warehouse and pre-aggregate entries rebuild a query's arguments after
  the claim with no catch (`AsyncQueryService.ts:3299`), and the message is never
  redelivered: such a row stays EXECUTING (fault `rebuild`). A query that landed
  just before it is cancelled keeps naming its results, and the cache, which
  ignores the status, serves them on.
* *Pre-aggregates.* A Parquet materialization without rows is active but has no file
  (`Storage = "parquet"` violates `ActiveIsStored`). The materialization with the
  newest `materialized_at` need not become the active one: the comparison sees only
  the row of the `SELECT`, and the 23505 branch compares nothing. A COMMIT whose
  answer is lost makes the job mark the row it has just activated as failed, so that
  none is active until the next refresh: the one case that `StaysServed` excepts. The
  clean-up of `query_history` unlinks a materialization that is still active, which is
  then not served.
* *Migrations.* A follower may report success before Graphile Worker's migrations
  ran: only `current_migration` shows that a dead holder had still to run them, and
  the next claim clears it. `migrate unlock` frees the lease and then, in a second
  call, the Knex lock: a runner that claims in between loses its lock.
* *Scheduler.* With `slow start`, `OneSchedule`, `GraceIsTheEnd`, `NeverUnhealthy`
  and `ImplementsPause` are violated: `managedRunners.clear()` forgets a runner whose
  start outlasted the stop, and `run()` overwrites `isQuiesced`. A late answer of
  the probe may cut the drain of a shutdown short.
* *Sandboxes.* With deaths, more goes wrong than the properties claim: a worker that
  dies while it restores the source leaves the app a blank sandbox, because it was
  adopted before; one that dies between the snapshot and the row leaves a snapshot
  nobody deletes; two deaths leave a version in progress until a user cancels it.
  Without deaths: what `lost` records stays, a row that names a sandbox which is no
  more, or a sandbox that no row names; on a store such a row loses its work, and the
  next turn falls back to the published source; superseded snapshots are never
  deleted; Docker and Cloud Run swallow the failure of a destroy; a cancelled turn
  that is still at work may suspend the sandbox of the next one; a hard deletion
  during a turn leaves what the turn creates afterwards.

## 5. Proofs

`AsyncQueryProofs` proves, for any sets of queries, workers and cache keys,
with NATS or without, and under any combination of faults:

* `TypeCorrect`, `ResultsCorrect`, `ExecutionIsExclusive`, `ClaimIsKept`: the
  invariants of the runs;
* `ResultsAreFinal`, `EndIsKept`: the action properties;
* `Refinement`: `Spec => Lifecycle!Spec`.

The only assumption is `ConstantsAssumption`: workers and queries are
disjoint, and the null values are not values.

The invariants are not inductive by themselves. `IInv` adds

* `DispatchedOnce` - a query is in one place at a time: before its dispatch
  nowhere, then in the stream or with one process. Without it a publish could
  create a second copy, and `OneExecutor` would not be preserved;
* `RowsAreNew`, `DispatchedHasRow` - a row exists before its query is
  dispatched and is inserted once;
* `OpenHasNoResults` - a row that has not ended names no results, so landing
  it exchanges nothing;
* `HitsAreStored`, `CommitsAreStored` - what the cache offered and what a run
  is about to land is complete, which is what `ResultsAreStored` needs;
* `RunsHaveQueries` - a process at work has a query, and only a first attempt
  falls back.

Five lemmas (`TypeStep`, `DispatchStep`, `RowsStep`, `ResultsStep`,
`ClaimStep`, one step per action) show that the groups are preserved. `RowStep`
reduces every action to one of a few effects on the rows (`RowEffect`), from
which the action properties and the refinement follow.

`PreAggregateProofs` proves, for any set of jobs and clock readings, any storage
and any faults unless the theorem says otherwise:

* `OneMaterializationIsActive`, `RowsBelongToDefinition`;
* `ActiveHasItsFile`, for a storage other than Parquet (a query without rows is
  the counterexample for Parquet);
* `ServiceIsContinuous`, but for a job that was told that its COMMIT failed when it
  did not;
* `PromotionIsAtomic`: `Spec => Switch!Spec`, under all faults and for any storage.

The assumption is `PreAggregateAssumption`: the null row is no job, clock
readings are numbers, and the storage is one of the three. `PreAggregateInv`
strengthens the invariants by

* `OnePublisher` - one transaction at a time is past the unique index, and it
  has locked the active row it replaces. `OneActive` alone does not survive
  `Commit`: two transactions could both be about to commit;
* `TransactionsHoldTheirRow` - a transaction has locked its own row and so keeps
  its definition from being dropped; outside of one nothing is locked;
* `PromotedIsStored` - what a job promotes has landed;
* `RunningIsNotActive` - a row becomes active with the end of its job, and a
  transaction only locks rows of ended jobs, so no catch block fails a row that
  is active. This is what continuity rests on;
* `RowsFollowJobs`, `LocksAreExclusive` - a row in a transaction is in progress, and
  what the transaction has locked besides is active and nobody else's until its
  COMMIT. So the COMMIT (`CommitSwitches`) ends exactly the active row.

`TableTypes`, `RowsStep`, `ActiveStep`, `RunningStep`, `LocksStep` and `StoredStep` show
that the parts are preserved, with one step per group of actions.

`MigrationLeaseProofs` proves, for any set of runners, releases and files, any
number of attempts and any faults unless the theorem says otherwise:

* `OneRunnerMigrates`, without stalled heartbeats and forced unlocks;
* `SuccessIsMigrated`, `LedgerIsTrue`, `ParkedVersionRests`, `OnlyOwnersEndRuns`;
* `LeaseRefinesHistory`: `Spec => History!Spec`, under all faults: what the lease
  protects does not need the lease, but for the time two runners lose.

The assumption is `MigrationAssumption`: every release has files, every runner
a release and a command, and there is a first attempt. `MigrationInv` adds

* `WorkersHold` - while heartbeats arrive, whoever works holds a fresh lease.
  `OneMigrator` alone does not survive a claim: the old holder could still work;
* `PlansCover` - what a runner has not planned to run is done, from the read of
  the migrations to the decision that nothing is left. Nothing in it depends on
  the lease, which is why success stays true when heartbeats stall: the code
  reads the state again after every migration, and migrations are never undone
  (`CompletedStep`);
* `PlansAreOwn` - with it, the least of a plan is the next migration its release
  misses, or was applied by another runner meanwhile (`NextIsApplied`): a deposed
  holder and its successor cannot apply out of order;
* `SuccessIsLast` - what the ledger records stays recorded.

`TypeStep`, `WorkersStep`, `PlansStep` and `ParkedStep` have one step per action;
`RunStep` reduces the actions to what they do to a runner. In the refinement a runner
that moves without touching the database stutters or ends (`QuietStep`).

`SecretRotationProofs` proves, for any replicas, tables, cells, values and bounds:

* `RotationInvariance`, and from it `RotationStaysReadable` and `ClearanceIsFinal`,
  whatever the registry leaves out and whatever is copied at any time: of all cells as
  long as there are two secrets, of the `Covered` ones from the clearance on. Nothing
  more is true (finding 3), and nothing less was to be shown: writes of a replica come
  in behind the cursor, too, but with the active secret;
* `ValuesSurviveTheCommand`: it is the `WHERE` of the update;
* `RotationIsUnseen`: `Spec => Plain!Spec`: with secrets erased the command and the
  operator stutter (`ReEncryptedIsSame`), and what replicas do is what they do without
  secrets. It says what is kept, and `RotationStaysReadable` who can read it.

The assumptions are `RotationAssumption` (the secrets differ, the registry lists
tables, cells are finitely many) and `NullAssumption`. `StoreInv`, the types and the
payloads of queued jobs, is inductive by itself (`StoreInvariance`). `RotationInv` says what was
made with which secret `Before`, `During` and `After` the rotation, and, in `Running`,
what a dry run without blockers knows so far: every covered row its cursor has passed
needs the active secret only. That is what survives inserts behind the cursor, since every
replica writes with the active secret by then; `StaysReadable` alone says nothing of
the cursor.

`SchedulerQuiesceProofs` proves, for any runners, any concurrency, claims of the
lease and failures of the probe, and any faults but slow starts unless the theorem
says otherwise:

* `QuiesceInvariance`, and from it `RunnersShareOneSchedule`,
  `NoJobOutlivesTheGrace` (`GraceIsTheEnd`, which `ImplementsPause` implies) and
  `HealthIsTold`;
* `MigrationsHaveTheirPause`: without slow starts, `Spec => Pause!Spec`;
* `NobodyIsForgotten` and `TypeCorrect`, which also hold with slow starts.

The assumption is `QuiesceAssumption`: no runner is the null runner, and the
concurrency is positive. `QuiesceInv` adds

* `RunnersAreKnown` - a runner is managed, or its start is awaited by `run()` or by
  the current resume. A stop clears all of `managedRunners` when it ends, so
  `OneSchedule` would be lost if a runner could come up next to it;
* `StopIsComplete` - that is excluded: a stop took every runner there is, and the
  resume that waits for it has started none;
* `ResumeHasRunners` - how far the resume is says which runners exist;
* `QuiescedUntilResumed`, `BootingIsEmpty`, `NoneAwaited`, `WorkersHaveRunners` - the
  health check and the jobs follow from where the runners are.

`StepEffects` reduces every action to its effect on the runners and on what the
process knows; one lemma for each part of the invariant has one step per effect.
The proof is where slow starts are needed to be absent: an answer of the probe finds
no start under way (`NoStarts`). In the refinement `TurnsStep` says which way each
effect may turn the mode, `JobsKept` which actions begin or end jobs; they are put
together by `StopIsComplete` at the end of a stop, when no job is left, and by
`PausedIsIdle`: while the worker is paused or resumes, nobody holds a permit.

`ComposedQueriesProofs` proves, for any legs, joins, worker loops, references and limits,
whoever is cancelled and whatever dies:

* `InductiveInvariant`, and from it `JoinsFollowTheirReferences`,
  `RowsTellTheOutcome` and `RunsAreExclusive`;
* `JoinsAreAnsweredAtOnce`: `Spec => Derived!Spec`.

The assumption is `ConstantsAssumption`: legs, joins and workers are different.
`ComposedInv` adds

* `OpenHasNoFile`, `ClaimsAreExclusive` - a row is landed once, by the one process
  that claimed it; so what a poll has read of a row is final (`InputsAreFiles`),
  although the row may be cancelled later;
* `InputsAreRead` - a row takes its key when all its inputs are read, so keys never
  change their meaning;
* `FilesMatch` - what the cache found was computed under the key of the query that
  looked. `ResultsFollowReferences` alone does not survive a hit on a hit: the run
  that wrote the file is not the row that was found;
* `HitsAreNamed`, `SubmittedHasRow` - what the cache found is still named by some
  join, and a row is there from the first step of its submission.

In the refinement a step is a stutter until the row moves (`StutterStep`, `FailStep`,
`LegStep`). `JoinStep` is the landing: `InputsKept` and `AnswersKept` carry what was
read, maybe long before and of rows cancelled since, to the moment of the answer.

`SandboxProofs` proves, for any number of turns, sandboxes, snapshots and troubles,
any cancellations and deletions, and both kinds of provider:

* `InvHolds`, and from it `TypeCorrect`;
* `RowsAreResumable`, for both kinds of provider, and `LiveAreRegistered`, for one
  that pauses, whoever dies and whatever calls fail, of all but what is `lost`: that
  only deaths and failures at the three places of section 3 lead to such a row or
  sandbox, and no interleaving of turns, cancellations and deletions does.

The assumption is `SandboxAssumption`: bounds are numbers, and the null value is no
row, no number and no workspace. `SandboxInv` adds

* `NewIsUnknown` - until it is registered a sandbox is only in the hands of the one
  who created it, so the orphan that `acquire` destroys is nobody else's;
* `OwnBoxes`, `SnapshotsAreOwn` - a sandbox and a snapshot belong to one row, also
  those in rows that somebody has read before. `RowsStayResumable` alone does not
  survive a `destroy` that acts on such a row: it could remove what another row names;
* `FirstIsKept`, `SnapshotsStay` - a row is resumed from its first sandbox until it
  has a snapshot, and from a snapshot ever after, so a removed sandbox is only missed
  while its remover has yet to mark the row;
* `PausedInPlace`, `PausedIsRegistered` - a provider that pauses has one sandbox for a
  row, which is there until the one who destroyed it takes the row away, or is lost;
* `StoredIsThere` - the same of snapshots, which only a destruction deletes;
* `PlacesAreKnown`, `JobsAreCounted` - who has a row or a sandbox in hand, and that a
  job is started only while it has attempts left.

`StepEffects` reduces every action to one of eighteen effects on a row, a sandbox or
a snapshot; one lemma for each part of the invariant has one step per effect.

`SandboxWorkProofs` proves, with the same assumption and constants,

* `AppInvariance`, and from it `VersionsAreAHistory`: `Spec => Public!Spec`, whatever
  fails, dies, is cancelled or deleted. No run checks this refinement, whose evaluation
  at every step would take `turns_of_an_app` past five minutes on a slow machine; the
  run checks `AppInv`, which the theorem rests on.

`AppInv` adds to `SandboxInv` that versions are created one after the other
(`OneAtATime`), that the job of a ready one only suspends its sandbox
(`ReadyIsBuilt`), that a hard deletion leaves no version (`DeletedOnce`), and that no
sandbox, snapshot or package has work of a version that was not created
(`NoEarlyWork`). The last one is what keeps later work out of a package, although the
job of a cancelled version goes on uploading what the next version writes: that package
is never published. Every step alters one version, spares all, or deletes the app
(`StepsAre`).

It also proves, for an app that nobody cancels a version of or deletes:

* `WorkInvariance`, and from it `OwnWorkSurvives`, with a provider that pauses
  whatever dies and with one that stores snapshots when nothing dies, and
  `EarlierWorkSurvives`, with a provider that pauses when nothing dies.

`WorkInv` adds to `SandboxInv`, while the app is calm,

* `OneAtATime` - a version is only created when the one before has ended; jobs that
  suspend their sandbox are not in progress any more, so one job writes at a time;
* `StagesAreInOrder` - a job is never behind the stage it began with; an attempt that
  skips the generation is one of a version that was being packaged before;
* `SandboxIsTheApps`, `OwnWorkIsThere` - from then on the work is in the app's sandbox,
  so a later attempt finds it there. `OwnWorkIsPublished` alone says nothing of a
  version whose worker died;
* `AppHasTheWork`, `NewIsOwn` - the app's sandbox has the work of every ready version,
  except between the adoption of a new one and the restoring of the source, and then
  it is its creator's alone, so nobody pauses it and the restoring succeeds.

A step that leaves an app calm is one of a job (`CalmSteps`), which does one of fifteen
deeds; `OthersStep` shows that it disturbs no other version, and one lemma for each part
that it keeps its own.

Only model-checked: liveness and fairness, which are beyond the prover
(`ReturnedQueryEnds`, `MaterializationEnds`, `RunnersEnd`, `Resumes`, `ShutdownEnds`,
`RotationEnds`, `JoinsEnd`), and the violations.

## 6. Not modelled

Query compilation, the warehouse adapters, the formula language, the frontend
and the CLI are sequential translations or user interface and have no shared
state. REST controllers and the CRUD services act within single requests. AI
agents are conversations with outside services. Of the modelled components these
parts are left out:

* *queries*: the retention clean-up (`cleanupBatch`), which runs long after a query
  ended; paging, columns, pivots and authorization; the expiry times of results;
* *composed queries*: what a join reads from its files, previews, failing database
  calls;
* *migrations*: the preflight, of which only the verdict is used, `status`, and the
  clean-up of invalid indexes;
* *scheduler*: the job handlers and cron items, and stalled heartbeats of jobs;
* *rotation*: two commands at once, and the waiting times of the runbook;
* *sandboxes*: the sandboxes of the AI writeback, the coding agent itself, restoring
  and upgrading versions, promotion between projects, building from source, time-outs
  of the providers, and deaths of the requests that cancel and delete.

Metrics, tracing and logging are left out everywhere. The map covers a small share
of the repository: it is a monorepo of more than a million lines, most of them user
interface, generated routes, translations of data and CRUD, in which nothing runs
concurrently with anything else.
