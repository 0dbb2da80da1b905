----------------------------- MODULE AsyncQuery -----------------------------
(***************************************************************************)
(* The life of an asynchronous query: AsyncQueryService submits it, a row  *)
(* of query_history records its status, a NATS JetStream message or the    *)
(* main loop of the API server carries it to an executor, the executor     *)
(* streams the rows to a results file and lands the row.  Rows are shared  *)
(* by every process and changed by single UPDATE statements, so one action *)
(* is what one process does between two awaits.                            *)
(*                                                                         *)
(* A process is a NATS worker loop, or the main-loop run of one query,     *)
(* which is named by that query.                                           *)
(***************************************************************************)
EXTENDS Naturals

CONSTANTS
    Queries,        \* query_uuid values
    Workers,        \* worker loops of the NATS workers
    CacheKeys,      \* values of query_history.cache_key
    NatsEnabled,    \* lightdashConfig.natsWorker.enabled
    Faults,         \* which failures outside this code may happen
    NoFile,         \* results_file_name IS NULL
    NoQuery         \* a process without a job

Procs    == Workers \cup Queries
Attempts == {1, 2}
Files    == Procs \X Queries \X Attempts

Statuses  == {"none", "pending", "queued", "executing",
              "ready", "error", "cancelled", "expired"}
Terminal  == {"ready", "error", "cancelled", "expired"}
Waiting   == {"pending", "queued"}
ReadyFrom == {"pending", "executing"}

\* What resolveAsyncQueryExecutionPlan decides.  A pre-aggregate runs on DuckDB
\* or on the project's own warehouse.  A materialization takes the path of a
\* warehouse query but has a results storage of its own, and is left out.
Targets   == {"warehouse", "pre_agg_duckdb", "pre_agg_warehouse",
              "external_source"}
PreAgg    == {"pre_agg_duckdb", "pre_agg_warehouse"}
FaultKinds == {"crash", "nats_loss", "rebuild", "database", "cleanup"}

SubmitPC == {"idle", "create", "hit_claim", "hit_ready", "resolve",
             "record_plan", "publish", "mark_queued", "enqueue_failed",
             "launch", "returned", "threw"}
JobPC    == {"idle", "read", "expire", "claim", "build", "execute", "close",
             "commit", "failed", "cleanup", "fallback"}

ASSUME ConstantsAssumption ==
    /\ Workers \cap Queries = {}
    /\ NatsEnabled \in BOOLEAN
    /\ Faults \subseteq FaultKinds
    /\ NoFile \notin Files
    /\ NoQuery \notin Queries

VARIABLES
    \* query_history, one row per query
    status, cacheKey, resultsFile,
    older,          \* the rows created before this one (created_at)
    \* results storage: the files whose upload has completed
    stored,
    \* executePreparedAsyncQuery, one call per query
    sub, hit, target,
    \* NATS: the queries whose message no consumer has been given yet
    stream,
    \* executors: where each one is, the query it runs, which attempt
    pc, on, attempt

db     == <<status, cacheKey, resultsFile, older>>
submit == <<sub, hit, target>>
job    == <<pc, on, attempt>>
vars   == <<db, stored, submit, stream, job>>

TypeOK ==
    /\ status \in [Queries -> Statuses]
    /\ cacheKey \in [Queries -> CacheKeys]
    /\ resultsFile \in [Queries -> Files \cup {NoFile}]
    /\ older \in [Queries -> SUBSET Queries]
    /\ stored \subseteq Files
    /\ sub \in [Queries -> SubmitPC]
    /\ hit \in [Queries -> Files \cup {NoFile}]
    /\ target \in [Queries -> Targets]
    /\ stream \subseteq Queries
    /\ pc \in [Procs -> JobPC]
    /\ on \in [Procs -> Queries \cup {NoQuery}]
    /\ attempt \in [Procs -> Attempts]

Init ==
    /\ status = [q \in Queries |-> "none"]
    /\ cacheKey \in [Queries -> CacheKeys]
    /\ resultsFile = [q \in Queries |-> NoFile]
    /\ older = [q \in Queries |-> {}]
    /\ stored = {}
    /\ sub = [q \in Queries |-> "idle"]
    /\ hit = [q \in Queries |-> NoFile]
    /\ target = [q \in Queries |-> "warehouse"]
    /\ stream = {}
    /\ pc = [p \in Procs |-> "idle"]
    /\ on = [p \in Procs |-> NoQuery]
    /\ attempt = [p \in Procs |-> 1]

-----------------------------------------------------------------------------
(* QueryHistoryModel: every UPDATE of the status column.                   *)

Exists(q) == status[q] # "none"

SetStatus(q, s) == status' = [status EXCEPT ![q] = s]

\* update with a status other than READY: no condition on the old status.
UpdateStatus(q, s) == SetStatus(q, s) /\ UNCHANGED resultsFile

\* Mutant: READY from any status.
UnguardedReady(q, f) ==
    /\ SetStatus(q, "ready")
    /\ resultsFile' = [resultsFile EXCEPT ![q] = f]

\* update with status READY: only rows that are PENDING or EXECUTING.
UpdateToReady(q, f) ==
    IF status[q] \in ReadyFrom
    THEN /\ SetStatus(q, "ready")
         /\ resultsFile' = [resultsFile EXCEPT ![q] = f]
    ELSE UNCHANGED <<status, resultsFile>>

\* Mutant: the late update of the submission without its guard.
UnguardedQueued(q) == SetStatus(q, "queued")

UpdateStatusToQueued(q) ==
    IF status[q] = "pending" THEN SetStatus(q, "queued") ELSE UNCHANGED status

UpdateStatusToExecuting(q) ==
    IF status[q] \in Waiting THEN SetStatus(q, "executing") ELSE UNCHANGED status

\* Mutant: expire whatever the row has become since it was read.
UnguardedExpired(q) == SetStatus(q, "expired")

UpdateStatusToExpired(q) ==
    IF status[q] \in Waiting THEN SetStatus(q, "expired") ELSE UNCHANGED status

\* findMostRecentByCacheKey: the newest row of the key, whatever its status.
MostRecentByCacheKey(k) ==
    {q \in Queries :
        /\ Exists(q) /\ cacheKey[q] = k
        /\ \A r \in Queries \ {q} :
              Exists(r) /\ cacheKey[r] = k => r \in older[q]}

\* findCachedResultsFile: the file of that row, if it has one.
CachedResultsFiles(k) ==
    {resultsFile[q] : q \in MostRecentByCacheKey(k)} \ {NoFile}

-----------------------------------------------------------------------------
(* AsyncQueryService.executePreparedAsyncQuery.                            *)

Goto(q, next) == sub' = [sub EXCEPT ![q] = next]

\* The cache is looked up before the row exists.  No file: a miss, a stale
\* entry, invalidateCache, or the cache is off.
FindResultsCache(q) ==
    /\ sub[q] = "idle"
    /\ \E f \in CachedResultsFiles(cacheKey[q]) \cup {NoFile} :
          hit' = [hit EXCEPT ![q] = f]
    /\ Goto(q, "create")
    /\ UNCHANGED <<db, stored, target, stream, job>>

CreateRow(q) ==
    /\ sub[q] = "create"
    /\ SetStatus(q, "pending")
    /\ older' = [older EXCEPT ![q] = {r \in Queries : Exists(r)}]
    /\ Goto(q, IF hit[q] = NoFile THEN "resolve"
               ELSE IF NatsEnabled THEN "hit_claim" ELSE "hit_ready")
    /\ UNCHANGED <<cacheKey, resultsFile, stored, hit, target, stream, job>>

HitClaim(q) ==
    /\ sub[q] = "hit_claim"
    /\ UpdateStatusToExecuting(q)
    /\ Goto(q, "hit_ready")
    /\ UNCHANGED <<cacheKey, resultsFile, older, stored, hit, target, stream, job>>

HitReady(q) ==
    /\ sub[q] = "hit_ready"
    /\ UpdateToReady(q, hit[q])
    /\ Goto(q, "returned")
    /\ UNCHANGED <<cacheKey, older, stored, hit, target, stream, job>>

\* Missing parameters, or a required pre-aggregate that does not resolve.
RefuseQuery(q) ==
    /\ sub[q] = "resolve"
    /\ UpdateStatus(q, "error")
    /\ Goto(q, "returned")
    /\ UNCHANGED <<cacheKey, older, stored, hit, target, stream, job>>

\* External sources never go to NATS.
Dispatch(t) == IF NatsEnabled /\ t # "external_source"
               THEN "publish" ELSE "launch"

ResolvePlan(q) ==
    /\ sub[q] = "resolve"
    /\ \E t \in Targets :
          /\ target' = [target EXCEPT ![q] = t]
          /\ Goto(q, IF t \in PreAgg THEN "record_plan" ELSE Dispatch(t))
    /\ UNCHANGED <<db, stored, hit, stream, job>>

\* The pre-aggregate SQL is on the row before the job can be picked up.
RecordPlan(q) ==
    /\ sub[q] = "record_plan"
    /\ Goto(q, Dispatch(target[q]))
    /\ UNCHANGED <<db, stored, hit, target, stream, job>>

Publish(q) ==
    /\ sub[q] = "publish"
    /\ stream' = stream \cup {q}
    /\ Goto(q, "mark_queued")
    /\ UNCHANGED <<db, stored, hit, target, job>>

\* The publish throws.  After a timeout the server may have the message.
PublishThrows(q) ==
    /\ sub[q] = "publish"
    /\ stream' \in {stream, stream \cup {q}}
    /\ Goto(q, "enqueue_failed")
    /\ UNCHANGED <<db, stored, hit, target, job>>

MarkQueued(q) ==
    /\ sub[q] = "mark_queued"
    /\ UpdateStatusToQueued(q)
    /\ Goto(q, "returned")
    /\ UNCHANGED <<cacheKey, resultsFile, older, stored, hit, target, stream, job>>

MarkQueuedThrows(q) ==
    /\ "database" \in Faults
    /\ sub[q] = "mark_queued"
    /\ Goto(q, "enqueue_failed")
    /\ UNCHANGED <<db, stored, hit, target, stream, job>>

\* Mutant: a failed publish falls back to the main loop.
RunLocallyOnFailure(q) ==
    /\ sub[q] = "enqueue_failed"
    /\ Goto(q, "launch")
    /\ UNCHANGED <<db, stored, hit, target, stream, job>>

EnqueueFailed(q) ==
    /\ sub[q] = "enqueue_failed"
    /\ UpdateStatus(q, "error")
    /\ Goto(q, "returned")
    /\ UNCHANGED <<cacheKey, older, stored, hit, target, stream, job>>

\* The main loop runs the query itself, without claiming the row.
LaunchInMainLoop(q) ==
    /\ sub[q] = "launch"
    /\ pc' = [pc EXCEPT ![q] = "execute"]
    /\ on' = [on EXCEPT ![q] = q]
    /\ attempt' = [attempt EXCEPT ![q] = 1]
    /\ Goto(q, "returned")
    /\ UNCHANGED <<db, stored, hit, target, stream>>

\* A database call of the submission throws: the request fails and whoever
\* asked never learns the query_uuid.
SubmitThrows(q) ==
    /\ "database" \in Faults
    /\ sub[q] \in {"create", "hit_claim", "hit_ready", "resolve",
                   "record_plan", "enqueue_failed"}
    /\ Goto(q, "threw")
    /\ UNCHANGED <<db, stored, hit, target, stream, job>>

SubmitStep(q) ==
    \/ FindResultsCache(q) \/ CreateRow(q) \/ HitClaim(q) \/ HitReady(q)
    \/ RefuseQuery(q) \/ ResolvePlan(q) \/ RecordPlan(q)
    \/ Publish(q) \/ PublishThrows(q) \/ MarkQueued(q) \/ MarkQueuedThrows(q)
    \/ EnqueueFailed(q) \/ LaunchInMainLoop(q) \/ SubmitThrows(q)

-----------------------------------------------------------------------------
(* NatsWorker and AsyncQueryService.run...FromHistory.                     *)

JobGoto(p, next) == pc' = [pc EXCEPT ![p] = next]

EndJob(p) ==
    /\ JobGoto(p, "idle")
    /\ on' = [on EXCEPT ![p] = NoQuery]
    /\ attempt' = [attempt EXCEPT ![p] = 1]

\* max_deliver is 1: a message handed out is never handed out again,
\* whether it is acked, naked, terminated or its worker dies.
FetchMessage(w) ==
    /\ pc[w] = "idle"
    /\ \E q \in stream :
          /\ stream' = stream \ {q}
          /\ on' = [on EXCEPT ![w] = q]
    /\ JobGoto(w, "read")
    /\ UNCHANGED <<db, stored, submit, attempt>>

\* prepareQueuedQueryForExecution reads the row; the clock decides whether
\* the query has been queued for too long.
ReadQueuedRow(w) ==
    /\ pc[w] = "read"
    /\ IF status[on[w]] \in Waiting
       THEN /\ \E next \in {"claim", "expire"} : JobGoto(w, next)
            /\ UNCHANGED <<on, attempt>>
       ELSE EndJob(w)
    /\ UNCHANGED <<db, stored, submit, stream>>

ExpireQueuedQuery(w) ==
    /\ pc[w] = "expire"
    /\ UpdateStatusToExpired(on[w])
    /\ EndJob(w)
    /\ UNCHANGED <<cacheKey, resultsFile, older, stored, submit, stream>>

ClaimRow(w) ==
    /\ pc[w] = "claim"
    /\ UpdateStatusToExecuting(on[w])
    /\ IF status[on[w]] \in Waiting
       THEN JobGoto(w, "build") /\ UNCHANGED <<on, attempt>>
       ELSE EndJob(w)
    /\ UNCHANGED <<cacheKey, resultsFile, older, stored, submit, stream>>

BuildArgs(w) ==
    /\ pc[w] = "build"
    /\ JobGoto(w, "execute")
    /\ UNCHANGED <<db, stored, submit, stream, on, attempt>>

\* build...QueryArgs, or a database call before it, throws: the worker naks
\* and nothing touches the row.
PrepareThrows(w) ==
    /\ \/ "rebuild" \in Faults /\ pc[w] = "build"
       \/ "database" \in Faults /\ pc[w] \in {"read", "expire", "claim"}
    /\ EndJob(w)
    /\ UNCHANGED <<db, stored, submit, stream>>

-----------------------------------------------------------------------------
(* runAsyncWarehouseQuery, and the callers that catch what it rethrows.    *)

\* createUniqueResultsFileName: a new name for every run.
FileOf(p) == <<p, on[p], attempt[p]>>

\* The attempt on pre-aggregated data; it rethrows instead of failing the row.
PreAggAttempt(p) == target[on[p]] \in PreAgg /\ attempt[p] = 1

\* warehouseClientOverride: no warehouse connection of its own to clean up.
ClientOverride(p) ==
    \/ target[on[p]] = "external_source"
    \/ target[on[p]] = "pre_agg_duckdb" /\ attempt[p] = 1

Rethrows(p) == ClientOverride(p) \/ PreAggAttempt(p)

\* Connecting, running the query and streaming its rows; any of it may throw.
ExecuteQuery(p) ==
    /\ pc[p] = "execute"
    /\ \E next \in {"close", "failed"} : JobGoto(p, next)
    /\ UNCHANGED <<db, stored, submit, stream, on, attempt>>

\* Mutant: the row is landed without awaiting the upload.
CommitWithoutClose(p) ==
    /\ pc[p] = "close"
    /\ JobGoto(p, "commit")
    /\ UNCHANGED <<db, stored, submit, stream, on, attempt>>

\* stream.close() resolves when the file is written.
CloseStream(p) ==
    /\ pc[p] = "close"
    /\ \/ stored' = stored \cup {FileOf(p)} /\ JobGoto(p, "commit")
       \/ UNCHANGED stored /\ JobGoto(p, "failed")
    /\ UNCHANGED <<db, submit, stream, on, attempt>>

CommitReady(p) ==
    /\ pc[p] = "commit"
    /\ UpdateToReady(on[p], FileOf(p))
    /\ JobGoto(p, "cleanup")
    /\ UNCHANGED <<cacheKey, older, stored, submit, stream, on, attempt>>

\* The UPDATE throws, before or after the database applied it.
CommitThrows(p) ==
    /\ "database" \in Faults
    /\ pc[p] = "commit"
    /\ \/ UpdateToReady(on[p], FileOf(p))
       \/ UNCHANGED <<status, resultsFile>>
    /\ JobGoto(p, "failed")
    /\ UNCHANGED <<cacheKey, older, stored, submit, stream, on, attempt>>

\* markAsyncQueryErrored, then the cleanup.
FailRow(p) ==
    /\ pc[p] = "failed" /\ ~Rethrows(p)
    /\ UpdateStatus(on[p], "error")
    /\ JobGoto(p, "cleanup")
    /\ UNCHANGED <<cacheKey, older, stored, submit, stream, on, attempt>>

\* runExternalSourceQuery catches the rethrown error.
FailExternalSource(p) ==
    /\ pc[p] = "failed" /\ target[on[p]] = "external_source"
    /\ UpdateStatus(on[p], "error")
    /\ EndJob(p)
    /\ UNCHANGED <<cacheKey, older, stored, submit, stream>>

\* runAsyncPreAggregateQuery catches it: the row stays as it is.
RethrowToFallback(p) ==
    /\ pc[p] = "failed" /\ PreAggAttempt(p)
    /\ JobGoto(p, "fallback")
    /\ UNCHANGED <<db, stored, submit, stream, on, attempt>>

FallbackDisabled(p) ==
    /\ pc[p] = "fallback"
    /\ UpdateStatus(on[p], "error")
    /\ EndJob(p)
    /\ UNCHANGED <<cacheKey, older, stored, submit, stream>>

FallBackToWarehouse(p) ==
    /\ pc[p] = "fallback"
    /\ JobGoto(p, "execute")
    /\ attempt' = [attempt EXCEPT ![p] = @ + 1]
    /\ UNCHANGED <<db, stored, submit, stream, on>>

CleanUp(p) ==
    /\ pc[p] = "cleanup"
    /\ EndJob(p)
    /\ UNCHANGED <<db, stored, submit, stream>>

\* The UPDATE that would fail the row throws: the run ends, the row stays.
FailRowThrows(p) ==
    /\ "database" \in Faults
    /\ \/ pc[p] = "failed" /\ ~PreAggAttempt(p)
       \/ pc[p] = "fallback"
    /\ EndJob(p)
    /\ UNCHANGED <<db, stored, submit, stream>>

\* Disconnecting the tunnel, or closing the stream of a failed run, throws:
\* the row is failed whatever it holds, and the error is rethrown.
CleanUpThrows(p) ==
    /\ "cleanup" \in Faults
    /\ pc[p] = "cleanup" /\ ~ClientOverride(p)
    /\ UpdateStatus(on[p], "error")
    /\ IF PreAggAttempt(p)
       THEN JobGoto(p, "fallback") /\ UNCHANGED <<on, attempt>>
       ELSE EndJob(p)
    /\ UNCHANGED <<cacheKey, older, stored, submit, stream>>

WorkerStep(w) ==
    \/ FetchMessage(w) \/ ReadQueuedRow(w) \/ ExpireQueuedQuery(w)
    \/ ClaimRow(w) \/ BuildArgs(w) \/ PrepareThrows(w)

RunStep(p) ==
    \/ ExecuteQuery(p) \/ CloseStream(p) \/ CommitReady(p) \/ CommitThrows(p)
    \/ FailRow(p) \/ FailExternalSource(p)
    \/ FailRowThrows(p)
    \/ RethrowToFallback(p) \/ FallbackDisabled(p) \/ FallBackToWarehouse(p)
    \/ CleanUp(p) \/ CleanUpThrows(p)

-----------------------------------------------------------------------------
(* Users and failures.                                                     *)

\* cancelAsyncQuery: overwrites any status; no executor is told.
CancelQuery(q) ==
    /\ Exists(q)
    /\ UpdateStatus(q, "cancelled")
    /\ UNCHANGED <<cacheKey, older, stored, submit, stream, job>>

\* The API server dies with the submission and the main-loop run of q.
ServerCrash(q) ==
    /\ "crash" \in Faults
    /\ sub[q] # "idle"
    /\ Goto(q, IF sub[q] = "returned" THEN "returned" ELSE "threw")
    /\ EndJob(q)
    /\ UNCHANGED <<db, stored, hit, target, stream>>

WorkerCrash(w) ==
    /\ "crash" \in Faults
    /\ EndJob(w)
    /\ UNCHANGED <<db, stored, submit, stream>>

\* The streams are kept in memory on one server: a restart empties them.
NatsRestart ==
    /\ "nats_loss" \in Faults
    /\ stream' = {}
    /\ UNCHANGED <<db, stored, submit, job>>

Next ==
    \/ \E q \in Queries : SubmitStep(q) \/ CancelQuery(q) \/ ServerCrash(q)
    \/ \E w \in Workers : WorkerStep(w) \/ WorkerCrash(w)
    \/ \E p \in Procs : RunStep(p)
    \/ NatsRestart

Spec == Init /\ [][Next]_vars

\* The event loop resumes every continuation and a pulled consumer is given
\* the messages of its stream; users and failures owe nothing.
Fairness ==
    /\ \A q \in Queries : WF_vars(SubmitStep(q))
    /\ \A w \in Workers : WF_vars(WorkerStep(w))
    /\ \A p \in Procs : WF_vars(RunStep(p))

FairSpec == Spec /\ Fairness

-----------------------------------------------------------------------------
(* What the component promises.                                            *)

\* A row only ever names a results file whose upload has completed, however
\* it got the name: its own run, a fallback, or a cached run.  The reader of
\* a READY row (getResultsPageFromS3) relies on it.
ResultsAreStored ==
    \A q \in Queries :
        /\ resultsFile[q] # NoFile => resultsFile[q] \in stored
        /\ status[q] = "ready" => resultsFile[q] # NoFile

\* No two processes ever hold the same query: submission, publish failures
\* and the fallback never start a second execution beside the first.
OneExecutor ==
    \A p1, p2 \in Procs :
        on[p1] = on[p2] /\ on[p1] # NoQuery => p1 = p2

Claimed == {"build", "execute", "close", "commit", "failed", "cleanup",
            "fallback"}

\* While a worker runs a query its row is neither waiting nor expired: the
\* late updateStatusToQueued of the submission, or an expiry, never undoes
\* the claim (READY would then be refused).
ClaimHolds ==
    \A w \in Workers :
        pc[w] \in Claimed => status[on[w]] \notin Waiting \cup {"none", "expired"}

\* Once a row names its results they never change: readers page through one
\* file, whatever a fallback, a cancellation or an error does to the row.
ResultsNeverChange ==
    [][\A q \in Queries :
          resultsFile[q] # NoFile => resultsFile'[q] = resultsFile[q]]_vars

\* A poller that saw a query end never sees it running again, nor READY
\* after any other end: an executor that outlives a cancellation or a failed
\* enqueue cannot land its results.
EndedStaysEnded ==
    [][\A q \in Queries :
          status[q] \in Terminal /\ status'[q] # status[q]
             => status'[q] \in {"error", "cancelled"}]_vars

\* Every query whose submission returned to its caller reaches a terminal
\* status, whatever the interleaving of the submission with the workers.
ReturnedQueryEnds ==
    \A q \in Queries : sub[q] = "returned" ~> status[q] \in Terminal

-----------------------------------------------------------------------------
(* The poller's view: QueryLifecycle is implemented.                       *)

PhaseOf(s) ==
    IF s \in {"none", "ready"} THEN s
    ELSE IF s \in Terminal THEN "failed"
    ELSE "open"

Phase == [q \in Queries |-> PhaseOf(status[q])]

Lifecycle == INSTANCE QueryLifecycle WITH phase <- Phase, result <- resultsFile

\* Seen through its row, a query behaves as QueryLifecycle promises.
ImplementsLifecycle == Lifecycle!Spec

-----------------------------------------------------------------------------
(* The inductive invariant behind the safety properties.                   *)

\* A row is inserted once, by its submission.
RowsAreNew ==
    \A q \in Queries : sub[q] \in {"idle", "create"} => status[q] = "none"

\* A query that was dispatched has a row, whatever became of its submission.
DispatchedHasRow ==
    /\ \A q \in Queries :
          sub[q] \notin {"idle", "create", "threw"} \/ q \in stream => Exists(q)
    /\ \A p \in Procs : on[p] # NoQuery => Exists(on[p])

\* A row that has not ended names no results.
OpenHasNoResults ==
    \A q \in Queries :
        status[q] \notin Terminal => resultsFile[q] = NoFile

\* What the cache offered, and what a run is about to land, is in storage.
HitsAreStored ==
    \A q \in Queries :
        /\ hit[q] # NoFile => hit[q] \in stored
        /\ sub[q] \in {"hit_claim", "hit_ready"} => hit[q] # NoFile

\* A process at work has a query; only a first attempt falls back.
RunsHaveQueries ==
    \A p \in Procs :
        /\ pc[p] # "idle" => on[p] # NoQuery
        /\ pc[p] = "fallback" => attempt[p] = 1

CommitsAreStored ==
    \A p \in Procs : pc[p] = "commit" => FileOf(p) \in stored

\* Before its submission dispatches it a query is nowhere; then it is in one
\* place: the stream, a worker, or its main-loop run.
Undispatched == {"idle", "create", "hit_claim", "hit_ready", "resolve",
                 "record_plan", "publish", "launch"}

DispatchedOnce ==
    /\ \A q \in Queries : sub[q] \in Undispatched =>
          q \notin stream /\ \A p \in Procs : on[p] # q
    /\ \A q \in stream : \A p \in Procs : on[p] # q

IInv ==
    /\ TypeOK
    /\ ResultsAreStored
    /\ RowsAreNew
    /\ DispatchedHasRow
    /\ OpenHasNoResults
    /\ HitsAreStored
    /\ RunsHaveQueries
    /\ CommitsAreStored
    /\ DispatchedOnce
    /\ OneExecutor
    /\ ClaimHolds

=============================================================================
