---------------------------- MODULE PreAggregate ----------------------------
(***************************************************************************)
(* The materializations of one pre-aggregate.                              *)
(*                                                                         *)
(* Every job (a compile, a cron slot, a manual refresh) inserts a row,     *)
(* runs the aggregation as an asynchronous query, polls it and promotes    *)
(* its row to the active one.  Jobs of one pre-aggregate overlap: only     *)
(* equal triggers share a job key, and a job that timed out runs on.       *)
(*                                                                         *)
(* A row is named by its job.  promoteToActive is modelled statement by    *)
(* statement: under READ COMMITTED a statement reads the rows committed    *)
(* when it starts, waits for the locks of the rows it wants, and then      *)
(* checks again that a row it waited for still matches.                    *)
(***************************************************************************)
EXTENDS Naturals

CONSTANTS
    Jobs,      \* runs of materializePreAggregate, and the rows they insert
    NoJob,     \* no row
    Times,     \* the clock readings results_updated_at may take
    Storage,   \* how materializations are written: "parquet", "jsonl", "none"
    Faults     \* the failures and events an instance admits, a subset of
               \* {"crash", "database", "recompile", "retention"}

ASSUME PreAggregateAssumption ==
    /\ NoJob \notin Jobs
    /\ Times \subseteq Nat
    /\ Storage \in {"parquet", "jsonl", "none"}

VARIABLES
    definition,  \* whether the pre_aggregate_definitions row exists
    status,      \* status column of the committed rows, "none" without a row
    linked,      \* whether the row's query_uuid is set
    query,       \* the materialization query, seen through query_history
    stamp,       \* results_updated_at of the query, materialized_at of the row
    stored,      \* rows whose file is in object storage
    pc,          \* where the job is
    target,      \* the row the running statement of the transaction found
    held         \* the rows the transaction of the job has locked

table == <<definition, status, linked>>
results == <<query, stamp, stored>>
transaction == <<target, held>>
vars == <<table, results, pc, transaction>>

Statuses == {"in_progress", "active", "superseded", "failed"}

\* Inside database.transaction, from the first statement to the COMMIT.
InTransaction == {"choosing", "waiting", "demoting", "superseding",
                  "activating", "publishing", "retiring"}

Places == {"idle", "inserting", "querying", "attaching", "polling",
           "promoting", "rejected", "failing", "catching", "done", "dead"}
              \cup InTransaction

TypeOK ==
    /\ definition \in BOOLEAN
    /\ status \in [Jobs -> Statuses \cup {"none"}]
    /\ linked \in [Jobs -> BOOLEAN]
    /\ query \in [Jobs ->
           {"none", "open", "ready", "unnamed", "failed", "purged"}]
    /\ stamp \in [Jobs -> Nat]
    /\ stored \subseteq Jobs
    /\ pc \in [Jobs -> Places]
    /\ target \in [Jobs -> Jobs \cup {NoJob}]
    /\ held \in [Jobs -> SUBSET Jobs]

Init ==
    /\ definition = TRUE
    /\ status = [j \in Jobs |-> "none"]
    /\ linked = [j \in Jobs |-> FALSE]
    /\ query = [j \in Jobs |-> "none"]
    /\ stamp = [j \in Jobs |-> 0]
    /\ stored = {}
    /\ pc = [j \in Jobs |-> "idle"]
    /\ target = [j \in Jobs |-> NoJob]
    /\ held = [j \in Jobs |-> {}]

Active == {j \in Jobs : status[j] = "active"}

Goto(j, p) == pc' = [pc EXCEPT ![j] = p]

\* UPDATE ... WHERE pre_aggregate_materialization_uuid = j
SetStatus(j, s) ==
    status' = [status EXCEPT ![j] = IF @ = "none" THEN @ ELSE s]
Link(j) == linked' = [linked EXCEPT ![j] = status[j] # "none"]

(***************************************************************************)
(* materializePreAggregate, up to the promotion.                           *)
(***************************************************************************)

\* Without a definition NotFoundError leaves before there is a row.
ReadDefinition(j) ==
    /\ pc[j] = "idle"
    /\ Goto(j, IF definition THEN "inserting" ELSE "done")
    /\ UNCHANGED <<table, results, transaction>>

\* Mutant: no foreign key.
InsertUnreferenced(j) ==
    /\ pc[j] = "inserting"
    /\ status' = [status EXCEPT ![j] = "in_progress"]
    /\ \E p \in {"querying", "failing"} : Goto(j, p)
    /\ UNCHANGED <<definition, linked, results, transaction>>

\* A definition whose metric query could not be built fails its row.
InsertInProgress(j) ==
    /\ pc[j] = "inserting"
    /\ definition
    /\ status' = [status EXCEPT ![j] = "in_progress"]
    /\ \E p \in {"querying", "failing"} : Goto(j, p)
    /\ UNCHANGED <<definition, linked, results, transaction>>

\* The definition is gone, or the database fails; in the second case the
\* row may have been inserted, but its uuid is lost.
InsertThrows(j) ==
    /\ pc[j] = "inserting"
    /\ \/ ~definition /\ UNCHANGED status
       \/ /\ "database" \in Faults /\ definition
          /\ \E s \in {"none", "in_progress"} :
                status' = [status EXCEPT ![j] = s]
    /\ Goto(j, "done")
    /\ UNCHANGED <<definition, linked, results, transaction>>

ExecuteAsyncMetricQuery(j) ==
    /\ pc[j] = "querying"
    /\ query' = [query EXCEPT ![j] = "open"]
    /\ Goto(j, "attaching")
    /\ UNCHANGED <<table, stamp, stored, transaction>>

ExecuteThrows(j) ==
    /\ pc[j] = "querying"
    /\ Goto(j, "catching")
    /\ UNCHANGED <<table, results, transaction>>

AttachQueryUuid(j) ==
    /\ pc[j] = "attaching"
    /\ Link(j)
    /\ Goto(j, "polling")
    /\ UNCHANGED <<definition, status, results, transaction>>

\* Mutant: the status of the returned query is not looked at.
PromoteAnyEnd(j) ==
    /\ pc[j] = "polling"
    /\ query[j] \in {"ready", "unnamed", "failed"}
    /\ Goto(j, "promoting")
    /\ UNCHANGED <<table, results, transaction>>

\* pollForQueryCompletion returned: only READY with a results file goes on.
QueryEnded(j) ==
    /\ pc[j] = "polling"
    /\ query[j] \in {"ready", "unnamed", "failed"}
    /\ Goto(j, IF query[j] = "ready" THEN "promoting" ELSE "failing")
    /\ UNCHANGED <<table, results, transaction>>

\* Mutant: the poll has no time limit.
PollForever(j) == FALSE /\ UNCHANGED vars

PollTimesOut(j) ==
    /\ pc[j] = "polling"
    /\ query[j] = "open"
    /\ Goto(j, "catching")
    /\ UNCHANGED <<table, results, transaction>>

(***************************************************************************)
(* promoteToActive.  What a transaction writes is seen by nobody before    *)
(* its COMMIT; what it locked or superseded is in held[j].                 *)
(***************************************************************************)

LockedByOther(j, r) == \E k \in Jobs \ {j} : r \in held[k]

\* SELECT own row FOR UPDATE; NotFoundError when a recompile dropped it.
LockOwnRow(j) ==
    /\ pc[j] = "promoting"
    /\ IF status[j] = "none"
       THEN Goto(j, "catching") /\ UNCHANGED held
       ELSE Goto(j, "choosing") /\ held' = [held EXCEPT ![j] = {j}]
    /\ UNCHANGED <<table, results, target>>

\* The statement at place p finds the active row, if there is one.
FindActive(j, found, none) ==
    \/ /\ Active = {}
       /\ target' = [target EXCEPT ![j] = NoJob]
       /\ Goto(j, none)
    \/ \E r \in Active :
          /\ target' = [target EXCEPT ![j] = r]
          /\ Goto(j, found)

\* SELECT the active row FOR UPDATE: without one the row is promoted.
SelectActive(j) ==
    /\ pc[j] = "choosing"
    /\ FindActive(j, "waiting", "demoting")
    /\ UNCHANGED <<table, results, held>>

ShouldPromote(j, currentActive) == stamp[currentActive] <= stamp[j]

\* The lock is granted.  A row that is not active any more is skipped, and
\* the statement returns no row at all.
LockActive(j) ==
    /\ pc[j] = "waiting"
    /\ ~LockedByOther(j, target[j])
    /\ IF target[j] \in Active
       THEN /\ held' = [held EXCEPT ![j] = @ \cup {target[j]}]
            /\ Goto(j, IF ShouldPromote(j, target[j])
                       THEN "demoting" ELSE "retiring")
       ELSE Goto(j, "demoting") /\ UNCHANGED held
    /\ UNCHANGED <<table, results, target>>

\* UPDATE the active rows of the definition but its own to superseded, with
\* a snapshot of its own: it may find a row the SELECT did not.
SelectDemoted(j) ==
    /\ pc[j] = "demoting"
    /\ FindActive(j, "superseding", "activating")
    /\ UNCHANGED <<table, results, held>>

\* Mutant: the statement runs outside the transaction.
SupersedeAtOnce(j) ==
    /\ pc[j] = "superseding"
    /\ ~LockedByOther(j, target[j])
    /\ IF target[j] \in Active THEN SetStatus(target[j], "superseded")
                              ELSE UNCHANGED status
    /\ Goto(j, "activating")
    /\ UNCHANGED <<definition, linked, results, transaction>>

SupersedeOthers(j) ==
    /\ pc[j] = "superseding"
    /\ ~LockedByOther(j, target[j])
    /\ held' = [held EXCEPT ![j] =
                   IF target[j] \in Active THEN @ \cup {target[j]} ELSE @]
    /\ Goto(j, "activating")
    /\ UNCHANGED <<table, results, target>>

\* Mutant: no such index.
NoUniqueIndex(j) == TRUE

\* The unique index over the active rows of a definition: an uncommitted
\* active row is waited for, and one that stays fails the statement.
UniqueActive(j) == Active \subseteq held[j]

\* Mutant: the failed transaction is left open.
LeaveOpen(j) == UNCHANGED held

Rollback(j) == held' = [held EXCEPT ![j] = {}]

\* UPDATE the own row to active; 23505 aborts the transaction.
SetActive(j) ==
    /\ pc[j] = "activating"
    /\ \A k \in Jobs : pc[k] # "publishing"
    /\ IF UniqueActive(j)
       THEN Goto(j, "publishing") /\ UNCHANGED held
       ELSE Goto(j, "rejected") /\ Rollback(j)
    /\ UNCHANGED <<table, results, target>>

\* The rows after the COMMIT of a transaction that updated its own row.
Committed(j) ==
    [r \in Jobs |->
        CASE pc[j] = "publishing" /\ r = j -> "active"
          [] pc[j] = "publishing" /\ r \in held[j] \ {j} -> "superseded"
          [] pc[j] = "retiring" /\ r = j -> "superseded"
          [] OTHER -> status[r]]

\* COMMIT.  Its answer may be lost although the database applied it.
Commit(j) ==
    /\ pc[j] \in {"publishing", "retiring"}
    /\ status' = Committed(j)
    /\ Link(j)
    /\ Rollback(j)
    /\ \/ Goto(j, "done")
       \/ "database" \in Faults /\ Goto(j, "catching")
    /\ UNCHANGED <<definition, results, target>>

\* The loser of the race becomes superseded, outside the transaction.
RecordRejected(j) ==
    /\ pc[j] = "rejected"
    /\ SetStatus(j, "superseded")
    /\ Link(j)
    /\ Goto(j, "done")
    /\ UNCHANGED <<definition, results, transaction>>

\* Any other call of the try block fails, and PostgreSQL rolls back.
CallThrows(j) ==
    /\ "database" \in Faults
    /\ pc[j] \in InTransaction
                  \cup {"attaching", "polling", "promoting", "rejected"}
    /\ Rollback(j)
    /\ Goto(j, "catching")
    /\ UNCHANGED <<table, results, target>>

\* "failing" is a check inside the try block, "catching" the catch block.
\* The row may be active already, if the answer of the COMMIT was lost, and
\* then the UPDATE waits for a promotion that has locked it.
MarkFailed(j) ==
    /\ pc[j] \in {"failing", "catching"}
    /\ ~LockedByOther(j, j)
    /\ SetStatus(j, "failed")
    /\ Goto(j, "done")
    /\ UNCHANGED <<definition, linked, results, transaction>>

MarkFailedThrows(j) ==
    /\ "database" \in Faults
    /\ pc[j] \in {"failing", "catching"}
    /\ Goto(j, IF pc[j] = "failing" THEN "catching" ELSE "done")
    /\ UNCHANGED <<table, results, transaction>>

(***************************************************************************)
(* What happens around the jobs.                                           *)
(***************************************************************************)

\* The query lands: the upload is complete before the row is READY, but a
\* Parquet upload without rows writes no file.  Without a storage the row
\* names no file.
QueryLands(j) ==
    /\ query[j] = "open"
    /\ \E t \in Times : stamp' = [stamp EXCEPT ![j] = t]
    /\ IF Storage = "none"
       THEN query' = [query EXCEPT ![j] = "unnamed"] /\ UNCHANGED stored
       ELSE /\ query' = [query EXCEPT ![j] = "ready"]
            /\ \/ stored' = stored \cup {j}
               \/ Storage = "parquet" /\ UNCHANGED stored
    /\ UNCHANGED <<table, pc, transaction>>

\* An error, an expiry, or a cancellation, of a landed query too.
QueryFails(j) ==
    /\ query[j] \in {"open", "ready", "unnamed"}
    /\ query' = [query EXCEPT ![j] = "failed"]
    /\ UNCHANGED <<table, stamp, stored, pc, transaction>>

\* cleanupBatch deletes an old query_history row, and ON DELETE SET NULL
\* unlinks the materialization.  Jobs are long over by then.
PurgeQuery(j) ==
    /\ "retention" \in Faults
    /\ pc[j] \in {"done", "dead"}
    /\ query[j] \notin {"none", "purged"}
    /\ ~LockedByOther(j, j)
    /\ query' = [query EXCEPT ![j] = "purged"]
    /\ linked' = [linked EXCEPT ![j] = FALSE]
    /\ UNCHANGED <<definition, status, stamp, stored, pc, transaction>>

\* A complete compile deletes the cached explores, and with them, by
\* ON DELETE CASCADE, the definition and its rows.  What it inserts instead
\* has another uuid, and is another instance of this module.
DropDefinition ==
    /\ "recompile" \in Faults
    /\ definition
    /\ \A j \in Jobs : held[j] = {}
    /\ definition' = FALSE
    /\ status' = [j \in Jobs |-> "none"]
    /\ linked' = [j \in Jobs |-> FALSE]
    /\ UNCHANGED <<results, pc, transaction>>

\* The scheduler worker dies: the database rolls its transaction back, and
\* maxAttempts 1 never runs the job again.
Crash(j) ==
    /\ "crash" \in Faults
    /\ pc[j] \notin {"idle", "done", "dead"}
    /\ Rollback(j)
    /\ Goto(j, "dead")
    /\ UNCHANGED <<table, results, target>>

\* What a running job does when no call fails.
Advance(j) ==
    \/ InsertInProgress(j) \/ ExecuteAsyncMetricQuery(j)
    \/ AttachQueryUuid(j) \/ QueryEnded(j) \/ PollTimesOut(j)
    \/ LockOwnRow(j) \/ SelectActive(j) \/ LockActive(j)
    \/ SelectDemoted(j) \/ SupersedeOthers(j) \/ SetActive(j)
    \/ Commit(j) \/ RecordRejected(j) \/ MarkFailed(j)

\* What it does by itself.
Run(j) ==
    \/ Advance(j)
    \/ InsertThrows(j) \/ ExecuteThrows(j) \/ CallThrows(j)
    \/ MarkFailedThrows(j)

Next ==
    \/ \E j \in Jobs :
          \/ ReadDefinition(j) \/ Run(j)
          \/ QueryLands(j) \/ QueryFails(j) \/ PurgeQuery(j) \/ Crash(j)
    \/ DropDefinition

Spec == Init /\ [][Next]_vars

\* Node resumes a job whose promise settles, PostgreSQL grants a free lock,
\* and the poll gives up after QUERY_POLL_TIMEOUT_MS even if the query, of
\* which nothing is supposed, never ends.  No call is owed a failure.
Fairness == \A j \in Jobs : WF_vars(Advance(j))

FairSpec == Spec /\ Fairness

(***************************************************************************)
(* The abstract specification, and how this one implements it.             *)
(***************************************************************************)

Phase == [j \in Jobs |-> CASE status[j] = "none" -> "none"
                            [] status[j] = "in_progress" -> "pending"
                            [] status[j] = "active" -> "active"
                            [] OTHER -> "ended"]

Switch == INSTANCE MaterializationSwitch WITH phase <- Phase

\* Four statements, their snapshots, the locks they wait for and the unique
\* index exchange the active materialization as if it were one step, for
\* one that is stored, whichever jobs are in theirs at the same time.
ImplementsSwitch == Switch!Spec

(***************************************************************************)
(* Properties.                                                             *)
(***************************************************************************)

\* One materialization is active per pre-aggregate at a time, whatever the
\* jobs that promote theirs at once do.
OneActive == \A i, k \in Active : i = k

\* The file of the active materialization is in object storage: a job only
\* promotes what its poll saw READY, and a row is READY after the upload.
ActiveIsStored == Active \subseteq stored

\* A row is never written back after a recompile dropped its definition,
\* although the jobs of the definition go on.
RowsHaveDefinition == ~definition => \A j \in Jobs : status[j] = "none"

\* A transaction holds its own row; outside of one nothing is locked.
TransactionsHoldTheirRow ==
    \A j \in Jobs : IF pc[j] \in InTransaction
                    THEN definition /\ j \in held[j]
                    ELSE held[j] = {}

\* The unique index lets one transaction at a time make its row active, and
\* that one has superseded the active row if there is one.
OnePublisher ==
    /\ \A j, k \in Jobs : pc[j] = "publishing" /\ pc[k] = "publishing" => j = k
    /\ \A j \in Jobs : pc[j] = "publishing" => Active \subseteq held[j]

\* A job that promotes has a query that landed.
PromotedIsStored ==
    \A j \in Jobs :
        pc[j] \in InTransaction \cup {"promoting", "rejected"} \/ query[j] = "ready"
            => j \in stored

\* A row becomes active with the end of its job, unless the answer of the
\* COMMIT is lost; a transaction only locks the rows of jobs that ended.
RunningIsNotActive ==
    "database" \notin Faults =>
        /\ \A j \in Jobs :
              pc[j] # "done" => status[j] \in {"none", "in_progress"}
        /\ \A j \in Jobs : \A r \in held[j] \ {j} : pc[r] = "done"

\* How far a job is says what its row may be: none when it was dropped, and
\* anything once the job ended or a COMMIT lost its answer.
RowsFollowJobs ==
    \A j \in Jobs :
        /\ pc[j] \in {"idle", "inserting"} => status[j] = "none"
        /\ pc[j] \in InTransaction => status[j] = "in_progress"
        /\ pc[j] \notin {"catching", "done", "dead"} =>
               status[j] \in {"none", "in_progress"}

\* A row is locked by one transaction, and what a promotion has locked
\* besides its own row stays active until its COMMIT.
LocksAreExclusive ==
    \A j \in Jobs : \A r \in held[j] :
        /\ r # j => status[r] = "active"
        /\ \A k \in Jobs : r \in held[k] => k = j

\* The inductive invariant.
PreAggregateInv ==
    /\ TypeOK
    /\ OneActive
    /\ OnePublisher
    /\ RowsHaveDefinition
    /\ TransactionsHoldTheirRow
    /\ RunningIsNotActive
    /\ RowsFollowJobs
    /\ LocksAreExclusive
    /\ Storage # "parquet" => ActiveIsStored /\ PromotedIsStored

\* Once a pre-aggregate can be served it always can, until it is recompiled:
\* readers never see a moment between two active materializations, whatever
\* call fails between them.  Only a job that was told that its COMMIT failed,
\* when it did not, takes its own materialization away.
StaysServed ==
    [][Active # {} /\ definition' =>
          \/ Active' # {}
          \/ \E j \in Active : pc[j] = "catching" /\ pc'[j] = "done"]_vars

\* A job ends without an answer to its row: its worker died, or, if database
\* calls may fail, the INSERT or the UPDATE of its catch block did.
LeavesItsRow(j) ==
    \/ pc[j] = "dead"
    \/ "database" \in Faults /\ pc[j] = "done"

\* No row stays in progress: neither a query that never ends, nor a row lock
\* of another promotion, nor a recompile keeps a living job from recording
\* how it ended.
MaterializationEnds ==
    \A j \in Jobs :
        status[j] = "in_progress"
            ~> status[j] # "in_progress" \/ LeavesItsRow(j)
=============================================================================
