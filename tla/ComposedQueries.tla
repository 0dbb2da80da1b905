--------------------------- MODULE ComposedQueries ---------------------------
(***************************************************************************)
(* Queries over the results of other queries.  QuerySourceService submits  *)
(* legs (queries of the semantic layer or of a warehouse) and joins        *)
(* (DuckDB SQL over the results files of the queries they reference) in    *)
(* dependency order; every submission returns at once, and a join waits    *)
(* for its references inside its own run.  Joins and pre-aggregate legs    *)
(* share one stream and its worker loops, so a join occupies a loop that   *)
(* its own legs may need.  A join is served from an earlier run over the   *)
(* same files when the results cache has one.                              *)
(*                                                                         *)
(* How one query is submitted, queued, claimed and landed is detailed in   *)
(* AsyncQuery; here a row is waiting (pending or queued), executing, ready *)
(* or failed (error, cancelled or expired).  A process is a worker loop of *)
(* the shared stream, or the run of a join in the process that submitted   *)
(* it, which is named by that join.  A results file is named by the query  *)
(* that wrote it.                                                          *)
(***************************************************************************)
EXTENDS Naturals, Sequences, FiniteSets

CONSTANTS
    Legs,           \* queries that reference no other query
    Shared,         \* the legs that ride on the stream of the joins: they
                    \* read a pre-aggregate on DuckDB; the others run elsewhere
    Joins,          \* DuckDB source queries
    Workers,        \* worker loops of the stream that DuckDB queries ride on
    Places,         \* the references of a join, by the order of their names
                    \* in the row (a JSON object that PostgreSQL normalises)
    Sqls,           \* the SQL of a join, with its parameters
    Limits,         \* the row limit of a join that discovers its columns
    Cancellable,    \* the queries a user may cancel, a bound
    Mortal,         \* the processes that may die, a bound
    NoFile,         \* results_file_name IS NULL
    NoQuery         \* a process without a job

Queries == Legs \cup Joins
Procs   == Workers \cup Joins

ASSUME ConstantsAssumption ==
    /\ Legs \cap Joins = {} /\ Shared \subseteq Legs
    /\ Workers \cap Queries = {}
    /\ NoFile \notin Queries
    /\ NoQuery \notin Queries

VARIABLES
    \* query_history, one row per query
    status, file,
    older,          \* the joins created before this one (created_at)
    keyed,          \* the joins whose cache_key is that of their files
    served,         \* duckdb_execution.cacheHit
    refused,        \* duckdb_execution.refusal is set
    \* the submissions, and what each join asks for
    sub, refs, sql, limit,
    \* NATS: the messages no loop has been given yet, in their order
    stream,
    \* executors, and what a run has read: its inputs, the cached file
    pc, on, inputs, hit

row     == <<status, file, older, keyed, served, refused>>
request == <<refs, sql, limit>>
job     == <<pc, on>>
run     == <<inputs, hit>>
vars    == <<row, sub, request, stream, job, run>>

Statuses == {"none", "waiting", "executing", "ready", "failed"}
Open     == {"waiting", "executing"}
Ended    == {"ready", "failed"}
SubmitPC == {"idle", "publish", "enqueue_failed", "returned"}
JobPC    == {"idle", "claim", "run", "build", "wait", "mark_hit", "land_hit",
             "probe", "execute"}

TypeOK ==
    /\ status \in [Queries -> Statuses]
    /\ file \in [Queries -> Queries \cup {NoFile}]
    /\ older \in [Joins -> SUBSET Joins]
    /\ keyed \subseteq Joins
    /\ served \subseteq Joins
    /\ refused \subseteq Joins
    /\ sub \in [Queries -> SubmitPC]
    /\ refs \in [Joins -> [Places -> Queries]]
    /\ sql \in [Joins -> Sqls]
    /\ limit \in [Joins -> Limits]
    /\ stream \in Seq(Queries)
    /\ pc \in [Procs -> JobPC]
    /\ on \in [Procs -> Queries \cup {NoQuery}]
    /\ inputs \in [Joins -> [Places -> Queries \cup {NoFile}]]
    /\ hit \in [Joins -> Queries \cup {NoFile}]

\* What a join asks for is arbitrary until it is submitted.
Init ==
    /\ status = [q \in Queries |-> "none"]
    /\ file = [q \in Queries |-> NoFile]
    /\ older = [q \in Joins |-> {}]
    /\ keyed = {} /\ served = {} /\ refused = {}
    /\ sub = [q \in Queries |-> "idle"]
    /\ refs = [q \in Joins |-> [t \in Places |-> CHOOSE r \in Queries : TRUE]]
    /\ sql \in [Joins -> Sqls]
    /\ limit \in [Joins -> Limits]
    /\ stream = <<>>
    /\ pc = [p \in Procs |-> "idle"]
    /\ on = [p \in Procs |-> NoQuery]
    /\ inputs = [q \in Joins |-> [t \in Places |-> NoFile]]
    /\ hit = [q \in Joins |-> NoFile]

-----------------------------------------------------------------------------
(* QueryHistoryModel.                                                      *)

Exists(q) == status[q] # "none"

Insert(q, s) == ~Exists(q) /\ status' = [status EXCEPT ![q] = s]

\* An UPDATE to error, expired or cancelled does not ask what the row was.
Fail(q) == status' = [status EXCEPT ![q] = "failed"]

\* Mutant: results land whatever became of the row.
LandAnyway(q, f) ==
    /\ status' = [status EXCEPT ![q] = "ready"]
    /\ file' = [file EXCEPT ![q] = f]

\* An UPDATE to READY is refused once the row has ended: all of it, the
\* results file and whatever else it sets.
Land(q, f) ==
    IF status[q] \in Open
    THEN /\ status' = [status EXCEPT ![q] = "ready"]
         /\ file' = [file EXCEPT ![q] = f]
    ELSE UNCHANGED <<status, file>>

-----------------------------------------------------------------------------
(* Submissions: QuerySourceService.submitQueries and what it calls.        *)

Goto(q, next) == sub' = [sub EXCEPT ![q] = next]

SubmitLeg(q) ==
    /\ q \in Legs /\ sub[q] = "idle"
    /\ Insert(q, "waiting")
    /\ Goto(q, IF q \in Shared THEN "publish" ELSE "returned")
    /\ UNCHANGED <<file, older, keyed, served, refused, request, stream, job, run>>

\* A leg is served from the results cache: a new row over the same file.
SubmitCachedLeg(q) ==
    /\ q \in Legs /\ sub[q] = "idle"
    /\ Insert(q, "ready")
    /\ \E l \in Legs : /\ file[l] # NoFile
                       /\ file' = [file EXCEPT ![q] = file[l]]
    /\ Goto(q, "returned")
    /\ UNCHANGED <<older, keyed, served, refused, request, stream, job, run>>

\* Mutant: references are resolved before the submissions are awaited.
Created == {r \in Queries : Exists(r)}

\* A node id resolves to a query_uuid once that query's submission returned;
\* a query_uuid is only known to a client whose submission returned it.
Referable == {r \in Queries : sub[r] = "returned"}

SubmitJoin(q) ==
    /\ q \in Joins /\ sub[q] = "idle"
    /\ Insert(q, "waiting")
    /\ older' = [older EXCEPT ![q] = {r \in Joins : Exists(r)}]
    /\ \E r \in [Places -> Referable] : refs' = [refs EXCEPT ![q] = r]
    /\ Goto(q, "publish")
    /\ UNCHANGED <<file, keyed, served, refused, sql, limit, stream, job, run>>

Publish(q) ==
    /\ sub[q] = "publish"
    /\ stream' = Append(stream, q)
    /\ Goto(q, "returned")
    /\ UNCHANGED <<row, request, job, run>>

\* The publish throws.  After a timeout the server may have the message.
PublishThrows(q) ==
    /\ sub[q] = "publish"
    /\ stream' \in {stream, Append(stream, q)}
    /\ Goto(q, "enqueue_failed")
    /\ UNCHANGED <<row, request, job, run>>

EnqueueFailed(q) ==
    /\ sub[q] = "enqueue_failed"
    /\ Fail(q)
    /\ Goto(q, "returned")
    /\ UNCHANGED <<file, older, keyed, served, refused, request, stream, job, run>>

\* No worker takes the subject: a join is run by the process that submits it.
Launch(q) ==
    /\ sub[q] = "publish" /\ q \in Joins
    /\ pc' = [pc EXCEPT ![q] = "claim"]
    /\ on' = [on EXCEPT ![q] = q]
    /\ Goto(q, "returned")
    /\ UNCHANGED <<row, request, stream, run>>

\* A leg of the warehouse stream or of a main loop ends as QueryLifecycle
\* says, if it ends.
EndElsewhere(q) ==
    /\ q \in Legs \ Shared /\ status[q] = "waiting"
    /\ \/ Land(q, q)
       \/ Fail(q) /\ UNCHANGED file
    /\ UNCHANGED <<older, keyed, served, refused, sub, request, stream, job, run>>

UserStep(q) == SubmitLeg(q) \/ SubmitCachedLeg(q) \/ SubmitJoin(q)

SubmitStep(q) ==
    Publish(q) \/ PublishThrows(q) \/ EnqueueFailed(q) \/ Launch(q)

-----------------------------------------------------------------------------
(* Worker loops and claims.                                                *)

JobGoto(p, next) == pc' = [pc EXCEPT ![p] = next] /\ UNCHANGED on

EndJob(p) ==
    /\ pc' = [pc EXCEPT ![p] = "idle"]
    /\ on' = [on EXCEPT ![p] = NoQuery]

\* A durable consumer hands out the messages in their order, each one once;
\* a loop fetches the next one when it has handled the last.
Fetch(w) ==
    /\ w \in Workers /\ pc[w] = "idle" /\ stream # <<>>
    /\ on' = [on EXCEPT ![w] = Head(stream)]
    /\ stream' = Tail(stream)
    /\ pc' = [pc EXCEPT ![w] = "claim"]
    /\ UNCHANGED <<row, sub, request, run>>

Claim(p) ==
    /\ pc[p] = "claim"
    /\ IF status[on[p]] = "waiting"
       THEN /\ status' = [status EXCEPT ![on[p]] = "executing"]
            /\ JobGoto(p, IF on[p] \in Legs THEN "run" ELSE "build")
       ELSE EndJob(p) /\ UNCHANGED status
    /\ UNCHANGED <<file, older, keyed, served, refused, sub, request, stream, run>>

FailJob(p) ==
    /\ Fail(on[p])
    /\ EndJob(p)
    /\ UNCHANGED <<file, older, keyed, served, refused, sub, request, stream, run>>

\* The row was queued for longer than its queue timeout.
Expire(p) ==
    /\ pc[p] = "claim" /\ status[on[p]] = "waiting"
    /\ FailJob(p)

RunLeg(p) ==
    /\ pc[p] = "run"
    /\ \/ Land(on[p], on[p])
       \/ Fail(on[p]) /\ UNCHANGED file
    /\ EndJob(p)
    /\ UNCHANGED <<older, keyed, served, refused, sub, request, stream, run>>

-----------------------------------------------------------------------------
(* The run of a join: runAsyncDuckdbQueryFromHistory, runDuckdbQuery.      *)

BuildArgs(p) ==
    /\ pc[p] = "build"
    /\ JobGoto(p, "wait")
    /\ UNCHANGED <<row, sub, request, stream, run>>

\* markClaimedQueryAsErrored: the row is claimed, so it must not stay open.
BuildThrows(p) ==
    /\ pc[p] = "build"
    /\ FailJob(p)

Unread(q) == {t \in Places : inputs[q][t] = NoFile}

\* Each reference has a poll of its own, which ends when it reads a READY
\* row: whatever happens to that row later goes unnoticed.
PollReads(p) ==
    /\ pc[p] = "wait"
    /\ \E t \in Unread(on[p]) :
          /\ status[refs[on[p]][t]] = "ready"
          /\ inputs' = [inputs EXCEPT ![on[p]][t] = file[refs[on[p]][t]]]
    /\ UNCHANGED <<row, sub, request, stream, job, hit>>

\* Whatever the run throws from here on is recorded on the row.
PollThrows(p) ==
    /\ pc[p] = "wait"
    /\ \E t \in Unread(on[p]) : status[refs[on[p]][t]] = "failed"
    /\ FailJob(p)

\* REFERENCE_WAIT_TIMEOUT_MS has passed.
WaitTimesOut(p) ==
    /\ pc[p] = "wait" /\ Unread(on[p]) # {}
    /\ FailJob(p)

IsBound(p) == pc[p] = "wait" /\ Unread(on[p]) = {}

\* A referenced results file has expired, or storage is off.
BindThrows(p) == IsBound(p) /\ FailJob(p)

\* The guard refuses: recordDuckdbRefusal sets status and refusal at once.
Refuse(p) ==
    /\ IsBound(p)
    /\ Fail(on[p])
    /\ refused' = refused \cup {on[p]}
    /\ EndJob(p)
    /\ UNCHANGED <<file, older, keyed, served, sub, request, stream, run>>

\* Mutant: the files are left out of the key.
SqlKey(q) == sql[q]

\* resultsKey: the SQL and the files in their order, but not the limit.
ResultsKey(q) == <<sql[q], inputs[q]>>

\* findMostRecentByCacheKey: whatever became of the row.
MostRecent(q) ==
    LET matching == {r \in keyed : ResultsKey(r) = ResultsKey(q)}
    IN {r \in matching : \A s \in matching : r \notin older[s]}

CacheHit(p) ==
    /\ IsBound(p)
    /\ \E r \in MostRecent(on[p]) :
          /\ file[r] # NoFile
          /\ hit' = [hit EXCEPT ![on[p]] = file[r]]
    /\ JobGoto(p, "mark_hit")
    /\ UNCHANGED <<row, sub, request, stream, inputs>>

\* No row, no longer fresh, the cache is off or is to be invalidated.
CacheMiss(p) ==
    /\ IsBound(p)
    /\ JobGoto(p, "probe")
    /\ UNCHANGED <<row, sub, request, stream, run>>

\* Mutant: the hit is not on the row when it lands.
SkipMark(p) ==
    /\ pc[p] = "mark_hit"
    /\ JobGoto(p, "land_hit")
    /\ UNCHANGED <<row, sub, request, stream, run>>

MarkDuckdbCacheHit(p) ==
    /\ pc[p] = "mark_hit"
    /\ served' = served \cup {on[p]}
    /\ JobGoto(p, "land_hit")
    /\ UNCHANGED <<status, file, older, keyed, refused, sub, request, stream, run>>

LandDuckdbCacheHit(p) ==
    /\ pc[p] = "land_hit"
    /\ Land(on[p], hit[on[p]])
    /\ keyed' = IF status[on[p]] \in Open THEN keyed \cup {on[p]} ELSE keyed
    /\ EndJob(p)
    /\ UNCHANGED <<older, served, refused, sub, request, stream, run>>

\* The columns are known (a probe may have found them): the row takes the
\* key its results will be found under, before there are any.
ResolveColumns(p) ==
    /\ pc[p] = "probe"
    /\ keyed' = keyed \cup {on[p]}
    /\ JobGoto(p, "execute")
    /\ UNCHANGED <<status, file, older, served, refused, sub, request, stream, run>>

\* runAsyncWarehouseQuery on the DuckDB client: the results are stored, then
\* the row lands on them.
LandResults(p) ==
    /\ pc[p] = "execute"
    /\ Land(on[p], on[p])
    /\ EndJob(p)
    /\ UNCHANGED <<older, keyed, served, refused, sub, request, stream, run>>

RunThrows(p) ==
    /\ pc[p] \in {"probe", "execute"}
    /\ FailJob(p)

JobStep(p) ==
    \/ Fetch(p) \/ Claim(p) \/ Expire(p) \/ RunLeg(p)
    \/ BuildArgs(p) \/ BuildThrows(p) \/ PollReads(p) \/ PollThrows(p)
    \/ BindThrows(p) \/ Refuse(p) \/ CacheHit(p) \/ CacheMiss(p)
    \/ MarkDuckdbCacheHit(p) \/ LandDuckdbCacheHit(p)
    \/ ResolveColumns(p) \/ LandResults(p) \/ RunThrows(p)

-----------------------------------------------------------------------------
(* Users and failures.                                                     *)

\* No executor is told, and a row that had ended is overwritten too.
CancelQuery(q) ==
    /\ q \in Cancellable /\ Exists(q)
    /\ Fail(q)
    /\ UNCHANGED <<file, older, keyed, served, refused, sub, request, stream,
                   job, run>>

\* The process of a run dies; its message is not handed out again.
Crash(p) ==
    /\ p \in Mortal /\ on[p] # NoQuery
    /\ EndJob(p)
    /\ UNCHANGED <<row, sub, request, stream, run>>

Next ==
    \/ \E q \in Queries : UserStep(q) \/ SubmitStep(q) \/ EndElsewhere(q) \/ CancelQuery(q)
    \/ \E p \in Procs : JobStep(p) \/ WaitTimesOut(p) \/ Crash(p)

Spec == Init /\ [][Next]_vars

\* The run of the query died, or is none of this component's.
Abandoned(q) ==
    /\ status[q] \in Open /\ sub[q] = "returned"
    /\ \A p \in Procs : on[p] # q
    /\ \A i \in DOMAIN stream : stream[i] # q

\* The event loop resumes every continuation and the consumer delivers.  A
\* wait is only assumed to time out when it is for an abandoned query: no
\* other wait may need its time-out to end.
WaitIsHopeless(p) ==
    /\ WaitTimesOut(p)
    /\ \E t \in Unread(on[p]) : Abandoned(refs[on[p]][t])

Fairness ==
    /\ \A q \in Queries : WF_vars(SubmitStep(q))
    /\ \A p \in Procs : WF_vars(JobStep(p) \/ WaitIsHopeless(p))

FairSpec == Spec /\ Fairness

-----------------------------------------------------------------------------
(* Seen through its rows it implements DerivedQueries.                     *)

Phase == [q \in Queries |-> IF status[q] \in Open THEN "open" ELSE status[q]]

\* What the file a join names was computed from.
Answer == [q \in Joins |->
              IF file[q] = NoFile THEN <<>>
                                  ELSE <<sql[file[q]], inputs[file[q]]>>]

Derived == INSTANCE DerivedQueries WITH phase <- Phase, answer <- Answer

\* Waiting, polling, binding, looking up and running take a join many steps,
\* in which its references and the rows of the cache may be cancelled: its
\* row tells as if it had been answered at once when it lands.
ImplementsDerived == Derived!Spec

-----------------------------------------------------------------------------
(* What the component promises.                                            *)

\* The results of a join, its own or an earlier run's that the cache gave
\* it, were computed by its SQL from exactly the files its references name,
\* place by place:
\* whichever rows the earlier run had referenced, and whatever happened to
\* the referenced rows since.
ResultsFollowReferences ==
    \A q \in Joins : file[q] # NoFile =>
        /\ file[q] \in Joins
        /\ sql[file[q]] = sql[q]
        /\ \A t \in Places : inputs[file[q]][t] = file[refs[q][t]]

\* Whoever polls a row can tell from it alone how the query ended: the
\* results of another run are marked as served from the cache when the row
\* names them, and a refused query failed and has no results.
OutcomeIsTold ==
    \A q \in Joins :
        /\ file[q] \notin {NoFile, q} => q \in served
        /\ q \in refused => status[q] = "failed" /\ file[q] = NoFile

\* The comment on the cache key and on its look-up (a later run over the
\* same files is served the earlier run's results): the files decide what a
\* query over results answers.  Its row limit decides too.
SameFilesSameAnswer ==
    \A q \in Joins : file[q] # NoFile => limit[file[q]] = limit[q]

\* Every join whose submission returned ends, unless the process that ran
\* it died: one that holds a worker loop never waits for a query that
\* needs this loop, and one that waits for a dead query gives up.
JoinsEnd ==
    \A q \in Joins :
        sub[q] = "returned" ~> status[q] \in Ended \/ Abandoned(q)

-----------------------------------------------------------------------------
(* The inductive invariant behind the safety properties.                   *)

\* A row that is open, or not there, names no results.
OpenHasNoFile ==
    \A q \in Queries : status[q] \notin Ended => file[q] = NoFile

\* Nothing was read for a join that is not submitted yet.
UnsubmittedIsBlank ==
    \A q \in Joins : status[q] = "none" => \A t \in Places : inputs[q][t] = NoFile

\* A process at work has a query of the right kind.
JoinPC == JobPC \ {"idle", "claim", "run"}
RunsHaveQueries ==
    \A p \in Procs :
        /\ pc[p] # "idle" => on[p] \in Queries
        /\ pc[p] = "run" => on[p] \in Legs
        /\ pc[p] \in JoinPC => on[p] \in Joins

\* One process at most has claimed a query, and until it ends, no results
\* land: what a cancellation leaves is a failed row without results.
Claimed(p) == pc[p] \notin {"idle", "claim"}
ClaimsAreExclusive ==
    \A p \in Procs : Claimed(p) =>
        /\ status[on[p]] \notin {"none", "waiting"}
        /\ file[on[p]] = NoFile
        /\ \A o \in Procs \ {p} : Claimed(o) => on[o] # on[p]

\* What a poll read is what the referenced row still names.
InputsAreFiles ==
    \A q \in Joins : \A t \in Places :
        inputs[q][t] # NoFile => inputs[q][t] = file[refs[q][t]]

\* The inputs of a run are complete from its look-up on.
BoundPC == {"mark_hit", "land_hit", "probe", "execute"}
InputsAreRead ==
    /\ \A p \in Procs : pc[p] \in BoundPC => Unread(on[p]) = {}
    /\ \A q \in keyed : Unread(q) = {}

\* A file the cache found, or a row names, is that of a run under its key.
SameKey(q, f) == f \in keyed /\ ResultsKey(f) = ResultsKey(q)

FilesMatch ==
    /\ \A q \in Joins : file[q] # NoFile => q \in keyed /\ SameKey(q, file[q])
    /\ \A p \in Procs : pc[p] \in {"mark_hit", "land_hit"} =>
          SameKey(on[p], hit[on[p]])
    /\ \A p \in Procs : pc[p] = "execute" => on[p] \in keyed

\* A hit is marked before it lands.
HitsAreMarked ==
    \A p \in Procs : pc[p] = "land_hit" => on[p] \in served

\* A file the cache found is still the file of some join.
HitsAreNamed ==
    \A p \in Procs : pc[p] \in {"mark_hit", "land_hit"} =>
        \E r \in Joins : file[r] = hit[on[p]]

\* A row is there from the first step of its submission.
SubmittedHasRow == \A q \in Queries : sub[q] = "idle" <=> status[q] = "none"

ComposedInv ==
    /\ TypeOK
    /\ OpenHasNoFile /\ UnsubmittedIsBlank
    /\ RunsHaveQueries /\ ClaimsAreExclusive
    /\ InputsAreFiles /\ InputsAreRead /\ FilesMatch
    /\ HitsAreMarked /\ HitsAreNamed /\ SubmittedHasRow
    /\ OutcomeIsTold

=============================================================================
