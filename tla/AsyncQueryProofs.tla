-------------------------- MODULE AsyncQueryProofs --------------------------
(***************************************************************************)
(* Proofs about AsyncQuery for every set of queries, workers and cache     *)
(* keys, with NATS or without it, under every combination of faults.       *)
(***************************************************************************)
EXTENDS AsyncQuery, TLAPS

\* A run writes a file of its own.
LEMMA FileOfRun ==
    ASSUME TypeOK, NEW p \in Procs, on[p] # NoQuery
    PROVE  on[p] \in Queries /\ FileOf(p) \in Files
  BY DEF TypeOK, FileOf, Files

\* The types, with the fact that a process at work has a query.
LEMMA TypeStep ==
    ASSUME TypeOK, RunsHaveQueries, [Next]_vars
    PROVE  TypeOK' /\ RunsHaveQueries'
<1>. USE DEF TypeOK, RunsHaveQueries, db, submit, job, Goto, SetStatus,
             JobGoto, EndJob, Statuses, SubmitPC, JobPC, Attempts, Procs
<1>1. ASSUME NEW q \in Queries, FindResultsCache(q)
      PROVE  TypeOK' /\ RunsHaveQueries'
  BY <1>1 DEF FindResultsCache, CachedResultsFiles, MostRecentByCacheKey
<1>2. ASSUME NEW q \in Queries, CreateRow(q)
      PROVE  TypeOK' /\ RunsHaveQueries'
  BY <1>2 DEF CreateRow
<1>3. ASSUME NEW q \in Queries, HitClaim(q)
      PROVE  TypeOK' /\ RunsHaveQueries'
  BY <1>3 DEF HitClaim, UpdateStatusToExecuting
<1>4. ASSUME NEW q \in Queries, HitReady(q)
      PROVE  TypeOK' /\ RunsHaveQueries'
  BY <1>4 DEF HitReady, UpdateToReady
<1>5. ASSUME NEW q \in Queries, RefuseQuery(q)
      PROVE  TypeOK' /\ RunsHaveQueries'
  BY <1>5 DEF RefuseQuery, UpdateStatus
<1>6. ASSUME NEW q \in Queries, ResolvePlan(q)
      PROVE  TypeOK' /\ RunsHaveQueries'
  BY <1>6 DEF ResolvePlan, Targets, Dispatch
<1>7. ASSUME NEW q \in Queries, RecordPlan(q)
      PROVE  TypeOK' /\ RunsHaveQueries'
  BY <1>7 DEF RecordPlan, Dispatch
<1>8. ASSUME NEW q \in Queries, Publish(q)
      PROVE  TypeOK' /\ RunsHaveQueries'
  BY <1>8 DEF Publish
<1>9. ASSUME NEW q \in Queries, PublishThrows(q)
      PROVE  TypeOK' /\ RunsHaveQueries'
  BY <1>9 DEF PublishThrows
<1>10. ASSUME NEW q \in Queries, MarkQueued(q)
      PROVE  TypeOK' /\ RunsHaveQueries'
  BY <1>10 DEF MarkQueued, UpdateStatusToQueued
<1>11. ASSUME NEW q \in Queries, MarkQueuedThrows(q)
      PROVE  TypeOK' /\ RunsHaveQueries'
  BY <1>11 DEF MarkQueuedThrows
<1>12. ASSUME NEW q \in Queries, EnqueueFailed(q)
      PROVE  TypeOK' /\ RunsHaveQueries'
  BY <1>12 DEF EnqueueFailed, UpdateStatus
<1>13. ASSUME NEW q \in Queries, LaunchInMainLoop(q)
      PROVE  TypeOK' /\ RunsHaveQueries'
  BY ConstantsAssumption, <1>13 DEF LaunchInMainLoop
<1>14. ASSUME NEW q \in Queries, SubmitThrows(q)
      PROVE  TypeOK' /\ RunsHaveQueries'
  BY <1>14 DEF SubmitThrows
<1>15. ASSUME NEW q \in Queries, CancelQuery(q)
      PROVE  TypeOK' /\ RunsHaveQueries'
  BY <1>15 DEF CancelQuery, UpdateStatus
<1>16. ASSUME NEW q \in Queries, ServerCrash(q)
      PROVE  TypeOK' /\ RunsHaveQueries'
  BY <1>16 DEF ServerCrash
<1>17. ASSUME NEW w \in Workers, FetchMessage(w)
      PROVE  TypeOK' /\ RunsHaveQueries'
  BY ConstantsAssumption, <1>17 DEF FetchMessage
<1>18. ASSUME NEW w \in Workers, ReadQueuedRow(w)
      PROVE  TypeOK' /\ RunsHaveQueries'
  BY <1>18 DEF ReadQueuedRow
<1>19. ASSUME NEW w \in Workers, ExpireQueuedQuery(w)
      PROVE  TypeOK' /\ RunsHaveQueries'
  BY <1>19 DEF ExpireQueuedQuery, UpdateStatusToExpired
<1>20. ASSUME NEW w \in Workers, ClaimRow(w)
      PROVE  TypeOK' /\ RunsHaveQueries'
  BY <1>20 DEF ClaimRow, UpdateStatusToExecuting
<1>21. ASSUME NEW w \in Workers, BuildArgs(w)
      PROVE  TypeOK' /\ RunsHaveQueries'
  BY <1>21 DEF BuildArgs
<1>22. ASSUME NEW w \in Workers, PrepareThrows(w)
      PROVE  TypeOK' /\ RunsHaveQueries'
  BY <1>22 DEF PrepareThrows
<1>23. ASSUME NEW w \in Workers, WorkerCrash(w)
      PROVE  TypeOK' /\ RunsHaveQueries'
  BY <1>23 DEF WorkerCrash
<1>24. ASSUME NEW p \in Procs, ExecuteQuery(p)
      PROVE  TypeOK' /\ RunsHaveQueries'
  BY <1>24 DEF ExecuteQuery
<1>25. ASSUME NEW p \in Procs, CloseStream(p)
      PROVE  TypeOK' /\ RunsHaveQueries'
  BY FileOfRun, <1>25 DEF CloseStream
<1>26. ASSUME NEW p \in Procs, CommitReady(p)
      PROVE  TypeOK' /\ RunsHaveQueries'
  BY FileOfRun, <1>26 DEF CommitReady, UpdateToReady
<1>27. ASSUME NEW p \in Procs, CommitThrows(p)
      PROVE  TypeOK' /\ RunsHaveQueries'
  BY FileOfRun, <1>27 DEF CommitThrows, UpdateToReady
<1>28. ASSUME NEW p \in Procs, FailRow(p)
      PROVE  TypeOK' /\ RunsHaveQueries'
  BY <1>28 DEF FailRow, UpdateStatus
<1>29. ASSUME NEW p \in Procs, FailExternalSource(p)
      PROVE  TypeOK' /\ RunsHaveQueries'
  BY <1>29 DEF FailExternalSource, UpdateStatus
<1>30. ASSUME NEW p \in Procs, FailRowThrows(p)
      PROVE  TypeOK' /\ RunsHaveQueries'
  BY <1>30 DEF FailRowThrows
<1>31. ASSUME NEW p \in Procs, RethrowToFallback(p)
      PROVE  TypeOK' /\ RunsHaveQueries'
  BY <1>31 DEF RethrowToFallback, PreAggAttempt
<1>32. ASSUME NEW p \in Procs, FallbackDisabled(p)
      PROVE  TypeOK' /\ RunsHaveQueries'
  BY <1>32 DEF FallbackDisabled, UpdateStatus
<1>33. ASSUME NEW p \in Procs, FallBackToWarehouse(p)
      PROVE  TypeOK' /\ RunsHaveQueries'
  BY <1>33 DEF FallBackToWarehouse
<1>34. ASSUME NEW p \in Procs, CleanUp(p)
      PROVE  TypeOK' /\ RunsHaveQueries'
  BY <1>34 DEF CleanUp
<1>35. ASSUME NEW p \in Procs, CleanUpThrows(p)
      PROVE  TypeOK' /\ RunsHaveQueries'
  BY <1>35 DEF CleanUpThrows, UpdateStatus, PreAggAttempt
<1>36. CASE NatsRestart
  BY <1>36 DEF NatsRestart
<1>37. CASE UNCHANGED vars
  BY <1>37 DEF vars
<1>. QED
  BY <1>1, <1>2, <1>3, <1>4, <1>5, <1>6, <1>7, <1>8, <1>9, <1>10, <1>11,
     <1>12, <1>13, <1>14, <1>15, <1>16, <1>17, <1>18, <1>19, <1>20, <1>21,
     <1>22, <1>23, <1>24, <1>25, <1>26, <1>27, <1>28, <1>29, <1>30, <1>31,
     <1>32, <1>33, <1>34, <1>35, <1>36, <1>37 DEF Next, SubmitStep,
     WorkerStep, RunStep

\* A query moves from its submission to the stream to one process.
LEMMA DispatchStep ==
    ASSUME TypeOK, DispatchedOnce, OneExecutor, [Next]_vars
    PROVE  DispatchedOnce' /\ OneExecutor'
<1>. USE DEF TypeOK, DispatchedOnce, OneExecutor, Undispatched, db, submit,
             job, Goto, SetStatus, JobGoto, EndJob, Procs
<1>1. ASSUME NEW q \in Queries, FindResultsCache(q)
      PROVE  DispatchedOnce' /\ OneExecutor'
  BY ConstantsAssumption, <1>1 DEF FindResultsCache
<1>2. ASSUME NEW q \in Queries, CreateRow(q)
      PROVE  DispatchedOnce' /\ OneExecutor'
  BY ConstantsAssumption, <1>2 DEF CreateRow
<1>3. ASSUME NEW q \in Queries, HitClaim(q)
      PROVE  DispatchedOnce' /\ OneExecutor'
  BY ConstantsAssumption, <1>3 DEF HitClaim
<1>4. ASSUME NEW q \in Queries, HitReady(q)
      PROVE  DispatchedOnce' /\ OneExecutor'
  BY ConstantsAssumption, <1>4 DEF HitReady
<1>5. ASSUME NEW q \in Queries, RefuseQuery(q)
      PROVE  DispatchedOnce' /\ OneExecutor'
  BY ConstantsAssumption, <1>5 DEF RefuseQuery
<1>6. ASSUME NEW q \in Queries, ResolvePlan(q)
      PROVE  DispatchedOnce' /\ OneExecutor'
  BY ConstantsAssumption, <1>6 DEF ResolvePlan, Dispatch
<1>7. ASSUME NEW q \in Queries, RecordPlan(q)
      PROVE  DispatchedOnce' /\ OneExecutor'
  BY ConstantsAssumption, <1>7 DEF RecordPlan, Dispatch
<1>8. ASSUME NEW q \in Queries, Publish(q)
      PROVE  DispatchedOnce' /\ OneExecutor'
  BY ConstantsAssumption, <1>8 DEF Publish
<1>9. ASSUME NEW q \in Queries, PublishThrows(q)
      PROVE  DispatchedOnce' /\ OneExecutor'
  BY ConstantsAssumption, <1>9 DEF PublishThrows
<1>10. ASSUME NEW q \in Queries, MarkQueued(q)
      PROVE  DispatchedOnce' /\ OneExecutor'
  BY ConstantsAssumption, <1>10 DEF MarkQueued
<1>11. ASSUME NEW q \in Queries, MarkQueuedThrows(q)
      PROVE  DispatchedOnce' /\ OneExecutor'
  BY ConstantsAssumption, <1>11 DEF MarkQueuedThrows
<1>12. ASSUME NEW q \in Queries, EnqueueFailed(q)
      PROVE  DispatchedOnce' /\ OneExecutor'
  BY ConstantsAssumption, <1>12 DEF EnqueueFailed
<1>13. ASSUME NEW q \in Queries, LaunchInMainLoop(q)
      PROVE  DispatchedOnce' /\ OneExecutor'
  BY ConstantsAssumption, <1>13 DEF LaunchInMainLoop
<1>14. ASSUME NEW q \in Queries, SubmitThrows(q)
      PROVE  DispatchedOnce' /\ OneExecutor'
  BY ConstantsAssumption, <1>14 DEF SubmitThrows
<1>15. ASSUME NEW q \in Queries, CancelQuery(q)
      PROVE  DispatchedOnce' /\ OneExecutor'
  BY <1>15 DEF CancelQuery
<1>16. ASSUME NEW q \in Queries, ServerCrash(q)
      PROVE  DispatchedOnce' /\ OneExecutor'
  BY ConstantsAssumption, <1>16 DEF ServerCrash
<1>17. ASSUME NEW w \in Workers, FetchMessage(w)
      PROVE  DispatchedOnce' /\ OneExecutor'
  BY ConstantsAssumption, <1>17 DEF FetchMessage
<1>18. ASSUME NEW w \in Workers, ReadQueuedRow(w)
      PROVE  DispatchedOnce' /\ OneExecutor'
  BY ConstantsAssumption, <1>18 DEF ReadQueuedRow
<1>19. ASSUME NEW w \in Workers, ExpireQueuedQuery(w)
      PROVE  DispatchedOnce' /\ OneExecutor'
  BY ConstantsAssumption, <1>19 DEF ExpireQueuedQuery
<1>20. ASSUME NEW w \in Workers, ClaimRow(w)
      PROVE  DispatchedOnce' /\ OneExecutor'
  BY ConstantsAssumption, <1>20 DEF ClaimRow
<1>21. ASSUME NEW w \in Workers, BuildArgs(w)
      PROVE  DispatchedOnce' /\ OneExecutor'
  BY ConstantsAssumption, <1>21 DEF BuildArgs
<1>22. ASSUME NEW w \in Workers, PrepareThrows(w)
      PROVE  DispatchedOnce' /\ OneExecutor'
  BY ConstantsAssumption, <1>22 DEF PrepareThrows
<1>23. ASSUME NEW w \in Workers, WorkerCrash(w)
      PROVE  DispatchedOnce' /\ OneExecutor'
  BY ConstantsAssumption, <1>23 DEF WorkerCrash
<1>24. ASSUME NEW p \in Procs, ExecuteQuery(p)
      PROVE  DispatchedOnce' /\ OneExecutor'
  BY ConstantsAssumption, <1>24 DEF ExecuteQuery
<1>25. ASSUME NEW p \in Procs, CloseStream(p)
      PROVE  DispatchedOnce' /\ OneExecutor'
  BY ConstantsAssumption, <1>25 DEF CloseStream
<1>26. ASSUME NEW p \in Procs, CommitReady(p)
      PROVE  DispatchedOnce' /\ OneExecutor'
  BY ConstantsAssumption, <1>26 DEF CommitReady
<1>27. ASSUME NEW p \in Procs, CommitThrows(p)
      PROVE  DispatchedOnce' /\ OneExecutor'
  BY ConstantsAssumption, <1>27 DEF CommitThrows
<1>28. ASSUME NEW p \in Procs, FailRow(p)
      PROVE  DispatchedOnce' /\ OneExecutor'
  BY ConstantsAssumption, <1>28 DEF FailRow
<1>29. ASSUME NEW p \in Procs, FailExternalSource(p)
      PROVE  DispatchedOnce' /\ OneExecutor'
  BY ConstantsAssumption, <1>29 DEF FailExternalSource
<1>30. ASSUME NEW p \in Procs, FailRowThrows(p)
      PROVE  DispatchedOnce' /\ OneExecutor'
  BY ConstantsAssumption, <1>30 DEF FailRowThrows
<1>31. ASSUME NEW p \in Procs, RethrowToFallback(p)
      PROVE  DispatchedOnce' /\ OneExecutor'
  BY ConstantsAssumption, <1>31 DEF RethrowToFallback
<1>32. ASSUME NEW p \in Procs, FallbackDisabled(p)
      PROVE  DispatchedOnce' /\ OneExecutor'
  BY ConstantsAssumption, <1>32 DEF FallbackDisabled
<1>33. ASSUME NEW p \in Procs, FallBackToWarehouse(p)
      PROVE  DispatchedOnce' /\ OneExecutor'
  BY ConstantsAssumption, <1>33 DEF FallBackToWarehouse
<1>34. ASSUME NEW p \in Procs, CleanUp(p)
      PROVE  DispatchedOnce' /\ OneExecutor'
  BY ConstantsAssumption, <1>34 DEF CleanUp
<1>35. ASSUME NEW p \in Procs, CleanUpThrows(p)
      PROVE  DispatchedOnce' /\ OneExecutor'
  BY ConstantsAssumption, <1>35 DEF CleanUpThrows
<1>36. CASE NatsRestart
  BY <1>36 DEF NatsRestart
<1>37. CASE UNCHANGED vars
  BY <1>37 DEF vars
<1>. QED
  BY <1>1, <1>2, <1>3, <1>4, <1>5, <1>6, <1>7, <1>8, <1>9, <1>10, <1>11,
     <1>12, <1>13, <1>14, <1>15, <1>16, <1>17, <1>18, <1>19, <1>20, <1>21,
     <1>22, <1>23, <1>24, <1>25, <1>26, <1>27, <1>28, <1>29, <1>30, <1>31,
     <1>32, <1>33, <1>34, <1>35, <1>36, <1>37 DEF Next, SubmitStep,
     WorkerStep, RunStep

\* Names of results come from completed uploads only.
LEMMA ResultsStep ==
    ASSUME TypeOK, RunsHaveQueries, DispatchedOnce, RowsAreNew, OpenHasNoResults,
           ResultsAreStored, HitsAreStored, CommitsAreStored, [Next]_vars
    PROVE  /\ RowsAreNew' /\ OpenHasNoResults' /\ ResultsAreStored'
           /\ HitsAreStored' /\ CommitsAreStored'
<1>. USE DEF TypeOK, RunsHaveQueries, RowsAreNew, OpenHasNoResults,
             ResultsAreStored, HitsAreStored, CommitsAreStored, Terminal,
             FileOf, db, submit, job, Goto, SetStatus, JobGoto, EndJob,
             Procs
<1>1. ASSUME NEW q \in Queries, FindResultsCache(q)
      PROVE  /\ RowsAreNew' /\ OpenHasNoResults' /\ ResultsAreStored'
           /\ HitsAreStored' /\ CommitsAreStored'
  BY <1>1 DEF FindResultsCache, CachedResultsFiles, MostRecentByCacheKey,
     Exists
<1>2. ASSUME NEW q \in Queries, CreateRow(q)
      PROVE  /\ RowsAreNew' /\ OpenHasNoResults' /\ ResultsAreStored'
           /\ HitsAreStored' /\ CommitsAreStored'
  BY <1>2 DEF CreateRow, Exists
<1>3. ASSUME NEW q \in Queries, HitClaim(q)
      PROVE  /\ RowsAreNew' /\ OpenHasNoResults' /\ ResultsAreStored'
           /\ HitsAreStored' /\ CommitsAreStored'
  BY <1>3 DEF HitClaim, UpdateStatusToExecuting, Waiting
<1>4. ASSUME NEW q \in Queries, HitReady(q)
      PROVE  /\ RowsAreNew' /\ OpenHasNoResults' /\ ResultsAreStored'
           /\ HitsAreStored' /\ CommitsAreStored'
  BY <1>4 DEF HitReady, UpdateToReady, ReadyFrom
<1>5. ASSUME NEW q \in Queries, RefuseQuery(q)
      PROVE  /\ RowsAreNew' /\ OpenHasNoResults' /\ ResultsAreStored'
           /\ HitsAreStored' /\ CommitsAreStored'
  BY <1>5 DEF RefuseQuery, UpdateStatus
<1>6. ASSUME NEW q \in Queries, ResolvePlan(q)
      PROVE  /\ RowsAreNew' /\ OpenHasNoResults' /\ ResultsAreStored'
           /\ HitsAreStored' /\ CommitsAreStored'
  BY <1>6 DEF ResolvePlan, Dispatch
<1>7. ASSUME NEW q \in Queries, RecordPlan(q)
      PROVE  /\ RowsAreNew' /\ OpenHasNoResults' /\ ResultsAreStored'
           /\ HitsAreStored' /\ CommitsAreStored'
  BY <1>7 DEF RecordPlan, Dispatch
<1>8. ASSUME NEW q \in Queries, Publish(q)
      PROVE  /\ RowsAreNew' /\ OpenHasNoResults' /\ ResultsAreStored'
           /\ HitsAreStored' /\ CommitsAreStored'
  BY <1>8 DEF Publish
<1>9. ASSUME NEW q \in Queries, PublishThrows(q)
      PROVE  /\ RowsAreNew' /\ OpenHasNoResults' /\ ResultsAreStored'
           /\ HitsAreStored' /\ CommitsAreStored'
  BY <1>9 DEF PublishThrows
<1>10. ASSUME NEW q \in Queries, MarkQueued(q)
      PROVE  /\ RowsAreNew' /\ OpenHasNoResults' /\ ResultsAreStored'
           /\ HitsAreStored' /\ CommitsAreStored'
  BY <1>10 DEF MarkQueued, UpdateStatusToQueued
<1>11. ASSUME NEW q \in Queries, MarkQueuedThrows(q)
      PROVE  /\ RowsAreNew' /\ OpenHasNoResults' /\ ResultsAreStored'
           /\ HitsAreStored' /\ CommitsAreStored'
  BY <1>11 DEF MarkQueuedThrows
<1>12. ASSUME NEW q \in Queries, EnqueueFailed(q)
      PROVE  /\ RowsAreNew' /\ OpenHasNoResults' /\ ResultsAreStored'
           /\ HitsAreStored' /\ CommitsAreStored'
  BY <1>12 DEF EnqueueFailed, UpdateStatus
<1>13. ASSUME NEW q \in Queries, LaunchInMainLoop(q)
      PROVE  /\ RowsAreNew' /\ OpenHasNoResults' /\ ResultsAreStored'
           /\ HitsAreStored' /\ CommitsAreStored'
  BY ConstantsAssumption, <1>13 DEF LaunchInMainLoop
<1>14. ASSUME NEW q \in Queries, SubmitThrows(q)
      PROVE  /\ RowsAreNew' /\ OpenHasNoResults' /\ ResultsAreStored'
           /\ HitsAreStored' /\ CommitsAreStored'
  BY <1>14 DEF SubmitThrows
<1>15. ASSUME NEW q \in Queries, CancelQuery(q)
      PROVE  /\ RowsAreNew' /\ OpenHasNoResults' /\ ResultsAreStored'
           /\ HitsAreStored' /\ CommitsAreStored'
  BY <1>15 DEF CancelQuery, Exists, UpdateStatus
<1>16. ASSUME NEW q \in Queries, ServerCrash(q)
      PROVE  /\ RowsAreNew' /\ OpenHasNoResults' /\ ResultsAreStored'
           /\ HitsAreStored' /\ CommitsAreStored'
  BY <1>16 DEF ServerCrash
<1>17. ASSUME NEW w \in Workers, FetchMessage(w)
      PROVE  /\ RowsAreNew' /\ OpenHasNoResults' /\ ResultsAreStored'
           /\ HitsAreStored' /\ CommitsAreStored'
  BY <1>17 DEF FetchMessage
<1>18. ASSUME NEW w \in Workers, ReadQueuedRow(w)
      PROVE  /\ RowsAreNew' /\ OpenHasNoResults' /\ ResultsAreStored'
           /\ HitsAreStored' /\ CommitsAreStored'
  BY <1>18 DEF ReadQueuedRow, Waiting
<1>19. ASSUME NEW w \in Workers, ExpireQueuedQuery(w)
      PROVE  /\ RowsAreNew' /\ OpenHasNoResults' /\ ResultsAreStored'
           /\ HitsAreStored' /\ CommitsAreStored'
  BY <1>19 DEF ExpireQueuedQuery, UpdateStatusToExpired, Waiting
<1>20. ASSUME NEW w \in Workers, ClaimRow(w)
      PROVE  /\ RowsAreNew' /\ OpenHasNoResults' /\ ResultsAreStored'
           /\ HitsAreStored' /\ CommitsAreStored'
  BY <1>20 DEF ClaimRow, UpdateStatusToExecuting, Waiting
<1>21. ASSUME NEW w \in Workers, BuildArgs(w)
      PROVE  /\ RowsAreNew' /\ OpenHasNoResults' /\ ResultsAreStored'
           /\ HitsAreStored' /\ CommitsAreStored'
  BY <1>21 DEF BuildArgs
<1>22. ASSUME NEW w \in Workers, PrepareThrows(w)
      PROVE  /\ RowsAreNew' /\ OpenHasNoResults' /\ ResultsAreStored'
           /\ HitsAreStored' /\ CommitsAreStored'
  BY <1>22 DEF PrepareThrows
<1>23. ASSUME NEW w \in Workers, WorkerCrash(w)
      PROVE  /\ RowsAreNew' /\ OpenHasNoResults' /\ ResultsAreStored'
           /\ HitsAreStored' /\ CommitsAreStored'
  BY <1>23 DEF WorkerCrash
<1>24. ASSUME NEW p \in Procs, ExecuteQuery(p)
      PROVE  /\ RowsAreNew' /\ OpenHasNoResults' /\ ResultsAreStored'
           /\ HitsAreStored' /\ CommitsAreStored'
  BY <1>24 DEF ExecuteQuery
<1>25. ASSUME NEW p \in Procs, CloseStream(p)
      PROVE  /\ RowsAreNew' /\ OpenHasNoResults' /\ ResultsAreStored'
           /\ HitsAreStored' /\ CommitsAreStored'
  BY <1>25 DEF CloseStream
<1>26. ASSUME NEW p \in Procs, CommitReady(p)
      PROVE  /\ RowsAreNew' /\ OpenHasNoResults' /\ ResultsAreStored'
           /\ HitsAreStored' /\ CommitsAreStored'
  <2>1. on[p] \in Queries /\ FileOf(p) \in stored /\ FileOf(p) # NoFile
    BY <1>26, FileOfRun, ConstantsAssumption DEF CommitReady
  <2>. QED  BY <1>26, <2>1 DEF CommitReady, UpdateToReady, ReadyFrom
<1>27. ASSUME NEW p \in Procs, CommitThrows(p)
      PROVE  /\ RowsAreNew' /\ OpenHasNoResults' /\ ResultsAreStored'
           /\ HitsAreStored' /\ CommitsAreStored'
  <2>1. on[p] \in Queries /\ FileOf(p) \in stored /\ FileOf(p) # NoFile
    BY <1>27, FileOfRun, ConstantsAssumption DEF CommitThrows
  <2>. QED  BY <1>27, <2>1 DEF CommitThrows, UpdateToReady, ReadyFrom
<1>28. ASSUME NEW p \in Procs, FailRow(p)
      PROVE  /\ RowsAreNew' /\ OpenHasNoResults' /\ ResultsAreStored'
           /\ HitsAreStored' /\ CommitsAreStored'
  BY <1>28 DEF FailRow, UpdateStatus, DispatchedOnce, Undispatched
<1>29. ASSUME NEW p \in Procs, FailExternalSource(p)
      PROVE  /\ RowsAreNew' /\ OpenHasNoResults' /\ ResultsAreStored'
           /\ HitsAreStored' /\ CommitsAreStored'
  BY <1>29 DEF FailExternalSource, UpdateStatus, DispatchedOnce,
     Undispatched
<1>30. ASSUME NEW p \in Procs, FailRowThrows(p)
      PROVE  /\ RowsAreNew' /\ OpenHasNoResults' /\ ResultsAreStored'
           /\ HitsAreStored' /\ CommitsAreStored'
  BY <1>30 DEF FailRowThrows
<1>31. ASSUME NEW p \in Procs, RethrowToFallback(p)
      PROVE  /\ RowsAreNew' /\ OpenHasNoResults' /\ ResultsAreStored'
           /\ HitsAreStored' /\ CommitsAreStored'
  BY <1>31 DEF RethrowToFallback
<1>32. ASSUME NEW p \in Procs, FallbackDisabled(p)
      PROVE  /\ RowsAreNew' /\ OpenHasNoResults' /\ ResultsAreStored'
           /\ HitsAreStored' /\ CommitsAreStored'
  BY <1>32 DEF FallbackDisabled, UpdateStatus, DispatchedOnce, Undispatched
<1>33. ASSUME NEW p \in Procs, FallBackToWarehouse(p)
      PROVE  /\ RowsAreNew' /\ OpenHasNoResults' /\ ResultsAreStored'
           /\ HitsAreStored' /\ CommitsAreStored'
  BY <1>33 DEF FallBackToWarehouse
<1>34. ASSUME NEW p \in Procs, CleanUp(p)
      PROVE  /\ RowsAreNew' /\ OpenHasNoResults' /\ ResultsAreStored'
           /\ HitsAreStored' /\ CommitsAreStored'
  BY <1>34 DEF CleanUp
<1>35. ASSUME NEW p \in Procs, CleanUpThrows(p)
      PROVE  /\ RowsAreNew' /\ OpenHasNoResults' /\ ResultsAreStored'
           /\ HitsAreStored' /\ CommitsAreStored'
  BY <1>35 DEF CleanUpThrows, UpdateStatus, DispatchedOnce, Undispatched
<1>36. CASE NatsRestart
  BY <1>36 DEF NatsRestart
<1>37. CASE UNCHANGED vars
  BY <1>37 DEF vars
<1>. QED
  BY <1>1, <1>2, <1>3, <1>4, <1>5, <1>6, <1>7, <1>8, <1>9, <1>10, <1>11,
     <1>12, <1>13, <1>14, <1>15, <1>16, <1>17, <1>18, <1>19, <1>20, <1>21,
     <1>22, <1>23, <1>24, <1>25, <1>26, <1>27, <1>28, <1>29, <1>30, <1>31,
     <1>32, <1>33, <1>34, <1>35, <1>36, <1>37 DEF Next, SubmitStep,
     WorkerStep, RunStep

\* A claim lasts as long as the worker runs the query.
LEMMA ClaimStep ==
    ASSUME TypeOK, RunsHaveQueries, RowsAreNew, ClaimHolds, [Next]_vars
    PROVE  ClaimHolds'
<1>. USE DEF TypeOK, RunsHaveQueries, RowsAreNew, ClaimHolds, Claimed,
             Waiting, db, submit, job, Goto, SetStatus, JobGoto, EndJob,
             Procs
<1>1. ASSUME NEW q \in Queries, FindResultsCache(q)
      PROVE  ClaimHolds'
  BY <1>1 DEF FindResultsCache
<1>2. ASSUME NEW q \in Queries, CreateRow(q)
      PROVE  ClaimHolds'
  BY <1>2 DEF CreateRow
<1>3. ASSUME NEW q \in Queries, HitClaim(q)
      PROVE  ClaimHolds'
  BY <1>3 DEF HitClaim, UpdateStatusToExecuting
<1>4. ASSUME NEW q \in Queries, HitReady(q)
      PROVE  ClaimHolds'
  BY <1>4 DEF HitReady, UpdateToReady, ReadyFrom
<1>5. ASSUME NEW q \in Queries, RefuseQuery(q)
      PROVE  ClaimHolds'
  BY <1>5 DEF RefuseQuery, UpdateStatus
<1>6. ASSUME NEW q \in Queries, ResolvePlan(q)
      PROVE  ClaimHolds'
  BY <1>6 DEF ResolvePlan, Dispatch
<1>7. ASSUME NEW q \in Queries, RecordPlan(q)
      PROVE  ClaimHolds'
  BY <1>7 DEF RecordPlan, Dispatch
<1>8. ASSUME NEW q \in Queries, Publish(q)
      PROVE  ClaimHolds'
  BY <1>8 DEF Publish
<1>9. ASSUME NEW q \in Queries, PublishThrows(q)
      PROVE  ClaimHolds'
  BY <1>9 DEF PublishThrows
<1>10. ASSUME NEW q \in Queries, MarkQueued(q)
      PROVE  ClaimHolds'
  BY <1>10 DEF MarkQueued, UpdateStatusToQueued
<1>11. ASSUME NEW q \in Queries, MarkQueuedThrows(q)
      PROVE  ClaimHolds'
  BY <1>11 DEF MarkQueuedThrows
<1>12. ASSUME NEW q \in Queries, EnqueueFailed(q)
      PROVE  ClaimHolds'
  BY <1>12 DEF EnqueueFailed, UpdateStatus
<1>13. ASSUME NEW q \in Queries, LaunchInMainLoop(q)
      PROVE  ClaimHolds'
  BY ConstantsAssumption, <1>13 DEF LaunchInMainLoop
<1>14. ASSUME NEW q \in Queries, SubmitThrows(q)
      PROVE  ClaimHolds'
  BY <1>14 DEF SubmitThrows
<1>15. ASSUME NEW q \in Queries, CancelQuery(q)
      PROVE  ClaimHolds'
  BY <1>15 DEF CancelQuery, UpdateStatus
<1>16. ASSUME NEW q \in Queries, ServerCrash(q)
      PROVE  ClaimHolds'
  BY ConstantsAssumption, <1>16 DEF ServerCrash
<1>17. ASSUME NEW w \in Workers, FetchMessage(w)
      PROVE  ClaimHolds'
  BY <1>17 DEF FetchMessage
<1>18. ASSUME NEW w \in Workers, ReadQueuedRow(w)
      PROVE  ClaimHolds'
  BY <1>18 DEF ReadQueuedRow
<1>19. ASSUME NEW w \in Workers, ExpireQueuedQuery(w)
      PROVE  ClaimHolds'
  BY <1>19 DEF ExpireQueuedQuery, UpdateStatusToExpired
<1>20. ASSUME NEW w \in Workers, ClaimRow(w)
      PROVE  ClaimHolds'
  BY <1>20 DEF ClaimRow, UpdateStatusToExecuting
<1>21. ASSUME NEW w \in Workers, BuildArgs(w)
      PROVE  ClaimHolds'
  BY <1>21 DEF BuildArgs
<1>22. ASSUME NEW w \in Workers, PrepareThrows(w)
      PROVE  ClaimHolds'
  BY <1>22 DEF PrepareThrows
<1>23. ASSUME NEW w \in Workers, WorkerCrash(w)
      PROVE  ClaimHolds'
  BY <1>23 DEF WorkerCrash
<1>24. ASSUME NEW p \in Procs, ExecuteQuery(p)
      PROVE  ClaimHolds'
  BY <1>24 DEF ExecuteQuery
<1>25. ASSUME NEW p \in Procs, CloseStream(p)
      PROVE  ClaimHolds'
  BY <1>25 DEF CloseStream
<1>26. ASSUME NEW p \in Procs, CommitReady(p)
      PROVE  ClaimHolds'
  BY <1>26 DEF CommitReady, UpdateToReady, ReadyFrom
<1>27. ASSUME NEW p \in Procs, CommitThrows(p)
      PROVE  ClaimHolds'
  BY <1>27 DEF CommitThrows, UpdateToReady, ReadyFrom
<1>28. ASSUME NEW p \in Procs, FailRow(p)
      PROVE  ClaimHolds'
  BY <1>28 DEF FailRow, UpdateStatus
<1>29. ASSUME NEW p \in Procs, FailExternalSource(p)
      PROVE  ClaimHolds'
  BY <1>29 DEF FailExternalSource, UpdateStatus
<1>30. ASSUME NEW p \in Procs, FailRowThrows(p)
      PROVE  ClaimHolds'
  BY <1>30 DEF FailRowThrows
<1>31. ASSUME NEW p \in Procs, RethrowToFallback(p)
      PROVE  ClaimHolds'
  BY <1>31 DEF RethrowToFallback
<1>32. ASSUME NEW p \in Procs, FallbackDisabled(p)
      PROVE  ClaimHolds'
  BY <1>32 DEF FallbackDisabled, UpdateStatus
<1>33. ASSUME NEW p \in Procs, FallBackToWarehouse(p)
      PROVE  ClaimHolds'
  BY <1>33 DEF FallBackToWarehouse
<1>34. ASSUME NEW p \in Procs, CleanUp(p)
      PROVE  ClaimHolds'
  BY <1>34 DEF CleanUp
<1>35. ASSUME NEW p \in Procs, CleanUpThrows(p)
      PROVE  ClaimHolds'
  BY <1>35 DEF CleanUpThrows, UpdateStatus
<1>36. CASE NatsRestart
  BY <1>36 DEF NatsRestart
<1>37. CASE UNCHANGED vars
  BY <1>37 DEF vars
<1>. QED
  BY <1>1, <1>2, <1>3, <1>4, <1>5, <1>6, <1>7, <1>8, <1>9, <1>10, <1>11,
     <1>12, <1>13, <1>14, <1>15, <1>16, <1>17, <1>18, <1>19, <1>20, <1>21,
     <1>22, <1>23, <1>24, <1>25, <1>26, <1>27, <1>28, <1>29, <1>30, <1>31,
     <1>32, <1>33, <1>34, <1>35, <1>36, <1>37 DEF Next, SubmitStep,
     WorkerStep, RunStep

\* Rows are inserted before their query is dispatched.
LEMMA RowsStep ==
    ASSUME TypeOK, RunsHaveQueries, RowsAreNew, DispatchedHasRow, [Next]_vars
    PROVE  DispatchedHasRow'
<1>. USE DEF TypeOK, RunsHaveQueries, RowsAreNew, DispatchedHasRow, Exists,
             db, submit, job, Goto, SetStatus, JobGoto, EndJob, Procs
<1>1. ASSUME NEW q \in Queries, FindResultsCache(q)
      PROVE  DispatchedHasRow'
  BY <1>1 DEF FindResultsCache
<1>2. ASSUME NEW q \in Queries, CreateRow(q)
      PROVE  DispatchedHasRow'
  BY <1>2 DEF CreateRow
<1>3. ASSUME NEW q \in Queries, HitClaim(q)
      PROVE  DispatchedHasRow'
  BY <1>3 DEF HitClaim, UpdateStatusToExecuting
<1>4. ASSUME NEW q \in Queries, HitReady(q)
      PROVE  DispatchedHasRow'
  BY <1>4 DEF HitReady, UpdateToReady
<1>5. ASSUME NEW q \in Queries, RefuseQuery(q)
      PROVE  DispatchedHasRow'
  BY <1>5 DEF RefuseQuery, UpdateStatus
<1>6. ASSUME NEW q \in Queries, ResolvePlan(q)
      PROVE  DispatchedHasRow'
  BY <1>6 DEF ResolvePlan, Dispatch
<1>7. ASSUME NEW q \in Queries, RecordPlan(q)
      PROVE  DispatchedHasRow'
  BY <1>7 DEF RecordPlan, Dispatch
<1>8. ASSUME NEW q \in Queries, Publish(q)
      PROVE  DispatchedHasRow'
  BY <1>8 DEF Publish
<1>9. ASSUME NEW q \in Queries, PublishThrows(q)
      PROVE  DispatchedHasRow'
  BY <1>9 DEF PublishThrows
<1>10. ASSUME NEW q \in Queries, MarkQueued(q)
      PROVE  DispatchedHasRow'
  BY <1>10 DEF MarkQueued, UpdateStatusToQueued
<1>11. ASSUME NEW q \in Queries, MarkQueuedThrows(q)
      PROVE  DispatchedHasRow'
  BY <1>11 DEF MarkQueuedThrows
<1>12. ASSUME NEW q \in Queries, EnqueueFailed(q)
      PROVE  DispatchedHasRow'
  BY <1>12 DEF EnqueueFailed, UpdateStatus
<1>13. ASSUME NEW q \in Queries, LaunchInMainLoop(q)
      PROVE  DispatchedHasRow'
  BY <1>13 DEF LaunchInMainLoop
<1>14. ASSUME NEW q \in Queries, SubmitThrows(q)
      PROVE  DispatchedHasRow'
  BY <1>14 DEF SubmitThrows
<1>15. ASSUME NEW q \in Queries, CancelQuery(q)
      PROVE  DispatchedHasRow'
  BY <1>15 DEF CancelQuery, UpdateStatus
<1>16. ASSUME NEW q \in Queries, ServerCrash(q)
      PROVE  DispatchedHasRow'
  BY <1>16 DEF ServerCrash
<1>17. ASSUME NEW w \in Workers, FetchMessage(w)
      PROVE  DispatchedHasRow'
  BY <1>17 DEF FetchMessage
<1>18. ASSUME NEW w \in Workers, ReadQueuedRow(w)
      PROVE  DispatchedHasRow'
  BY <1>18 DEF ReadQueuedRow
<1>19. ASSUME NEW w \in Workers, ExpireQueuedQuery(w)
      PROVE  DispatchedHasRow'
  BY <1>19 DEF ExpireQueuedQuery, UpdateStatusToExpired
<1>20. ASSUME NEW w \in Workers, ClaimRow(w)
      PROVE  DispatchedHasRow'
  BY <1>20 DEF ClaimRow, UpdateStatusToExecuting
<1>21. ASSUME NEW w \in Workers, BuildArgs(w)
      PROVE  DispatchedHasRow'
  BY <1>21 DEF BuildArgs
<1>22. ASSUME NEW w \in Workers, PrepareThrows(w)
      PROVE  DispatchedHasRow'
  BY <1>22 DEF PrepareThrows
<1>23. ASSUME NEW w \in Workers, WorkerCrash(w)
      PROVE  DispatchedHasRow'
  BY <1>23 DEF WorkerCrash
<1>24. ASSUME NEW p \in Procs, ExecuteQuery(p)
      PROVE  DispatchedHasRow'
  BY <1>24 DEF ExecuteQuery
<1>25. ASSUME NEW p \in Procs, CloseStream(p)
      PROVE  DispatchedHasRow'
  BY <1>25 DEF CloseStream
<1>26. ASSUME NEW p \in Procs, CommitReady(p)
      PROVE  DispatchedHasRow'
  BY <1>26 DEF CommitReady, UpdateToReady
<1>27. ASSUME NEW p \in Procs, CommitThrows(p)
      PROVE  DispatchedHasRow'
  BY <1>27 DEF CommitThrows, UpdateToReady
<1>28. ASSUME NEW p \in Procs, FailRow(p)
      PROVE  DispatchedHasRow'
  BY <1>28 DEF FailRow, UpdateStatus
<1>29. ASSUME NEW p \in Procs, FailExternalSource(p)
      PROVE  DispatchedHasRow'
  BY <1>29 DEF FailExternalSource, UpdateStatus
<1>30. ASSUME NEW p \in Procs, FailRowThrows(p)
      PROVE  DispatchedHasRow'
  BY <1>30 DEF FailRowThrows
<1>31. ASSUME NEW p \in Procs, RethrowToFallback(p)
      PROVE  DispatchedHasRow'
  BY <1>31 DEF RethrowToFallback
<1>32. ASSUME NEW p \in Procs, FallbackDisabled(p)
      PROVE  DispatchedHasRow'
  BY <1>32 DEF FallbackDisabled, UpdateStatus
<1>33. ASSUME NEW p \in Procs, FallBackToWarehouse(p)
      PROVE  DispatchedHasRow'
  BY <1>33 DEF FallBackToWarehouse
<1>34. ASSUME NEW p \in Procs, CleanUp(p)
      PROVE  DispatchedHasRow'
  BY <1>34 DEF CleanUp
<1>35. ASSUME NEW p \in Procs, CleanUpThrows(p)
      PROVE  DispatchedHasRow'
  BY <1>35 DEF CleanUpThrows, UpdateStatus
<1>36. CASE NatsRestart
  BY <1>36 DEF NatsRestart
<1>37. CASE UNCHANGED vars
  BY <1>37 DEF vars
<1>. QED
  BY <1>1, <1>2, <1>3, <1>4, <1>5, <1>6, <1>7, <1>8, <1>9, <1>10, <1>11,
     <1>12, <1>13, <1>14, <1>15, <1>16, <1>17, <1>18, <1>19, <1>20, <1>21,
     <1>22, <1>23, <1>24, <1>25, <1>26, <1>27, <1>28, <1>29, <1>30, <1>31,
     <1>32, <1>33, <1>34, <1>35, <1>36, <1>37 DEF Next, SubmitStep,
     WorkerStep, RunStep

\* What one step may do to the rows and to the results storage: nothing, one
\* completed upload, or one guarded UPDATE of one row.
RowEffect ==
    \/ UNCHANGED <<status, resultsFile, stored>>
    \/ /\ \E f \in Files : stored' = stored \cup {f}
       /\ UNCHANGED <<status, resultsFile>>
    \/ /\ UNCHANGED <<resultsFile, stored>>
       /\ \E q \in Queries :
             \/ status[q] = "none" /\ SetStatus(q, "pending")
             \/ /\ status[q] \in Waiting
                /\ \E s \in {"queued", "executing", "expired"} : SetStatus(q, s)
             \/ /\ status[q] # "none"
                /\ \E s \in {"error", "cancelled"} : SetStatus(q, s)
    \/ /\ UNCHANGED stored
       /\ \E q \in Queries, f \in stored :
             /\ status[q] \in ReadyFrom
             /\ SetStatus(q, "ready")
             /\ resultsFile' = [resultsFile EXCEPT ![q] = f]

\* Every step has one of those effects.
LEMMA RowStep ==
    ASSUME TypeOK, RunsHaveQueries, RowsAreNew, DispatchedHasRow, HitsAreStored,
           CommitsAreStored, [Next]_vars
    PROVE  RowEffect
<1>. USE DEF TypeOK, RunsHaveQueries, RowsAreNew, DispatchedHasRow,
             HitsAreStored, CommitsAreStored, RowEffect, Waiting, ReadyFrom,
             Exists, db, submit, job, Goto, SetStatus, JobGoto, EndJob,
             Procs
<1>1. ASSUME NEW q \in Queries, FindResultsCache(q)
      PROVE  RowEffect
  BY <1>1 DEF FindResultsCache
<1>2. ASSUME NEW q \in Queries, CreateRow(q)
      PROVE  RowEffect
  BY <1>2 DEF CreateRow
<1>3. ASSUME NEW q \in Queries, HitClaim(q)
      PROVE  RowEffect
  BY <1>3 DEF HitClaim, UpdateStatusToExecuting
<1>4. ASSUME NEW q \in Queries, HitReady(q)
      PROVE  RowEffect
  BY <1>4 DEF HitReady, UpdateToReady
<1>5. ASSUME NEW q \in Queries, RefuseQuery(q)
      PROVE  RowEffect
  BY <1>5 DEF RefuseQuery, UpdateStatus
<1>6. ASSUME NEW q \in Queries, ResolvePlan(q)
      PROVE  RowEffect
  BY <1>6 DEF ResolvePlan, Dispatch
<1>7. ASSUME NEW q \in Queries, RecordPlan(q)
      PROVE  RowEffect
  BY <1>7 DEF RecordPlan, Dispatch
<1>8. ASSUME NEW q \in Queries, Publish(q)
      PROVE  RowEffect
  BY <1>8 DEF Publish
<1>9. ASSUME NEW q \in Queries, PublishThrows(q)
      PROVE  RowEffect
  BY <1>9 DEF PublishThrows
<1>10. ASSUME NEW q \in Queries, MarkQueued(q)
      PROVE  RowEffect
  BY <1>10 DEF MarkQueued, UpdateStatusToQueued
<1>11. ASSUME NEW q \in Queries, MarkQueuedThrows(q)
      PROVE  RowEffect
  BY <1>11 DEF MarkQueuedThrows
<1>12. ASSUME NEW q \in Queries, EnqueueFailed(q)
      PROVE  RowEffect
  BY <1>12 DEF EnqueueFailed, UpdateStatus
<1>13. ASSUME NEW q \in Queries, LaunchInMainLoop(q)
      PROVE  RowEffect
  BY <1>13 DEF LaunchInMainLoop
<1>14. ASSUME NEW q \in Queries, SubmitThrows(q)
      PROVE  RowEffect
  BY <1>14 DEF SubmitThrows
<1>15. ASSUME NEW q \in Queries, CancelQuery(q)
      PROVE  RowEffect
  BY <1>15 DEF CancelQuery, UpdateStatus
<1>16. ASSUME NEW q \in Queries, ServerCrash(q)
      PROVE  RowEffect
  BY <1>16 DEF ServerCrash
<1>17. ASSUME NEW w \in Workers, FetchMessage(w)
      PROVE  RowEffect
  BY <1>17 DEF FetchMessage
<1>18. ASSUME NEW w \in Workers, ReadQueuedRow(w)
      PROVE  RowEffect
  BY <1>18 DEF ReadQueuedRow
<1>19. ASSUME NEW w \in Workers, ExpireQueuedQuery(w)
      PROVE  RowEffect
  BY <1>19 DEF ExpireQueuedQuery, UpdateStatusToExpired
<1>20. ASSUME NEW w \in Workers, ClaimRow(w)
      PROVE  RowEffect
  BY <1>20 DEF ClaimRow, UpdateStatusToExecuting
<1>21. ASSUME NEW w \in Workers, BuildArgs(w)
      PROVE  RowEffect
  BY <1>21 DEF BuildArgs
<1>22. ASSUME NEW w \in Workers, PrepareThrows(w)
      PROVE  RowEffect
  BY <1>22 DEF PrepareThrows
<1>23. ASSUME NEW w \in Workers, WorkerCrash(w)
      PROVE  RowEffect
  BY <1>23 DEF WorkerCrash
<1>24. ASSUME NEW p \in Procs, ExecuteQuery(p)
      PROVE  RowEffect
  BY <1>24 DEF ExecuteQuery
<1>25. ASSUME NEW p \in Procs, CloseStream(p)
      PROVE  RowEffect
  <2>1. on[p] \in Queries /\ FileOf(p) \in Files
    BY <1>25, FileOfRun DEF CloseStream
  <2>. QED  BY <1>25, <2>1 DEF CloseStream
<1>26. ASSUME NEW p \in Procs, CommitReady(p)
      PROVE  RowEffect
  <2>1. on[p] \in Queries /\ FileOf(p) \in stored
    BY <1>26 DEF CommitReady
  <2>. QED  BY <1>26, <2>1 DEF CommitReady, UpdateToReady
<1>27. ASSUME NEW p \in Procs, CommitThrows(p)
      PROVE  RowEffect
  <2>1. on[p] \in Queries /\ FileOf(p) \in stored
    BY <1>27 DEF CommitThrows
  <2>. QED  BY <1>27, <2>1 DEF CommitThrows, UpdateToReady
<1>28. ASSUME NEW p \in Procs, FailRow(p)
      PROVE  RowEffect
  <2>1. on[p] \in Queries /\ status[on[p]] # "none"
    BY <1>28 DEF FailRow
  <2>. QED  BY <1>28, <2>1 DEF FailRow, UpdateStatus
<1>29. ASSUME NEW p \in Procs, FailExternalSource(p)
      PROVE  RowEffect
  <2>1. on[p] \in Queries /\ status[on[p]] # "none"
    BY <1>29 DEF FailExternalSource
  <2>. QED  BY <1>29, <2>1 DEF FailExternalSource, UpdateStatus
<1>30. ASSUME NEW p \in Procs, FailRowThrows(p)
      PROVE  RowEffect
  BY <1>30 DEF FailRowThrows
<1>31. ASSUME NEW p \in Procs, RethrowToFallback(p)
      PROVE  RowEffect
  BY <1>31 DEF RethrowToFallback
<1>32. ASSUME NEW p \in Procs, FallbackDisabled(p)
      PROVE  RowEffect
  <2>1. on[p] \in Queries /\ status[on[p]] # "none"
    BY <1>32 DEF FallbackDisabled
  <2>. QED  BY <1>32, <2>1 DEF FallbackDisabled, UpdateStatus
<1>33. ASSUME NEW p \in Procs, FallBackToWarehouse(p)
      PROVE  RowEffect
  BY <1>33 DEF FallBackToWarehouse
<1>34. ASSUME NEW p \in Procs, CleanUp(p)
      PROVE  RowEffect
  BY <1>34 DEF CleanUp
<1>35. ASSUME NEW p \in Procs, CleanUpThrows(p)
      PROVE  RowEffect
  <2>1. on[p] \in Queries /\ status[on[p]] # "none"
    BY <1>35 DEF CleanUpThrows
  <2>. QED  BY <1>35, <2>1 DEF CleanUpThrows, UpdateStatus
<1>36. CASE NatsRestart
  BY <1>36 DEF NatsRestart
<1>37. CASE UNCHANGED vars
  BY <1>37 DEF vars
<1>. QED
  BY <1>1, <1>2, <1>3, <1>4, <1>5, <1>6, <1>7, <1>8, <1>9, <1>10, <1>11,
     <1>12, <1>13, <1>14, <1>15, <1>16, <1>17, <1>18, <1>19, <1>20, <1>21,
     <1>22, <1>23, <1>24, <1>25, <1>26, <1>27, <1>28, <1>29, <1>30, <1>31,
     <1>32, <1>33, <1>34, <1>35, <1>36, <1>37 DEF Next, SubmitStep,
     WorkerStep, RunStep

LEMMA InitInvariant == Init => IInv
<1>. SUFFICES ASSUME Init PROVE IInv
  OBVIOUS
<1>. USE ConstantsAssumption DEF Init
<1>1. TypeOK
  BY DEF TypeOK, Statuses, SubmitPC, JobPC, Targets, Attempts
<1>2. ResultsAreStored /\ RowsAreNew /\ OpenHasNoResults /\ HitsAreStored
  BY DEF ResultsAreStored, RowsAreNew, OpenHasNoResults, HitsAreStored
<1>3. RunsHaveQueries /\ CommitsAreStored /\ OneExecutor /\ ClaimHolds
  BY DEF RunsHaveQueries, CommitsAreStored, OneExecutor, ClaimHolds, Claimed,
         Procs
<1>4. DispatchedHasRow /\ DispatchedOnce
  BY DEF DispatchedHasRow, DispatchedOnce
<1>. QED  BY <1>1, <1>2, <1>3, <1>4 DEF IInv

\* The inductive invariant holds of every reachable state.
THEOREM Invariance == Spec => []IInv
<1>1. IInv /\ [Next]_vars => IInv'
  BY TypeStep, DispatchStep, RowsStep, ResultsStep, ClaimStep DEF IInv
<1>. QED  BY <1>1, InitInvariant, PTL DEF Spec

\* Every variable keeps its type.
THEOREM TypeCorrect == Spec => []TypeOK
  BY Invariance, PTL DEF IInv

\* A row only ever names a results file whose upload has completed, and a
\* READY row names one (runAsyncWarehouseQuery, findResultsCache).
THEOREM ResultsCorrect == Spec => []ResultsAreStored
  BY Invariance, PTL DEF IInv

\* No two processes ever hold the same query (NatsClient.enqueue,
\* executePreparedAsyncQuery, runAsyncPreAggregateQuery).
THEOREM ExecutionIsExclusive == Spec => []OneExecutor
  BY Invariance, PTL DEF IInv

\* The claim of a worker is not undone while it runs the query
\* (updateStatusToQueued, updateStatusToExpired).
THEOREM ClaimIsKept == Spec => []ClaimHolds
  BY Invariance, PTL DEF IInv

\* The results a row names are never exchanged for others.
THEOREM ResultsAreFinal == Spec => ResultsNeverChange
<1>1. IInv /\ [Next]_vars =>
        [\A q \in Queries :
            resultsFile[q] # NoFile => resultsFile'[q] = resultsFile[q]]_vars
  <2>. SUFFICES ASSUME IInv, [Next]_vars, NEW q \in Queries,
                       resultsFile[q] # NoFile
                PROVE  resultsFile'[q] = resultsFile[q]
    OBVIOUS
  <2>1. RowEffect
    BY RowStep DEF IInv
  <2>. QED
    BY <2>1 DEF RowEffect, IInv, TypeOK, OpenHasNoResults, Terminal, ReadyFrom
<1>. QED  BY <1>1, Invariance, PTL DEF Spec, ResultsNeverChange

\* A query that ended may only be overwritten by an error or a cancellation.
THEOREM EndIsKept == Spec => EndedStaysEnded
<1>1. IInv /\ [Next]_vars =>
        [\A q \in Queries :
            status[q] \in Terminal /\ status'[q] # status[q]
               => status'[q] \in {"error", "cancelled"}]_vars
  <2>. SUFFICES ASSUME IInv, [Next]_vars, NEW q \in Queries,
                       status[q] \in Terminal, status'[q] # status[q]
                PROVE  status'[q] \in {"error", "cancelled"}
    OBVIOUS
  <2>1. RowEffect
    BY RowStep DEF IInv
  <2>. QED
    BY <2>1 DEF RowEffect, IInv, TypeOK, Terminal, ReadyFrom, Waiting, SetStatus
<1>. QED  BY <1>1, Invariance, PTL DEF Spec, EndedStaysEnded

\* The queue, the workers and the cache implement the life of a query that
\* QueryLifecycle promises to whoever polls it.
THEOREM Refinement == Spec => ImplementsLifecycle
<1>1. Init => Lifecycle!Init
  BY DEF Init, Lifecycle!Init, Phase, PhaseOf
<1>2. IInv /\ [Next]_vars =>
        [Lifecycle!Next]_<<Phase, resultsFile, stored>>
  <2>. SUFFICES ASSUME IInv, [Next]_vars
                PROVE  [Lifecycle!Next]_<<Phase, resultsFile, stored>>
    OBVIOUS
  <2>. USE DEF Phase, PhaseOf, Terminal, IInv, TypeOK, Statuses
  <2>1. RowEffect
    BY RowStep DEF IInv
  <2>2. CASE UNCHANGED <<status, resultsFile, stored>>
    BY <2>2
  <2>3. CASE /\ \E f \in Files : stored' = stored \cup {f}
             /\ UNCHANGED <<status, resultsFile>>
    BY <2>3 DEF Lifecycle!Next, Lifecycle!Store
  <2>4. ASSUME UNCHANGED <<resultsFile, stored>>, NEW q \in Queries,
               status[q] = "none", SetStatus(q, "pending")
        PROVE  Lifecycle!Next
    <3>1. Lifecycle!Submit(q)
      BY <2>4 DEF Lifecycle!Submit, SetStatus
    <3>. QED  BY <3>1 DEF Lifecycle!Next
  <2>5. ASSUME UNCHANGED <<resultsFile, stored>>, NEW q \in Queries,
               status[q] \in Waiting,
               NEW s \in {"queued", "executing"}, SetStatus(q, s)
        PROVE  UNCHANGED <<Phase, resultsFile, stored>>
    BY <2>5 DEF SetStatus, Waiting
  <2>6. ASSUME UNCHANGED <<resultsFile, stored>>, NEW q \in Queries,
               status[q] # "none",
               NEW s \in {"expired", "error", "cancelled"}, SetStatus(q, s)
        PROVE  Lifecycle!Next
    <3>1. Lifecycle!Fail(q)
      BY <2>6 DEF Lifecycle!Fail, SetStatus
    <3>. QED  BY <3>1 DEF Lifecycle!Next
  <2>7. ASSUME UNCHANGED stored, NEW q \in Queries, NEW f \in stored,
               status[q] \in ReadyFrom, SetStatus(q, "ready"),
               resultsFile' = [resultsFile EXCEPT ![q] = f]
        PROVE  Lifecycle!Next
    <3>1. Lifecycle!Land(q)
      BY <2>7 DEF Lifecycle!Land, SetStatus, ReadyFrom
    <3>. QED  BY <3>1 DEF Lifecycle!Next
  <2>. QED
    BY <2>1, <2>2, <2>3, <2>4, <2>5, <2>6, <2>7 DEF RowEffect, Waiting
<1>. QED
  BY <1>1, <1>2, Invariance, PTL DEF Spec, ImplementsLifecycle, Lifecycle!Spec
=============================================================================
