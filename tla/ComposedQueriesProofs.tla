------------------------ MODULE ComposedQueriesProofs ------------------------
(***************************************************************************)
(* Proofs about ComposedQueries for every set of legs and joins, shared or *)
(* not, every number of worker loops, any references, SQL and limits,      *)
(* whoever may be cancelled and whatever may die.                          *)
(***************************************************************************)
EXTENDS ComposedQueries, TLAPS

\* Landing changes one open row, and nothing otherwise.
Lands(q, f) ==
    /\ status' \in [Queries -> Statuses]
    /\ file' \in [Queries -> Queries \cup {NoFile}]
    /\ \A r \in Queries : r # q => status'[r] = status[r] /\ file'[r] = file[r]
    /\ status[q] \in Open => status'[q] = "ready" /\ file'[q] = f
    /\ status[q] \notin Open => status'[q] = status[q] /\ file'[q] = file[q]

LEMMA LandFacts ==
    ASSUME TypeOK, NEW q \in Queries, NEW f \in Queries \cup {NoFile}, Land(q, f)
    PROVE  Lands(q, f)
  BY DEF TypeOK, Land, Lands, Statuses, Open

\* A leg lands or fails; a row that had ended may only turn into a failed one.
LegEnds(q) ==
    /\ status' \in [Queries -> Statuses]
    /\ file' \in [Queries -> Queries \cup {NoFile}]
    /\ \A r \in Queries : r # q => status'[r] = status[r] /\ file'[r] = file[r]
    /\ status'[q] \in {status[q], "ready", "failed"}
    /\ file'[q] # file[q] => status[q] \in Open /\ status'[q] = "ready"

LEMMA LegFacts ==
    ASSUME TypeOK, NEW q \in Legs, Land(q, q) \/ (Fail(q) /\ UNCHANGED file)
    PROVE  LegEnds(q)
<1>1. CASE Land(q, q)
  <2>1. Lands(q, q)
    BY LandFacts, <1>1 DEF Queries
  <2>. QED
    BY <2>1 DEF Lands, LegEnds, Open
<1>2. CASE Fail(q) /\ UNCHANGED file
  BY <1>2 DEF TypeOK, Fail, LegEnds, Statuses, Open, Queries
<1>. QED
  BY <1>1, <1>2

\* The process has no job any more.
JobEnded(p) ==
    /\ pc' = [pc EXCEPT ![p] = "idle"]
    /\ on' = [on EXCEPT ![p] = NoQuery]

\* The variables that the end of a job never changes.
Others == <<older, sub, refs, sql, limit, stream, inputs, hit, served, refused>>

\* A claim changes the status of a waiting row, and nothing of another one.
Claims(p) ==
    /\ on[p] \in Queries /\ pc[p] = "claim"
    /\ status' \in [Queries -> Statuses]
    /\ pc' \in [Procs -> JobPC]
    /\ on' \in [Procs -> Queries \cup {NoQuery}]
    /\ \A r \in Queries : r # on[p] => status'[r] = status[r]
    /\ \A o \in Procs : o # p => pc'[o] = pc[o] /\ on'[o] = on[o]
    /\ \/ /\ status[on[p]] = "waiting" /\ status'[on[p]] = "executing"
          /\ on'[p] = on[p]
          /\ \/ on[p] \in Legs /\ pc'[p] = "run"
             \/ on[p] \in Joins /\ pc'[p] = "build"
       \/ status[on[p]] # "waiting" /\ status'[on[p]] = status[on[p]] /\ pc'[p] = "idle"
    /\ UNCHANGED <<file, keyed, Others>>

LEMMA ClaimFacts ==
    ASSUME TypeOK, RunsHaveQueries, NEW p \in Procs, Claim(p)
    PROVE  Claims(p)
<1>. USE DEF TypeOK, RunsHaveQueries, Claims
<1>1. on[p] \in Queries /\ pc[p] = "claim"
  BY DEF Claim
<1>2. UNCHANGED <<file, keyed, Others>>
  BY DEF Claim, Others, request, run
<1>3. CASE status[on[p]] = "waiting"
  <2>1. /\ status' = [status EXCEPT ![on[p]] = "executing"]
        /\ pc' = [pc EXCEPT ![p] = IF on[p] \in Legs THEN "run" ELSE "build"]
        /\ on' = on
    BY <1>3 DEF Claim, JobGoto
  <2>. QED
    BY <1>1, <1>2, <1>3, <2>1 DEF Statuses, JobPC, Queries
<1>4. CASE status[on[p]] # "waiting"
  <2>1. /\ status' = status
        /\ pc' = [pc EXCEPT ![p] = "idle"]
        /\ on' = [on EXCEPT ![p] = NoQuery]
    BY <1>4 DEF Claim, EndJob
  <2>. QED
    BY <1>1, <1>2, <1>4, <2>1 DEF JobPC
<1>. QED
  BY <1>3, <1>4

\* The types, with the fact that a process at work has a query of its kind.
LEMMA TypeStep ==
    ASSUME TypeOK, RunsHaveQueries, [Next]_vars
    PROVE  TypeOK' /\ RunsHaveQueries'
<1>. USE DEF TypeOK, RunsHaveQueries, row, request, job, run,
             Procs, Queries, Statuses, SubmitPC, JobPC, JoinPC, Open
<1>1. ASSUME NEW q \in Queries, SubmitLeg(q)
      PROVE  TypeOK' /\ RunsHaveQueries'
  BY ConstantsAssumption, <1>1 DEF SubmitLeg, Insert, Exists, Goto
<1>2. ASSUME NEW q \in Queries, SubmitCachedLeg(q)
      PROVE  TypeOK' /\ RunsHaveQueries'
  BY ConstantsAssumption, <1>2 DEF SubmitCachedLeg, Insert, Exists, Goto
<1>3. ASSUME NEW q \in Queries, SubmitJoin(q)
      PROVE  TypeOK' /\ RunsHaveQueries'
  BY ConstantsAssumption, <1>3 DEF SubmitJoin, Insert, Exists, Goto, Referable
<1>4. ASSUME NEW q \in Queries, Publish(q)
      PROVE  TypeOK' /\ RunsHaveQueries'
  BY ConstantsAssumption, <1>4 DEF Publish, Goto
<1>5. ASSUME NEW q \in Queries, PublishThrows(q)
      PROVE  TypeOK' /\ RunsHaveQueries'
  <2>1. CASE stream' = stream
    BY <2>1, ConstantsAssumption, <1>5 DEF PublishThrows, Goto
  <2>2. CASE stream' = Append(stream, q)
    BY <2>2, ConstantsAssumption, <1>5 DEF PublishThrows, Goto
  <2>. QED
    BY <2>1, <2>2, <1>5 DEF PublishThrows
<1>6. ASSUME NEW q \in Queries, EnqueueFailed(q)
      PROVE  TypeOK' /\ RunsHaveQueries'
  BY ConstantsAssumption, <1>6 DEF EnqueueFailed, Fail, Goto
<1>7. ASSUME NEW q \in Queries, Launch(q)
      PROVE  TypeOK' /\ RunsHaveQueries'
  BY ConstantsAssumption, <1>7 DEF Launch, Goto
<1>8. ASSUME NEW q \in Queries, EndElsewhere(q)
      PROVE  TypeOK' /\ RunsHaveQueries'
  <2>1. q \in Legs /\ status[q] = "waiting" /\ LegEnds(q)
    BY LegFacts, <1>8 DEF EndElsewhere
  <2>2. UNCHANGED <<pc, on, keyed, Others>>
    BY <1>8 DEF EndElsewhere, Others
  <2>. QED
    BY <2>1, <2>2, ConstantsAssumption DEF LegEnds, Others
<1>9. ASSUME NEW q \in Queries, CancelQuery(q)
      PROVE  TypeOK' /\ RunsHaveQueries'
  BY ConstantsAssumption, <1>9 DEF CancelQuery, Fail, Exists
<1>10. ASSUME NEW p \in Procs, Fetch(p)
      PROVE  TypeOK' /\ RunsHaveQueries'
  BY ConstantsAssumption, <1>10 DEF Fetch
<1>11. ASSUME NEW p \in Procs, Claim(p)
      PROVE  TypeOK' /\ RunsHaveQueries'
  <2>1. Claims(p)
    BY ClaimFacts, <1>11
  <2>. QED
    BY <2>1, ConstantsAssumption DEF Claims, Others
<1>12. ASSUME NEW p \in Procs, Expire(p)
      PROVE  TypeOK' /\ RunsHaveQueries'
  BY ConstantsAssumption, <1>12 DEF Expire, FailJob, Fail, EndJob
<1>13. ASSUME NEW p \in Procs, RunLeg(p)
      PROVE  TypeOK' /\ RunsHaveQueries'
  <2>1. on[p] \in Legs /\ pc[p] = "run" /\ LegEnds(on[p])
    BY LegFacts, <1>13 DEF RunLeg
  <2>2. JobEnded(p) /\ UNCHANGED <<keyed, Others>>
    BY <1>13 DEF RunLeg, EndJob, JobEnded, Others
  <2>. QED
    BY <2>1, <2>2, ConstantsAssumption DEF LegEnds, JobEnded, Others
<1>14. ASSUME NEW p \in Procs, BuildArgs(p)
      PROVE  TypeOK' /\ RunsHaveQueries'
  BY ConstantsAssumption, <1>14 DEF BuildArgs, JobGoto
<1>15. ASSUME NEW p \in Procs, BuildThrows(p)
      PROVE  TypeOK' /\ RunsHaveQueries'
  BY ConstantsAssumption, <1>15 DEF BuildThrows, FailJob, Fail, EndJob
<1>16. ASSUME NEW p \in Procs, PollReads(p)
      PROVE  TypeOK' /\ RunsHaveQueries'
  BY ConstantsAssumption, <1>16 DEF PollReads, Unread
<1>17. ASSUME NEW p \in Procs, PollThrows(p)
      PROVE  TypeOK' /\ RunsHaveQueries'
  BY ConstantsAssumption, <1>17 DEF PollThrows, FailJob, Fail, EndJob
<1>18. ASSUME NEW p \in Procs, BindThrows(p)
      PROVE  TypeOK' /\ RunsHaveQueries'
  BY ConstantsAssumption, <1>18 DEF BindThrows, IsBound, FailJob, Fail, EndJob
<1>19. ASSUME NEW p \in Procs, Refuse(p)
      PROVE  TypeOK' /\ RunsHaveQueries'
  BY ConstantsAssumption, <1>19 DEF Refuse, IsBound, Fail, EndJob
<1>20. ASSUME NEW p \in Procs, CacheHit(p)
      PROVE  TypeOK' /\ RunsHaveQueries'
  BY ConstantsAssumption, <1>20 DEF CacheHit, IsBound, JobGoto, MostRecent
<1>21. ASSUME NEW p \in Procs, CacheMiss(p)
      PROVE  TypeOK' /\ RunsHaveQueries'
  BY ConstantsAssumption, <1>21 DEF CacheMiss, IsBound, JobGoto
<1>22. ASSUME NEW p \in Procs, MarkDuckdbCacheHit(p)
      PROVE  TypeOK' /\ RunsHaveQueries'
  BY ConstantsAssumption, <1>22 DEF MarkDuckdbCacheHit, JobGoto
<1>23. ASSUME NEW p \in Procs, LandDuckdbCacheHit(p)
      PROVE  TypeOK' /\ RunsHaveQueries'
  <2>1. on[p] \in Joins /\ pc[p] = "land_hit" /\ Lands(on[p], hit[on[p]])
    BY LandFacts, <1>23 DEF LandDuckdbCacheHit
  <2>2. JobEnded(p) /\ UNCHANGED Others
    BY <1>23 DEF LandDuckdbCacheHit, EndJob, JobEnded, Others
  <2>3. keyed' = IF status[on[p]] \in Open THEN keyed \cup {on[p]} ELSE keyed
    BY <1>23 DEF LandDuckdbCacheHit
  <2>. QED
    BY <2>1, <2>2, <2>3, ConstantsAssumption DEF Lands, JobEnded, Others
<1>24. ASSUME NEW p \in Procs, ResolveColumns(p)
      PROVE  TypeOK' /\ RunsHaveQueries'
  BY ConstantsAssumption, <1>24 DEF ResolveColumns, JobGoto
<1>25. ASSUME NEW p \in Procs, LandResults(p)
      PROVE  TypeOK' /\ RunsHaveQueries'
  <2>1. on[p] \in Joins /\ pc[p] = "execute" /\ Lands(on[p], on[p])
    BY LandFacts, <1>25 DEF LandResults
  <2>2. JobEnded(p) /\ UNCHANGED <<keyed, Others>>
    BY <1>25 DEF LandResults, EndJob, JobEnded, Others
  <2>. QED
    BY <2>1, <2>2, ConstantsAssumption DEF Lands, JobEnded, Others
<1>26. ASSUME NEW p \in Procs, RunThrows(p)
      PROVE  TypeOK' /\ RunsHaveQueries'
  BY ConstantsAssumption, <1>26 DEF RunThrows, FailJob, Fail, EndJob
<1>27. ASSUME NEW p \in Procs, WaitTimesOut(p)
      PROVE  TypeOK' /\ RunsHaveQueries'
  BY ConstantsAssumption, <1>27 DEF WaitTimesOut, FailJob, Fail, EndJob
<1>28. ASSUME NEW p \in Procs, Crash(p)
      PROVE  TypeOK' /\ RunsHaveQueries'
  BY ConstantsAssumption, <1>28 DEF Crash, EndJob
<1>29. CASE UNCHANGED vars
  BY <1>29 DEF vars
<1>. QED
  BY <1>1, <1>2, <1>3, <1>4, <1>5, <1>6, <1>7, <1>8, <1>9, <1>10, <1>11,
     <1>12, <1>13, <1>14, <1>15, <1>16, <1>17, <1>18, <1>19, <1>20,
     <1>21, <1>22, <1>23, <1>24, <1>25, <1>26, <1>27, <1>28, <1>29 DEF Next, UserStep, SubmitStep, JobStep

\* Results land on open rows only, and a row that named some keeps them.
LEMMA OpenStep ==
    ASSUME TypeOK, RunsHaveQueries, OpenHasNoFile, [Next]_vars
    PROVE  /\ OpenHasNoFile'
           /\ \A r \in Queries : file[r] # NoFile => file'[r] = file[r]
<1>. USE DEF TypeOK, RunsHaveQueries, OpenHasNoFile, row, request, job, run,
             Procs, Queries, Statuses, JobPC, JoinPC, Open, Ended
<1>1. ASSUME NEW q \in Queries, SubmitLeg(q)
      PROVE  /\ OpenHasNoFile'
           /\ \A r \in Queries : file[r] # NoFile => file'[r] = file[r]
  BY ConstantsAssumption, <1>1 DEF SubmitLeg, Insert, Exists, Goto
<1>2. ASSUME NEW q \in Queries, SubmitCachedLeg(q)
      PROVE  /\ OpenHasNoFile'
           /\ \A r \in Queries : file[r] # NoFile => file'[r] = file[r]
  BY ConstantsAssumption, <1>2 DEF SubmitCachedLeg, Insert, Exists, Goto
<1>3. ASSUME NEW q \in Queries, SubmitJoin(q)
      PROVE  /\ OpenHasNoFile'
           /\ \A r \in Queries : file[r] # NoFile => file'[r] = file[r]
  BY ConstantsAssumption, <1>3 DEF SubmitJoin, Insert, Exists, Goto, Referable
<1>4. ASSUME NEW q \in Queries, Publish(q)
      PROVE  /\ OpenHasNoFile'
           /\ \A r \in Queries : file[r] # NoFile => file'[r] = file[r]
  BY ConstantsAssumption, <1>4 DEF Publish, Goto
<1>5. ASSUME NEW q \in Queries, PublishThrows(q)
      PROVE  /\ OpenHasNoFile'
           /\ \A r \in Queries : file[r] # NoFile => file'[r] = file[r]
  BY ConstantsAssumption, <1>5 DEF PublishThrows, Goto
<1>6. ASSUME NEW q \in Queries, EnqueueFailed(q)
      PROVE  /\ OpenHasNoFile'
           /\ \A r \in Queries : file[r] # NoFile => file'[r] = file[r]
  BY ConstantsAssumption, <1>6 DEF EnqueueFailed, Fail, Goto
<1>7. ASSUME NEW q \in Queries, Launch(q)
      PROVE  /\ OpenHasNoFile'
           /\ \A r \in Queries : file[r] # NoFile => file'[r] = file[r]
  BY ConstantsAssumption, <1>7 DEF Launch, Goto
<1>8. ASSUME NEW q \in Queries, EndElsewhere(q)
      PROVE  /\ OpenHasNoFile'
           /\ \A r \in Queries : file[r] # NoFile => file'[r] = file[r]
  <2>1. q \in Legs /\ status[q] = "waiting" /\ LegEnds(q)
    BY LegFacts, <1>8 DEF EndElsewhere
  <2>2. UNCHANGED <<pc, on, keyed, Others>>
    BY <1>8 DEF EndElsewhere, Others
  <2>. QED
    BY <2>1, <2>2, ConstantsAssumption DEF LegEnds, Others
<1>9. ASSUME NEW q \in Queries, CancelQuery(q)
      PROVE  /\ OpenHasNoFile'
           /\ \A r \in Queries : file[r] # NoFile => file'[r] = file[r]
  BY ConstantsAssumption, <1>9 DEF CancelQuery, Fail, Exists
<1>10. ASSUME NEW p \in Procs, Fetch(p)
      PROVE  /\ OpenHasNoFile'
           /\ \A r \in Queries : file[r] # NoFile => file'[r] = file[r]
  BY ConstantsAssumption, <1>10 DEF Fetch
<1>11. ASSUME NEW p \in Procs, Claim(p)
      PROVE  /\ OpenHasNoFile'
           /\ \A r \in Queries : file[r] # NoFile => file'[r] = file[r]
  <2>1. Claims(p)
    BY ClaimFacts, <1>11
  <2>. QED
    BY <2>1, ConstantsAssumption DEF Claims, Others
<1>12. ASSUME NEW p \in Procs, Expire(p)
      PROVE  /\ OpenHasNoFile'
           /\ \A r \in Queries : file[r] # NoFile => file'[r] = file[r]
  BY ConstantsAssumption, <1>12 DEF Expire, FailJob, Fail, EndJob
<1>13. ASSUME NEW p \in Procs, RunLeg(p)
      PROVE  /\ OpenHasNoFile'
           /\ \A r \in Queries : file[r] # NoFile => file'[r] = file[r]
  <2>1. on[p] \in Legs /\ pc[p] = "run" /\ LegEnds(on[p])
    BY LegFacts, <1>13 DEF RunLeg
  <2>2. JobEnded(p) /\ UNCHANGED <<keyed, Others>>
    BY <1>13 DEF RunLeg, EndJob, JobEnded, Others
  <2>. QED
    BY <2>1, <2>2, ConstantsAssumption DEF LegEnds, JobEnded, Others
<1>14. ASSUME NEW p \in Procs, BuildArgs(p)
      PROVE  /\ OpenHasNoFile'
           /\ \A r \in Queries : file[r] # NoFile => file'[r] = file[r]
  BY ConstantsAssumption, <1>14 DEF BuildArgs, JobGoto
<1>15. ASSUME NEW p \in Procs, BuildThrows(p)
      PROVE  /\ OpenHasNoFile'
           /\ \A r \in Queries : file[r] # NoFile => file'[r] = file[r]
  BY ConstantsAssumption, <1>15 DEF BuildThrows, FailJob, Fail, EndJob
<1>16. ASSUME NEW p \in Procs, PollReads(p)
      PROVE  /\ OpenHasNoFile'
           /\ \A r \in Queries : file[r] # NoFile => file'[r] = file[r]
  BY ConstantsAssumption, <1>16 DEF PollReads, Unread
<1>17. ASSUME NEW p \in Procs, PollThrows(p)
      PROVE  /\ OpenHasNoFile'
           /\ \A r \in Queries : file[r] # NoFile => file'[r] = file[r]
  BY ConstantsAssumption, <1>17 DEF PollThrows, FailJob, Fail, EndJob
<1>18. ASSUME NEW p \in Procs, BindThrows(p)
      PROVE  /\ OpenHasNoFile'
           /\ \A r \in Queries : file[r] # NoFile => file'[r] = file[r]
  BY ConstantsAssumption, <1>18 DEF BindThrows, IsBound, FailJob, Fail, EndJob
<1>19. ASSUME NEW p \in Procs, Refuse(p)
      PROVE  /\ OpenHasNoFile'
           /\ \A r \in Queries : file[r] # NoFile => file'[r] = file[r]
  BY ConstantsAssumption, <1>19 DEF Refuse, IsBound, Fail, EndJob
<1>20. ASSUME NEW p \in Procs, CacheHit(p)
      PROVE  /\ OpenHasNoFile'
           /\ \A r \in Queries : file[r] # NoFile => file'[r] = file[r]
  BY ConstantsAssumption, <1>20 DEF CacheHit, IsBound, JobGoto, MostRecent
<1>21. ASSUME NEW p \in Procs, CacheMiss(p)
      PROVE  /\ OpenHasNoFile'
           /\ \A r \in Queries : file[r] # NoFile => file'[r] = file[r]
  BY ConstantsAssumption, <1>21 DEF CacheMiss, IsBound, JobGoto
<1>22. ASSUME NEW p \in Procs, MarkDuckdbCacheHit(p)
      PROVE  /\ OpenHasNoFile'
           /\ \A r \in Queries : file[r] # NoFile => file'[r] = file[r]
  BY ConstantsAssumption, <1>22 DEF MarkDuckdbCacheHit, JobGoto
<1>23. ASSUME NEW p \in Procs, LandDuckdbCacheHit(p)
      PROVE  /\ OpenHasNoFile'
           /\ \A r \in Queries : file[r] # NoFile => file'[r] = file[r]
  <2>1. on[p] \in Joins /\ pc[p] = "land_hit" /\ Lands(on[p], hit[on[p]])
    BY LandFacts, <1>23 DEF LandDuckdbCacheHit
  <2>2. JobEnded(p) /\ UNCHANGED Others
    BY <1>23 DEF LandDuckdbCacheHit, EndJob, JobEnded, Others
  <2>3. keyed' = IF status[on[p]] \in Open THEN keyed \cup {on[p]} ELSE keyed
    BY <1>23 DEF LandDuckdbCacheHit
  <2>. QED
    BY <2>1, <2>2, <2>3, ConstantsAssumption DEF Lands, JobEnded, Others
<1>24. ASSUME NEW p \in Procs, ResolveColumns(p)
      PROVE  /\ OpenHasNoFile'
           /\ \A r \in Queries : file[r] # NoFile => file'[r] = file[r]
  BY ConstantsAssumption, <1>24 DEF ResolveColumns, JobGoto
<1>25. ASSUME NEW p \in Procs, LandResults(p)
      PROVE  /\ OpenHasNoFile'
           /\ \A r \in Queries : file[r] # NoFile => file'[r] = file[r]
  <2>1. on[p] \in Joins /\ pc[p] = "execute" /\ Lands(on[p], on[p])
    BY LandFacts, <1>25 DEF LandResults
  <2>2. JobEnded(p) /\ UNCHANGED <<keyed, Others>>
    BY <1>25 DEF LandResults, EndJob, JobEnded, Others
  <2>. QED
    BY <2>1, <2>2, ConstantsAssumption DEF Lands, JobEnded, Others
<1>26. ASSUME NEW p \in Procs, RunThrows(p)
      PROVE  /\ OpenHasNoFile'
           /\ \A r \in Queries : file[r] # NoFile => file'[r] = file[r]
  BY ConstantsAssumption, <1>26 DEF RunThrows, FailJob, Fail, EndJob
<1>27. ASSUME NEW p \in Procs, WaitTimesOut(p)
      PROVE  /\ OpenHasNoFile'
           /\ \A r \in Queries : file[r] # NoFile => file'[r] = file[r]
  BY ConstantsAssumption, <1>27 DEF WaitTimesOut, FailJob, Fail, EndJob
<1>28. ASSUME NEW p \in Procs, Crash(p)
      PROVE  /\ OpenHasNoFile'
           /\ \A r \in Queries : file[r] # NoFile => file'[r] = file[r]
  BY ConstantsAssumption, <1>28 DEF Crash, EndJob
<1>29. CASE UNCHANGED vars
  BY <1>29 DEF vars
<1>. QED
  BY <1>1, <1>2, <1>3, <1>4, <1>5, <1>6, <1>7, <1>8, <1>9, <1>10, <1>11,
     <1>12, <1>13, <1>14, <1>15, <1>16, <1>17, <1>18, <1>19, <1>20,
     <1>21, <1>22, <1>23, <1>24, <1>25, <1>26, <1>27, <1>28, <1>29 DEF Next, UserStep, SubmitStep, JobStep

\* A claim needs a row that nobody has claimed yet.
LEMMA ClaimStep ==
    ASSUME TypeOK, RunsHaveQueries, OpenHasNoFile, ClaimsAreExclusive, [Next]_vars
    PROVE  ClaimsAreExclusive'
<1>. USE DEF TypeOK, RunsHaveQueries, OpenHasNoFile, ClaimsAreExclusive,
             Claimed, row, request, job, run, Procs, Queries, Statuses, JobPC, JoinPC, Open, Ended
<1>1. ASSUME NEW q \in Queries, SubmitLeg(q)
      PROVE  ClaimsAreExclusive'
  BY ConstantsAssumption, <1>1 DEF SubmitLeg, Insert, Exists, Goto
<1>2. ASSUME NEW q \in Queries, SubmitCachedLeg(q)
      PROVE  ClaimsAreExclusive'
  BY ConstantsAssumption, <1>2 DEF SubmitCachedLeg, Insert, Exists, Goto
<1>3. ASSUME NEW q \in Queries, SubmitJoin(q)
      PROVE  ClaimsAreExclusive'
  BY ConstantsAssumption, <1>3 DEF SubmitJoin, Insert, Exists, Goto, Referable
<1>4. ASSUME NEW q \in Queries, Publish(q)
      PROVE  ClaimsAreExclusive'
  BY ConstantsAssumption, <1>4 DEF Publish, Goto
<1>5. ASSUME NEW q \in Queries, PublishThrows(q)
      PROVE  ClaimsAreExclusive'
  BY ConstantsAssumption, <1>5 DEF PublishThrows, Goto
<1>6. ASSUME NEW q \in Queries, EnqueueFailed(q)
      PROVE  ClaimsAreExclusive'
  BY ConstantsAssumption, <1>6 DEF EnqueueFailed, Fail, Goto
<1>7. ASSUME NEW q \in Queries, Launch(q)
      PROVE  ClaimsAreExclusive'
  BY ConstantsAssumption, <1>7 DEF Launch, Goto
<1>8. ASSUME NEW q \in Queries, EndElsewhere(q)
      PROVE  ClaimsAreExclusive'
  <2>1. q \in Legs /\ status[q] = "waiting" /\ LegEnds(q)
    BY LegFacts, <1>8 DEF EndElsewhere
  <2>2. UNCHANGED <<pc, on, keyed, Others>>
    BY <1>8 DEF EndElsewhere, Others
  <2>. QED
    BY <2>1, <2>2, ConstantsAssumption DEF LegEnds, Others
<1>9. ASSUME NEW q \in Queries, CancelQuery(q)
      PROVE  ClaimsAreExclusive'
  BY ConstantsAssumption, <1>9 DEF CancelQuery, Fail, Exists
<1>10. ASSUME NEW p \in Procs, Fetch(p)
      PROVE  ClaimsAreExclusive'
  BY ConstantsAssumption, <1>10 DEF Fetch
<1>11. ASSUME NEW p \in Procs, Claim(p)
      PROVE  ClaimsAreExclusive'
  <2>1. Claims(p)
    BY ClaimFacts, <1>11
  <2>. SUFFICES ASSUME NEW x \in Procs, pc'[x] \notin {"idle", "claim"}
                PROVE  /\ status'[on'[x]] \notin {"none", "waiting"}
                       /\ file'[on'[x]] = NoFile
                       /\ \A o \in Procs \ {x} :
                            pc'[o] \notin {"idle", "claim"} => on'[o] # on'[x]
    OBVIOUS
  <2>2. \A o \in Procs : o # p /\ pc'[o] \notin {"idle", "claim"} =>
           /\ on'[o] = on[o] /\ Claimed(o) /\ on[o] \in Queries
           /\ status[on[o]] # "waiting"
    BY <2>1 DEF Claims
  <2>3. CASE x = p
    <3>1. status[on[p]] = "waiting" /\ status'[on[p]] = "executing" /\ on'[p] = on[p]
      BY <2>1, <2>3 DEF Claims
    <3>2. file'[on[p]] = NoFile
      BY <2>1, <3>1 DEF Claims, Others
    <3>. QED
      BY <2>2, <2>3, <3>1, <3>2
  <2>4. CASE x # p
    <3>1. on'[x] = on[x] /\ Claimed(x) /\ on[x] \in Queries /\ status[on[x]] # "waiting"
      BY <2>2, <2>4
    <3>2. status'[on[x]] \in {status[on[x]], "executing"} /\ file'[on[x]] = file[on[x]]
      BY <2>1, <3>1 DEF Claims, Others
    <3>3. \A o \in Procs \ {x} : pc'[o] \notin {"idle", "claim"} => on'[o] # on[x]
      <4>1. ASSUME NEW o \in Procs \ {x}, o # p, pc'[o] \notin {"idle", "claim"}
            PROVE  on'[o] # on[x]
        BY <2>2, <3>1, <4>1
      <4>2. pc'[p] \notin {"idle", "claim"} => on'[p] = on[p] /\ status[on[p]] = "waiting"
        BY <2>1 DEF Claims
      <4>. QED
        BY <3>1, <4>1, <4>2
    <3>. QED
      BY <3>1, <3>2, <3>3
  <2>. QED
    BY <2>3, <2>4
<1>12. ASSUME NEW p \in Procs, Expire(p)
      PROVE  ClaimsAreExclusive'
  BY ConstantsAssumption, <1>12 DEF Expire, FailJob, Fail, EndJob
<1>13. ASSUME NEW p \in Procs, RunLeg(p)
      PROVE  ClaimsAreExclusive'
  <2>1. on[p] \in Legs /\ pc[p] = "run" /\ LegEnds(on[p])
    BY LegFacts, <1>13 DEF RunLeg
  <2>2. JobEnded(p) /\ UNCHANGED <<keyed, Others>>
    BY <1>13 DEF RunLeg, EndJob, JobEnded, Others
  <2>. QED
    BY <2>1, <2>2, ConstantsAssumption DEF LegEnds, JobEnded, Others
<1>14. ASSUME NEW p \in Procs, BuildArgs(p)
      PROVE  ClaimsAreExclusive'
  BY ConstantsAssumption, <1>14 DEF BuildArgs, JobGoto
<1>15. ASSUME NEW p \in Procs, BuildThrows(p)
      PROVE  ClaimsAreExclusive'
  BY ConstantsAssumption, <1>15 DEF BuildThrows, FailJob, Fail, EndJob
<1>16. ASSUME NEW p \in Procs, PollReads(p)
      PROVE  ClaimsAreExclusive'
  BY ConstantsAssumption, <1>16 DEF PollReads, Unread
<1>17. ASSUME NEW p \in Procs, PollThrows(p)
      PROVE  ClaimsAreExclusive'
  BY ConstantsAssumption, <1>17 DEF PollThrows, FailJob, Fail, EndJob
<1>18. ASSUME NEW p \in Procs, BindThrows(p)
      PROVE  ClaimsAreExclusive'
  BY ConstantsAssumption, <1>18 DEF BindThrows, IsBound, FailJob, Fail, EndJob
<1>19. ASSUME NEW p \in Procs, Refuse(p)
      PROVE  ClaimsAreExclusive'
  BY ConstantsAssumption, <1>19 DEF Refuse, IsBound, Fail, EndJob
<1>20. ASSUME NEW p \in Procs, CacheHit(p)
      PROVE  ClaimsAreExclusive'
  BY ConstantsAssumption, <1>20 DEF CacheHit, IsBound, JobGoto, MostRecent
<1>21. ASSUME NEW p \in Procs, CacheMiss(p)
      PROVE  ClaimsAreExclusive'
  BY ConstantsAssumption, <1>21 DEF CacheMiss, IsBound, JobGoto
<1>22. ASSUME NEW p \in Procs, MarkDuckdbCacheHit(p)
      PROVE  ClaimsAreExclusive'
  BY ConstantsAssumption, <1>22 DEF MarkDuckdbCacheHit, JobGoto
<1>23. ASSUME NEW p \in Procs, LandDuckdbCacheHit(p)
      PROVE  ClaimsAreExclusive'
  <2>1. on[p] \in Joins /\ Claimed(p) /\ Lands(on[p], hit[on[p]])
    BY LandFacts, <1>23 DEF LandDuckdbCacheHit
  <2>2. JobEnded(p)
    BY <1>23 DEF LandDuckdbCacheHit, EndJob, JobEnded
  <2>. SUFFICES ASSUME NEW x \in Procs, pc'[x] \notin {"idle", "claim"}
                PROVE  /\ status'[on'[x]] \notin {"none", "waiting"}
                       /\ file'[on'[x]] = NoFile
                       /\ \A o \in Procs \ {x} :
                            pc'[o] \notin {"idle", "claim"} => on'[o] # on'[x]
    OBVIOUS
  <2>3. \A o \in Procs : pc'[o] \notin {"idle", "claim"} =>
           o # p /\ on'[o] = on[o] /\ Claimed(o) /\ on[o] \in Queries
    BY <2>2 DEF JobEnded
  <2>4. on[x] # on[p]
    BY <2>1, <2>3
  <2>5. status'[on[x]] = status[on[x]] /\ file'[on[x]] = file[on[x]]
    BY <2>1, <2>3, <2>4 DEF Lands
  <2>. QED
    BY <2>3, <2>5
<1>24. ASSUME NEW p \in Procs, ResolveColumns(p)
      PROVE  ClaimsAreExclusive'
  BY ConstantsAssumption, <1>24 DEF ResolveColumns, JobGoto
<1>25. ASSUME NEW p \in Procs, LandResults(p)
      PROVE  ClaimsAreExclusive'
  <2>1. on[p] \in Joins /\ Claimed(p) /\ Lands(on[p], on[p])
    BY LandFacts, <1>25 DEF LandResults
  <2>2. JobEnded(p)
    BY <1>25 DEF LandResults, EndJob, JobEnded
  <2>. SUFFICES ASSUME NEW x \in Procs, pc'[x] \notin {"idle", "claim"}
                PROVE  /\ status'[on'[x]] \notin {"none", "waiting"}
                       /\ file'[on'[x]] = NoFile
                       /\ \A o \in Procs \ {x} :
                            pc'[o] \notin {"idle", "claim"} => on'[o] # on'[x]
    OBVIOUS
  <2>3. \A o \in Procs : pc'[o] \notin {"idle", "claim"} =>
           o # p /\ on'[o] = on[o] /\ Claimed(o) /\ on[o] \in Queries
    BY <2>2 DEF JobEnded
  <2>4. on[x] # on[p]
    BY <2>1, <2>3
  <2>5. status'[on[x]] = status[on[x]] /\ file'[on[x]] = file[on[x]]
    BY <2>1, <2>3, <2>4 DEF Lands
  <2>. QED
    BY <2>3, <2>5
<1>26. ASSUME NEW p \in Procs, RunThrows(p)
      PROVE  ClaimsAreExclusive'
  BY ConstantsAssumption, <1>26 DEF RunThrows, FailJob, Fail, EndJob
<1>27. ASSUME NEW p \in Procs, WaitTimesOut(p)
      PROVE  ClaimsAreExclusive'
  BY ConstantsAssumption, <1>27 DEF WaitTimesOut, FailJob, Fail, EndJob
<1>28. ASSUME NEW p \in Procs, Crash(p)
      PROVE  ClaimsAreExclusive'
  BY ConstantsAssumption, <1>28 DEF Crash, EndJob
<1>29. CASE UNCHANGED vars
  BY <1>29 DEF vars
<1>. QED
  BY <1>1, <1>2, <1>3, <1>4, <1>5, <1>6, <1>7, <1>8, <1>9, <1>10, <1>11,
     <1>12, <1>13, <1>14, <1>15, <1>16, <1>17, <1>18, <1>19, <1>20,
     <1>21, <1>22, <1>23, <1>24, <1>25, <1>26, <1>27, <1>28, <1>29 DEF Next, UserStep, SubmitStep, JobStep

\* Only a run reads inputs, and a run has a row.
LEMMA BlankStep ==
    ASSUME TypeOK, RunsHaveQueries, ClaimsAreExclusive, UnsubmittedIsBlank, [Next]_vars
    PROVE  UnsubmittedIsBlank'
<1>. USE DEF TypeOK, RunsHaveQueries, ClaimsAreExclusive, Claimed, UnsubmittedIsBlank,
             row, request, job, run, Procs, Queries, Statuses, JobPC, JoinPC, Open
<1>1. ASSUME NEW q \in Queries, SubmitLeg(q)
      PROVE  UnsubmittedIsBlank'
  BY ConstantsAssumption, <1>1 DEF SubmitLeg, Insert, Exists, Goto
<1>2. ASSUME NEW q \in Queries, SubmitCachedLeg(q)
      PROVE  UnsubmittedIsBlank'
  BY ConstantsAssumption, <1>2 DEF SubmitCachedLeg, Insert, Exists, Goto
<1>3. ASSUME NEW q \in Queries, SubmitJoin(q)
      PROVE  UnsubmittedIsBlank'
  BY ConstantsAssumption, <1>3 DEF SubmitJoin, Insert, Exists, Goto, Referable
<1>4. ASSUME NEW q \in Queries, Publish(q)
      PROVE  UnsubmittedIsBlank'
  BY ConstantsAssumption, <1>4 DEF Publish, Goto
<1>5. ASSUME NEW q \in Queries, PublishThrows(q)
      PROVE  UnsubmittedIsBlank'
  BY ConstantsAssumption, <1>5 DEF PublishThrows, Goto
<1>6. ASSUME NEW q \in Queries, EnqueueFailed(q)
      PROVE  UnsubmittedIsBlank'
  BY ConstantsAssumption, <1>6 DEF EnqueueFailed, Fail, Goto
<1>7. ASSUME NEW q \in Queries, Launch(q)
      PROVE  UnsubmittedIsBlank'
  BY ConstantsAssumption, <1>7 DEF Launch, Goto
<1>8. ASSUME NEW q \in Queries, EndElsewhere(q)
      PROVE  UnsubmittedIsBlank'
  <2>1. q \in Legs /\ LegEnds(q)
    BY LegFacts, <1>8 DEF EndElsewhere
  <2>2. \A r \in Joins : status'[r] = status[r]
    BY <2>1, ConstantsAssumption DEF LegEnds
  <2>. QED
    BY <2>2, <1>8 DEF EndElsewhere
<1>9. ASSUME NEW q \in Queries, CancelQuery(q)
      PROVE  UnsubmittedIsBlank'
  BY ConstantsAssumption, <1>9 DEF CancelQuery, Fail, Exists
<1>10. ASSUME NEW p \in Procs, Fetch(p)
      PROVE  UnsubmittedIsBlank'
  BY ConstantsAssumption, <1>10 DEF Fetch
<1>11. ASSUME NEW p \in Procs, Claim(p)
      PROVE  UnsubmittedIsBlank'
  <2>1. Claims(p)
    BY ClaimFacts, <1>11
  <2>. QED
    BY <2>1, ConstantsAssumption DEF Claims, Others
<1>12. ASSUME NEW p \in Procs, Expire(p)
      PROVE  UnsubmittedIsBlank'
  BY ConstantsAssumption, <1>12 DEF Expire, FailJob, Fail, EndJob
<1>13. ASSUME NEW p \in Procs, RunLeg(p)
      PROVE  UnsubmittedIsBlank'
  <2>1. on[p] \in Legs /\ pc[p] = "run" /\ LegEnds(on[p])
    BY LegFacts, <1>13 DEF RunLeg
  <2>2. JobEnded(p) /\ UNCHANGED <<keyed, Others>>
    BY <1>13 DEF RunLeg, EndJob, JobEnded, Others
  <2>. QED
    BY <2>1, <2>2, ConstantsAssumption DEF LegEnds, JobEnded, Others
<1>14. ASSUME NEW p \in Procs, BuildArgs(p)
      PROVE  UnsubmittedIsBlank'
  BY ConstantsAssumption, <1>14 DEF BuildArgs, JobGoto
<1>15. ASSUME NEW p \in Procs, BuildThrows(p)
      PROVE  UnsubmittedIsBlank'
  BY ConstantsAssumption, <1>15 DEF BuildThrows, FailJob, Fail, EndJob
<1>16. ASSUME NEW p \in Procs, PollReads(p)
      PROVE  UnsubmittedIsBlank'
  <2>1. on[p] \in Joins /\ status[on[p]] # "none"
    BY <1>16 DEF PollReads
  <2>2. \A q \in Joins \ {on[p]} : inputs'[q] = inputs[q]
    BY <1>16 DEF PollReads
  <2>. QED
    BY <2>1, <2>2, <1>16 DEF PollReads
<1>17. ASSUME NEW p \in Procs, PollThrows(p)
      PROVE  UnsubmittedIsBlank'
  BY ConstantsAssumption, <1>17 DEF PollThrows, FailJob, Fail, EndJob
<1>18. ASSUME NEW p \in Procs, BindThrows(p)
      PROVE  UnsubmittedIsBlank'
  BY ConstantsAssumption, <1>18 DEF BindThrows, IsBound, FailJob, Fail, EndJob
<1>19. ASSUME NEW p \in Procs, Refuse(p)
      PROVE  UnsubmittedIsBlank'
  BY ConstantsAssumption, <1>19 DEF Refuse, IsBound, Fail, EndJob
<1>20. ASSUME NEW p \in Procs, CacheHit(p)
      PROVE  UnsubmittedIsBlank'
  BY ConstantsAssumption, <1>20 DEF CacheHit, IsBound, JobGoto, MostRecent
<1>21. ASSUME NEW p \in Procs, CacheMiss(p)
      PROVE  UnsubmittedIsBlank'
  BY ConstantsAssumption, <1>21 DEF CacheMiss, IsBound, JobGoto
<1>22. ASSUME NEW p \in Procs, MarkDuckdbCacheHit(p)
      PROVE  UnsubmittedIsBlank'
  BY ConstantsAssumption, <1>22 DEF MarkDuckdbCacheHit, JobGoto
<1>23. ASSUME NEW p \in Procs, LandDuckdbCacheHit(p)
      PROVE  UnsubmittedIsBlank'
  <2>1. on[p] \in Joins /\ pc[p] = "land_hit" /\ Lands(on[p], hit[on[p]])
    BY LandFacts, <1>23 DEF LandDuckdbCacheHit
  <2>2. JobEnded(p) /\ UNCHANGED Others
    BY <1>23 DEF LandDuckdbCacheHit, EndJob, JobEnded, Others
  <2>3. keyed' = IF status[on[p]] \in Open THEN keyed \cup {on[p]} ELSE keyed
    BY <1>23 DEF LandDuckdbCacheHit
  <2>. QED
    BY <2>1, <2>2, <2>3, ConstantsAssumption DEF Lands, JobEnded, Others
<1>24. ASSUME NEW p \in Procs, ResolveColumns(p)
      PROVE  UnsubmittedIsBlank'
  BY ConstantsAssumption, <1>24 DEF ResolveColumns, JobGoto
<1>25. ASSUME NEW p \in Procs, LandResults(p)
      PROVE  UnsubmittedIsBlank'
  <2>1. on[p] \in Joins /\ pc[p] = "execute" /\ Lands(on[p], on[p])
    BY LandFacts, <1>25 DEF LandResults
  <2>2. UNCHANGED inputs
    BY <1>25 DEF LandResults
  <2>3. \A q \in Joins : status'[q] = "none" => status[q] = "none"
    BY <2>1 DEF Lands, Queries
  <2>. QED
    BY <2>2, <2>3 DEF UnsubmittedIsBlank
<1>26. ASSUME NEW p \in Procs, RunThrows(p)
      PROVE  UnsubmittedIsBlank'
  BY ConstantsAssumption, <1>26 DEF RunThrows, FailJob, Fail, EndJob
<1>27. ASSUME NEW p \in Procs, WaitTimesOut(p)
      PROVE  UnsubmittedIsBlank'
  BY ConstantsAssumption, <1>27 DEF WaitTimesOut, FailJob, Fail, EndJob
<1>28. ASSUME NEW p \in Procs, Crash(p)
      PROVE  UnsubmittedIsBlank'
  BY ConstantsAssumption, <1>28 DEF Crash, EndJob
<1>29. CASE UNCHANGED vars
  BY <1>29 DEF vars
<1>. QED
  BY <1>1, <1>2, <1>3, <1>4, <1>5, <1>6, <1>7, <1>8, <1>9, <1>10, <1>11,
     <1>12, <1>13, <1>14, <1>15, <1>16, <1>17, <1>18, <1>19, <1>20,
     <1>21, <1>22, <1>23, <1>24, <1>25, <1>26, <1>27, <1>28, <1>29 DEF Next, UserStep, SubmitStep, JobStep

\* What was read stays what the reference names.
LEMMA InputStep ==
    ASSUME TypeOK, RunsHaveQueries, OpenHasNoFile, UnsubmittedIsBlank,
           InputsAreFiles, [Next]_vars
    PROVE  InputsAreFiles'
<1>. USE DEF TypeOK, RunsHaveQueries, OpenHasNoFile, UnsubmittedIsBlank, InputsAreFiles,
             row, request, job, run, Procs, Queries, Statuses, JobPC, JoinPC, Open, Ended
<1>1. ASSUME NEW q \in Queries, SubmitLeg(q)
      PROVE  InputsAreFiles'
  BY ConstantsAssumption, <1>1 DEF SubmitLeg, Insert, Exists, Goto
<1>2. ASSUME NEW q \in Queries, SubmitCachedLeg(q)
      PROVE  InputsAreFiles'
  <2>1. \A r \in Queries : file[r] # NoFile => file'[r] = file[r]
    BY OpenStep
  <2>. QED
    BY <2>1, <1>2 DEF SubmitCachedLeg
<1>3. ASSUME NEW q \in Queries, SubmitJoin(q)
      PROVE  InputsAreFiles'
  BY ConstantsAssumption, <1>3 DEF SubmitJoin, Insert, Exists, Goto, Referable
<1>4. ASSUME NEW q \in Queries, Publish(q)
      PROVE  InputsAreFiles'
  BY ConstantsAssumption, <1>4 DEF Publish, Goto
<1>5. ASSUME NEW q \in Queries, PublishThrows(q)
      PROVE  InputsAreFiles'
  BY ConstantsAssumption, <1>5 DEF PublishThrows, Goto
<1>6. ASSUME NEW q \in Queries, EnqueueFailed(q)
      PROVE  InputsAreFiles'
  BY ConstantsAssumption, <1>6 DEF EnqueueFailed, Fail, Goto
<1>7. ASSUME NEW q \in Queries, Launch(q)
      PROVE  InputsAreFiles'
  BY ConstantsAssumption, <1>7 DEF Launch, Goto
<1>8. ASSUME NEW q \in Queries, EndElsewhere(q)
      PROVE  InputsAreFiles'
  <2>1. \A r \in Queries : file[r] # NoFile => file'[r] = file[r]
    BY OpenStep
  <2>2. UNCHANGED <<refs, inputs>>
    BY <1>8 DEF EndElsewhere
  <2>. SUFFICES ASSUME NEW r \in Joins, NEW t \in Places, inputs[r][t] # NoFile
                PROVE  inputs[r][t] = file'[refs[r][t]]
    BY <2>2
  <2>3. refs[r][t] \in Queries /\ inputs[r][t] = file[refs[r][t]]
    OBVIOUS
  <2>. QED
    BY <2>1, <2>3
<1>9. ASSUME NEW q \in Queries, CancelQuery(q)
      PROVE  InputsAreFiles'
  BY ConstantsAssumption, <1>9 DEF CancelQuery, Fail, Exists
<1>10. ASSUME NEW p \in Procs, Fetch(p)
      PROVE  InputsAreFiles'
  BY ConstantsAssumption, <1>10 DEF Fetch
<1>11. ASSUME NEW p \in Procs, Claim(p)
      PROVE  InputsAreFiles'
  <2>1. Claims(p)
    BY ClaimFacts, <1>11
  <2>. QED
    BY <2>1, ConstantsAssumption DEF Claims, Others
<1>12. ASSUME NEW p \in Procs, Expire(p)
      PROVE  InputsAreFiles'
  BY ConstantsAssumption, <1>12 DEF Expire, FailJob, Fail, EndJob
<1>13. ASSUME NEW p \in Procs, RunLeg(p)
      PROVE  InputsAreFiles'
  <2>1. \A r \in Queries : file[r] # NoFile => file'[r] = file[r]
    BY OpenStep
  <2>2. UNCHANGED <<refs, inputs>>
    BY <1>13 DEF RunLeg
  <2>. SUFFICES ASSUME NEW r \in Joins, NEW t \in Places, inputs[r][t] # NoFile
                PROVE  inputs[r][t] = file'[refs[r][t]]
    BY <2>2
  <2>3. refs[r][t] \in Queries /\ inputs[r][t] = file[refs[r][t]]
    OBVIOUS
  <2>. QED
    BY <2>1, <2>3
<1>14. ASSUME NEW p \in Procs, BuildArgs(p)
      PROVE  InputsAreFiles'
  BY ConstantsAssumption, <1>14 DEF BuildArgs, JobGoto
<1>15. ASSUME NEW p \in Procs, BuildThrows(p)
      PROVE  InputsAreFiles'
  BY ConstantsAssumption, <1>15 DEF BuildThrows, FailJob, Fail, EndJob
<1>16. ASSUME NEW p \in Procs, PollReads(p)
      PROVE  InputsAreFiles'
  BY ConstantsAssumption, <1>16 DEF PollReads, Unread
<1>17. ASSUME NEW p \in Procs, PollThrows(p)
      PROVE  InputsAreFiles'
  BY ConstantsAssumption, <1>17 DEF PollThrows, FailJob, Fail, EndJob
<1>18. ASSUME NEW p \in Procs, BindThrows(p)
      PROVE  InputsAreFiles'
  BY ConstantsAssumption, <1>18 DEF BindThrows, IsBound, FailJob, Fail, EndJob
<1>19. ASSUME NEW p \in Procs, Refuse(p)
      PROVE  InputsAreFiles'
  BY ConstantsAssumption, <1>19 DEF Refuse, IsBound, Fail, EndJob
<1>20. ASSUME NEW p \in Procs, CacheHit(p)
      PROVE  InputsAreFiles'
  BY ConstantsAssumption, <1>20 DEF CacheHit, IsBound, JobGoto, MostRecent
<1>21. ASSUME NEW p \in Procs, CacheMiss(p)
      PROVE  InputsAreFiles'
  BY ConstantsAssumption, <1>21 DEF CacheMiss, IsBound, JobGoto
<1>22. ASSUME NEW p \in Procs, MarkDuckdbCacheHit(p)
      PROVE  InputsAreFiles'
  BY ConstantsAssumption, <1>22 DEF MarkDuckdbCacheHit, JobGoto
<1>23. ASSUME NEW p \in Procs, LandDuckdbCacheHit(p)
      PROVE  InputsAreFiles'
  <2>1. \A r \in Queries : file[r] # NoFile => file'[r] = file[r]
    BY OpenStep
  <2>2. UNCHANGED <<refs, inputs>>
    BY <1>23 DEF LandDuckdbCacheHit
  <2>. SUFFICES ASSUME NEW r \in Joins, NEW t \in Places, inputs[r][t] # NoFile
                PROVE  inputs[r][t] = file'[refs[r][t]]
    BY <2>2
  <2>3. refs[r][t] \in Queries /\ inputs[r][t] = file[refs[r][t]]
    OBVIOUS
  <2>. QED
    BY <2>1, <2>3
<1>24. ASSUME NEW p \in Procs, ResolveColumns(p)
      PROVE  InputsAreFiles'
  BY ConstantsAssumption, <1>24 DEF ResolveColumns, JobGoto
<1>25. ASSUME NEW p \in Procs, LandResults(p)
      PROVE  InputsAreFiles'
  <2>1. \A r \in Queries : file[r] # NoFile => file'[r] = file[r]
    BY OpenStep
  <2>2. UNCHANGED <<refs, inputs>>
    BY <1>25 DEF LandResults
  <2>. SUFFICES ASSUME NEW r \in Joins, NEW t \in Places, inputs[r][t] # NoFile
                PROVE  inputs[r][t] = file'[refs[r][t]]
    BY <2>2
  <2>3. refs[r][t] \in Queries /\ inputs[r][t] = file[refs[r][t]]
    OBVIOUS
  <2>. QED
    BY <2>1, <2>3
<1>26. ASSUME NEW p \in Procs, RunThrows(p)
      PROVE  InputsAreFiles'
  BY ConstantsAssumption, <1>26 DEF RunThrows, FailJob, Fail, EndJob
<1>27. ASSUME NEW p \in Procs, WaitTimesOut(p)
      PROVE  InputsAreFiles'
  BY ConstantsAssumption, <1>27 DEF WaitTimesOut, FailJob, Fail, EndJob
<1>28. ASSUME NEW p \in Procs, Crash(p)
      PROVE  InputsAreFiles'
  BY ConstantsAssumption, <1>28 DEF Crash, EndJob
<1>29. CASE UNCHANGED vars
  BY <1>29 DEF vars
<1>. QED
  BY <1>1, <1>2, <1>3, <1>4, <1>5, <1>6, <1>7, <1>8, <1>9, <1>10, <1>11,
     <1>12, <1>13, <1>14, <1>15, <1>16, <1>17, <1>18, <1>19, <1>20,
     <1>21, <1>22, <1>23, <1>24, <1>25, <1>26, <1>27, <1>28, <1>29 DEF Next, UserStep, SubmitStep, JobStep

\* From its look-up on a run has all its inputs.
LEMMA ReadStep ==
    ASSUME TypeOK, RunsHaveQueries, InputsAreRead, [Next]_vars
    PROVE  InputsAreRead'
<1>. USE DEF TypeOK, RunsHaveQueries, InputsAreRead, BoundPC, Unread, IsBound,
             row, request, job, run, Procs, Queries, Statuses, JobPC, JoinPC, Open
<1>1. ASSUME NEW q \in Queries, SubmitLeg(q)
      PROVE  InputsAreRead'
  BY ConstantsAssumption, <1>1 DEF SubmitLeg, Insert, Exists, Goto
<1>2. ASSUME NEW q \in Queries, SubmitCachedLeg(q)
      PROVE  InputsAreRead'
  BY ConstantsAssumption, <1>2 DEF SubmitCachedLeg, Insert, Exists, Goto
<1>3. ASSUME NEW q \in Queries, SubmitJoin(q)
      PROVE  InputsAreRead'
  BY ConstantsAssumption, <1>3 DEF SubmitJoin, Insert, Exists, Goto, Referable
<1>4. ASSUME NEW q \in Queries, Publish(q)
      PROVE  InputsAreRead'
  BY ConstantsAssumption, <1>4 DEF Publish, Goto
<1>5. ASSUME NEW q \in Queries, PublishThrows(q)
      PROVE  InputsAreRead'
  BY ConstantsAssumption, <1>5 DEF PublishThrows, Goto
<1>6. ASSUME NEW q \in Queries, EnqueueFailed(q)
      PROVE  InputsAreRead'
  BY ConstantsAssumption, <1>6 DEF EnqueueFailed, Fail, Goto
<1>7. ASSUME NEW q \in Queries, Launch(q)
      PROVE  InputsAreRead'
  BY ConstantsAssumption, <1>7 DEF Launch, Goto
<1>8. ASSUME NEW q \in Queries, EndElsewhere(q)
      PROVE  InputsAreRead'
  <2>1. q \in Legs /\ status[q] = "waiting" /\ LegEnds(q)
    BY LegFacts, <1>8 DEF EndElsewhere
  <2>2. UNCHANGED <<pc, on, keyed, Others>>
    BY <1>8 DEF EndElsewhere, Others
  <2>. QED
    BY <2>1, <2>2, ConstantsAssumption DEF LegEnds, Others
<1>9. ASSUME NEW q \in Queries, CancelQuery(q)
      PROVE  InputsAreRead'
  BY ConstantsAssumption, <1>9 DEF CancelQuery, Fail, Exists
<1>10. ASSUME NEW p \in Procs, Fetch(p)
      PROVE  InputsAreRead'
  BY ConstantsAssumption, <1>10 DEF Fetch
<1>11. ASSUME NEW p \in Procs, Claim(p)
      PROVE  InputsAreRead'
  <2>1. Claims(p)
    BY ClaimFacts, <1>11
  <2>. QED
    BY <2>1, ConstantsAssumption DEF Claims, Others
<1>12. ASSUME NEW p \in Procs, Expire(p)
      PROVE  InputsAreRead'
  BY ConstantsAssumption, <1>12 DEF Expire, FailJob, Fail, EndJob
<1>13. ASSUME NEW p \in Procs, RunLeg(p)
      PROVE  InputsAreRead'
  <2>1. on[p] \in Legs /\ pc[p] = "run" /\ LegEnds(on[p])
    BY LegFacts, <1>13 DEF RunLeg
  <2>2. JobEnded(p) /\ UNCHANGED <<keyed, Others>>
    BY <1>13 DEF RunLeg, EndJob, JobEnded, Others
  <2>. QED
    BY <2>1, <2>2, ConstantsAssumption DEF LegEnds, JobEnded, Others
<1>14. ASSUME NEW p \in Procs, BuildArgs(p)
      PROVE  InputsAreRead'
  BY ConstantsAssumption, <1>14 DEF BuildArgs, JobGoto
<1>15. ASSUME NEW p \in Procs, BuildThrows(p)
      PROVE  InputsAreRead'
  BY ConstantsAssumption, <1>15 DEF BuildThrows, FailJob, Fail, EndJob
<1>16. ASSUME NEW p \in Procs, PollReads(p)
      PROVE  InputsAreRead'
  BY ConstantsAssumption, <1>16 DEF PollReads, Unread
<1>17. ASSUME NEW p \in Procs, PollThrows(p)
      PROVE  InputsAreRead'
  BY ConstantsAssumption, <1>17 DEF PollThrows, FailJob, Fail, EndJob
<1>18. ASSUME NEW p \in Procs, BindThrows(p)
      PROVE  InputsAreRead'
  BY ConstantsAssumption, <1>18 DEF BindThrows, IsBound, FailJob, Fail, EndJob
<1>19. ASSUME NEW p \in Procs, Refuse(p)
      PROVE  InputsAreRead'
  BY ConstantsAssumption, <1>19 DEF Refuse, IsBound, Fail, EndJob
<1>20. ASSUME NEW p \in Procs, CacheHit(p)
      PROVE  InputsAreRead'
  BY ConstantsAssumption, <1>20 DEF CacheHit, IsBound, JobGoto, MostRecent
<1>21. ASSUME NEW p \in Procs, CacheMiss(p)
      PROVE  InputsAreRead'
  BY ConstantsAssumption, <1>21 DEF CacheMiss, IsBound, JobGoto
<1>22. ASSUME NEW p \in Procs, MarkDuckdbCacheHit(p)
      PROVE  InputsAreRead'
  BY ConstantsAssumption, <1>22 DEF MarkDuckdbCacheHit, JobGoto
<1>23. ASSUME NEW p \in Procs, LandDuckdbCacheHit(p)
      PROVE  InputsAreRead'
  <2>1. on[p] \in Joins /\ pc[p] = "land_hit" /\ Lands(on[p], hit[on[p]])
    BY LandFacts, <1>23 DEF LandDuckdbCacheHit
  <2>2. JobEnded(p) /\ UNCHANGED Others
    BY <1>23 DEF LandDuckdbCacheHit, EndJob, JobEnded, Others
  <2>3. keyed' = IF status[on[p]] \in Open THEN keyed \cup {on[p]} ELSE keyed
    BY <1>23 DEF LandDuckdbCacheHit
  <2>. QED
    BY <2>1, <2>2, <2>3, ConstantsAssumption DEF Lands, JobEnded, Others
<1>24. ASSUME NEW p \in Procs, ResolveColumns(p)
      PROVE  InputsAreRead'
  BY ConstantsAssumption, <1>24 DEF ResolveColumns, JobGoto
<1>25. ASSUME NEW p \in Procs, LandResults(p)
      PROVE  InputsAreRead'
  <2>1. on[p] \in Joins /\ pc[p] = "execute" /\ Lands(on[p], on[p])
    BY LandFacts, <1>25 DEF LandResults
  <2>2. JobEnded(p) /\ UNCHANGED <<keyed, Others>>
    BY <1>25 DEF LandResults, EndJob, JobEnded, Others
  <2>. QED
    BY <2>1, <2>2, ConstantsAssumption DEF Lands, JobEnded, Others
<1>26. ASSUME NEW p \in Procs, RunThrows(p)
      PROVE  InputsAreRead'
  BY ConstantsAssumption, <1>26 DEF RunThrows, FailJob, Fail, EndJob
<1>27. ASSUME NEW p \in Procs, WaitTimesOut(p)
      PROVE  InputsAreRead'
  BY ConstantsAssumption, <1>27 DEF WaitTimesOut, FailJob, Fail, EndJob
<1>28. ASSUME NEW p \in Procs, Crash(p)
      PROVE  InputsAreRead'
  BY ConstantsAssumption, <1>28 DEF Crash, EndJob
<1>29. CASE UNCHANGED vars
  BY <1>29 DEF vars
<1>. QED
  BY <1>1, <1>2, <1>3, <1>4, <1>5, <1>6, <1>7, <1>8, <1>9, <1>10, <1>11,
     <1>12, <1>13, <1>14, <1>15, <1>16, <1>17, <1>18, <1>19, <1>20,
     <1>21, <1>22, <1>23, <1>24, <1>25, <1>26, <1>27, <1>28, <1>29 DEF Next, UserStep, SubmitStep, JobStep

\* A job that ends, and whatever it landed, leaves the other runs their files.
LEMMA MatchKept ==
    ASSUME FilesMatch, UNCHANGED <<sql, inputs, hit>>, keyed \subseteq keyed',
           \A r \in Joins : file'[r] # NoFile =>
              r \in keyed' /\ SameKey(r, file[r])',
           \A o \in Procs : pc'[o] # "idle" => pc'[o] = pc[o] /\ on'[o] = on[o]
    PROVE  FilesMatch'
<1>1. ASSUME NEW p \in Procs, pc'[p] \in {"mark_hit", "land_hit"}
      PROVE  SameKey(on[p], hit[on[p]])'
  BY <1>1 DEF FilesMatch, SameKey, ResultsKey
<1>2. ASSUME NEW p \in Procs, pc'[p] = "execute"
      PROVE  on'[p] \in keyed'
  BY <1>2 DEF FilesMatch
<1>. QED  BY <1>1, <1>2 DEF FilesMatch

\* The inputs under a key are final, so a match of keys is too.
LEMMA MatchStep ==
    ASSUME TypeOK, RunsHaveQueries, OpenHasNoFile, InputsAreRead, FilesMatch, [Next]_vars
    PROVE  FilesMatch'
<1>. USE DEF TypeOK, RunsHaveQueries, OpenHasNoFile, InputsAreRead, FilesMatch, BoundPC,
             SameKey, ResultsKey, Unread, IsBound,
             row, request, job, run, Procs, Queries, Statuses, JobPC, JoinPC, Open, Ended
<1>1. ASSUME NEW q \in Queries, SubmitLeg(q)
      PROVE  FilesMatch'
  BY ConstantsAssumption, <1>1 DEF SubmitLeg, Insert, Exists, Goto
<1>2. ASSUME NEW q \in Queries, SubmitCachedLeg(q)
      PROVE  FilesMatch'
  BY ConstantsAssumption, <1>2 DEF SubmitCachedLeg, Insert, Exists, Goto
<1>3. ASSUME NEW q \in Queries, SubmitJoin(q)
      PROVE  FilesMatch'
  BY ConstantsAssumption, <1>3 DEF SubmitJoin, Insert, Exists, Goto, Referable
<1>4. ASSUME NEW q \in Queries, Publish(q)
      PROVE  FilesMatch'
  BY ConstantsAssumption, <1>4 DEF Publish, Goto
<1>5. ASSUME NEW q \in Queries, PublishThrows(q)
      PROVE  FilesMatch'
  BY ConstantsAssumption, <1>5 DEF PublishThrows, Goto
<1>6. ASSUME NEW q \in Queries, EnqueueFailed(q)
      PROVE  FilesMatch'
  BY ConstantsAssumption, <1>6 DEF EnqueueFailed, Fail, Goto
<1>7. ASSUME NEW q \in Queries, Launch(q)
      PROVE  FilesMatch'
  BY ConstantsAssumption, <1>7 DEF Launch, Goto
<1>8. ASSUME NEW q \in Queries, EndElsewhere(q)
      PROVE  FilesMatch'
  <2>1. q \in Legs /\ LegEnds(q)
    BY LegFacts, <1>8 DEF EndElsewhere
  <2>2. \A r \in Joins : file'[r] = file[r]
    BY <2>1, ConstantsAssumption DEF LegEnds
  <2>3. UNCHANGED <<pc, on, keyed, sql, inputs, hit>>
    BY <1>8 DEF EndElsewhere
  <2>. QED
    BY <2>2, <2>3
<1>9. ASSUME NEW q \in Queries, CancelQuery(q)
      PROVE  FilesMatch'
  BY ConstantsAssumption, <1>9 DEF CancelQuery, Fail, Exists
<1>10. ASSUME NEW p \in Procs, Fetch(p)
      PROVE  FilesMatch'
  BY ConstantsAssumption, <1>10 DEF Fetch
<1>11. ASSUME NEW p \in Procs, Claim(p)
      PROVE  FilesMatch'
  <2>1. Claims(p)
    BY ClaimFacts, <1>11
  <2>2. UNCHANGED <<file, keyed, sql, inputs, hit>>
    BY <2>1 DEF Claims, Others
  <2>3. \A o \in Procs : pc'[o] \in BoundPC => pc'[o] = pc[o] /\ on'[o] = on[o]
    BY <2>1 DEF Claims
  <2>. QED
    BY <2>2, <2>3
<1>12. ASSUME NEW p \in Procs, Expire(p)
      PROVE  FilesMatch'
  BY ConstantsAssumption, <1>12 DEF Expire, FailJob, Fail, EndJob
<1>13. ASSUME NEW p \in Procs, RunLeg(p)
      PROVE  FilesMatch'
  <2>1. on[p] \in Legs /\ LegEnds(on[p])
    BY LegFacts, <1>13 DEF RunLeg
  <2>2. \A r \in Joins : file'[r] = file[r]
    BY <2>1, ConstantsAssumption DEF LegEnds
  <2>3. UNCHANGED <<keyed, sql, inputs, hit>>
    BY <1>13 DEF RunLeg
  <2>4. JobEnded(p)
    BY <1>13 DEF RunLeg, EndJob, JobEnded
  <2>5. \A o \in Procs : pc'[o] # "idle" => pc'[o] = pc[o] /\ on'[o] = on[o]
    BY <2>4 DEF JobEnded
  <2>. QED
    BY MatchKept, <2>2, <2>3, <2>5
<1>14. ASSUME NEW p \in Procs, BuildArgs(p)
      PROVE  FilesMatch'
  BY ConstantsAssumption, <1>14 DEF BuildArgs, JobGoto
<1>15. ASSUME NEW p \in Procs, BuildThrows(p)
      PROVE  FilesMatch'
  BY ConstantsAssumption, <1>15 DEF BuildThrows, FailJob, Fail, EndJob
<1>16. ASSUME NEW p \in Procs, PollReads(p)
      PROVE  FilesMatch'
  BY ConstantsAssumption, <1>16 DEF PollReads, Unread
<1>17. ASSUME NEW p \in Procs, PollThrows(p)
      PROVE  FilesMatch'
  BY ConstantsAssumption, <1>17 DEF PollThrows, FailJob, Fail, EndJob
<1>18. ASSUME NEW p \in Procs, BindThrows(p)
      PROVE  FilesMatch'
  BY ConstantsAssumption, <1>18 DEF BindThrows, IsBound, FailJob, Fail, EndJob
<1>19. ASSUME NEW p \in Procs, Refuse(p)
      PROVE  FilesMatch'
  BY ConstantsAssumption, <1>19 DEF Refuse, IsBound, Fail, EndJob
<1>20. ASSUME NEW p \in Procs, CacheHit(p)
      PROVE  FilesMatch'
  <2>1. PICK r \in keyed : /\ ResultsKey(r) = ResultsKey(on[p])
                           /\ file[r] # NoFile
                           /\ hit' = [hit EXCEPT ![on[p]] = file[r]]
    BY <1>20 DEF CacheHit, MostRecent
  <2>2. SameKey(on[p], file[r])
    BY <2>1
  <2>3. /\ on[p] \in Joins
        /\ pc' = [pc EXCEPT ![p] = "mark_hit"]
        /\ UNCHANGED <<on, file, keyed, sql, inputs>>
    BY <1>20 DEF CacheHit, IsBound, JobGoto
  <2>4. \A o \in Procs : pc'[o] \in {"mark_hit", "land_hit"} => SameKey(on[o], hit'[on[o]])
    BY <2>1, <2>2, <2>3
  <2>. QED
    BY <2>3, <2>4
<1>21. ASSUME NEW p \in Procs, CacheMiss(p)
      PROVE  FilesMatch'
  BY ConstantsAssumption, <1>21 DEF CacheMiss, IsBound, JobGoto
<1>22. ASSUME NEW p \in Procs, MarkDuckdbCacheHit(p)
      PROVE  FilesMatch'
  BY ConstantsAssumption, <1>22 DEF MarkDuckdbCacheHit, JobGoto
<1>23. ASSUME NEW p \in Procs, LandDuckdbCacheHit(p)
      PROVE  FilesMatch'
  <2>1. /\ on[p] \in Joins /\ Lands(on[p], hit[on[p]])
        /\ SameKey(on[p], hit[on[p]])
    BY LandFacts, <1>23 DEF LandDuckdbCacheHit
  <2>2. UNCHANGED <<sql, inputs, hit>>
    BY <1>23 DEF LandDuckdbCacheHit
  <2>3. keyed \subseteq keyed'
    BY <1>23 DEF LandDuckdbCacheHit
  <2>4. \A r \in Joins : file'[r] # NoFile => r \in keyed' /\ SameKey(r, file'[r])
    <3>1. CASE status[on[p]] \in Open
      <4>1. on[p] \in keyed'
        BY <3>1, <1>23 DEF LandDuckdbCacheHit
      <4>. QED
        BY <2>1, <2>3, <3>1, <4>1 DEF Lands
    <3>2. CASE status[on[p]] \notin Open
      <4>1. \A r \in Joins : file'[r] = file[r]
        BY <2>1, <3>2 DEF Lands
      <4>. QED
        BY <2>2, <2>3, <4>1
    <3>. QED
      BY <3>1, <3>2
  <2>5. JobEnded(p)
    BY <1>23 DEF LandDuckdbCacheHit, EndJob, JobEnded
  <2>6. \A o \in Procs : pc'[o] # "idle" => pc'[o] = pc[o] /\ on'[o] = on[o]
    BY <2>5 DEF JobEnded
  <2>. QED
    BY MatchKept, <2>2, <2>3, <2>4, <2>6
<1>24. ASSUME NEW p \in Procs, ResolveColumns(p)
      PROVE  FilesMatch'
  BY ConstantsAssumption, <1>24 DEF ResolveColumns, JobGoto
<1>25. ASSUME NEW p \in Procs, LandResults(p)
      PROVE  FilesMatch'
  <2>1. on[p] \in Joins /\ on[p] \in keyed /\ Lands(on[p], on[p])
    BY LandFacts, <1>25 DEF LandResults
  <2>2. UNCHANGED <<keyed, sql, inputs, hit>>
    BY <1>25 DEF LandResults
  <2>3. \A r \in Joins : file'[r] # NoFile => r \in keyed /\ SameKey(r, file'[r])
    <3>1. ASSUME NEW r \in Joins, file'[r] # NoFile
          PROVE  file'[r] = file[r] \/ (r = on[p] /\ file'[r] = r)
      BY <2>1, <3>1 DEF Lands, Queries
    <3>2. ASSUME NEW r \in Joins, file'[r] # NoFile
          PROVE  r \in keyed /\ SameKey(r, file'[r])
      BY <2>1, <3>1, <3>2 DEF FilesMatch, SameKey
    <3>. QED
      BY <3>2
  <2>4. JobEnded(p)
    BY <1>25 DEF LandResults, EndJob, JobEnded
  <2>5. \A o \in Procs : pc'[o] # "idle" => pc'[o] = pc[o] /\ on'[o] = on[o]
    BY <2>4 DEF JobEnded
  <2>. QED
    BY MatchKept, <2>2, <2>3, <2>5
<1>26. ASSUME NEW p \in Procs, RunThrows(p)
      PROVE  FilesMatch'
  BY ConstantsAssumption, <1>26 DEF RunThrows, FailJob, Fail, EndJob
<1>27. ASSUME NEW p \in Procs, WaitTimesOut(p)
      PROVE  FilesMatch'
  BY ConstantsAssumption, <1>27 DEF WaitTimesOut, FailJob, Fail, EndJob
<1>28. ASSUME NEW p \in Procs, Crash(p)
      PROVE  FilesMatch'
  BY ConstantsAssumption, <1>28 DEF Crash, EndJob
<1>29. CASE UNCHANGED vars
  BY <1>29 DEF vars
<1>. QED
  BY <1>1, <1>2, <1>3, <1>4, <1>5, <1>6, <1>7, <1>8, <1>9, <1>10, <1>11,
     <1>12, <1>13, <1>14, <1>15, <1>16, <1>17, <1>18, <1>19, <1>20,
     <1>21, <1>22, <1>23, <1>24, <1>25, <1>26, <1>27, <1>28, <1>29 DEF Next, UserStep, SubmitStep, JobStep

\* A hit lands after its mark.
LEMMA MarkStep ==
    ASSUME TypeOK, RunsHaveQueries, HitsAreMarked, [Next]_vars
    PROVE  HitsAreMarked'
<1>. USE DEF TypeOK, RunsHaveQueries, HitsAreMarked,
             row, request, job, run, Procs, Queries, Statuses, JobPC, JoinPC, Open
<1>1. ASSUME NEW q \in Queries, SubmitLeg(q)
      PROVE  HitsAreMarked'
  BY ConstantsAssumption, <1>1 DEF SubmitLeg, Insert, Exists, Goto
<1>2. ASSUME NEW q \in Queries, SubmitCachedLeg(q)
      PROVE  HitsAreMarked'
  BY ConstantsAssumption, <1>2 DEF SubmitCachedLeg, Insert, Exists, Goto
<1>3. ASSUME NEW q \in Queries, SubmitJoin(q)
      PROVE  HitsAreMarked'
  BY ConstantsAssumption, <1>3 DEF SubmitJoin, Insert, Exists, Goto, Referable
<1>4. ASSUME NEW q \in Queries, Publish(q)
      PROVE  HitsAreMarked'
  BY ConstantsAssumption, <1>4 DEF Publish, Goto
<1>5. ASSUME NEW q \in Queries, PublishThrows(q)
      PROVE  HitsAreMarked'
  BY ConstantsAssumption, <1>5 DEF PublishThrows, Goto
<1>6. ASSUME NEW q \in Queries, EnqueueFailed(q)
      PROVE  HitsAreMarked'
  BY ConstantsAssumption, <1>6 DEF EnqueueFailed, Fail, Goto
<1>7. ASSUME NEW q \in Queries, Launch(q)
      PROVE  HitsAreMarked'
  BY ConstantsAssumption, <1>7 DEF Launch, Goto
<1>8. ASSUME NEW q \in Queries, EndElsewhere(q)
      PROVE  HitsAreMarked'
  <2>1. q \in Legs /\ status[q] = "waiting" /\ LegEnds(q)
    BY LegFacts, <1>8 DEF EndElsewhere
  <2>2. UNCHANGED <<pc, on, keyed, Others>>
    BY <1>8 DEF EndElsewhere, Others
  <2>. QED
    BY <2>1, <2>2, ConstantsAssumption DEF LegEnds, Others
<1>9. ASSUME NEW q \in Queries, CancelQuery(q)
      PROVE  HitsAreMarked'
  BY ConstantsAssumption, <1>9 DEF CancelQuery, Fail, Exists
<1>10. ASSUME NEW p \in Procs, Fetch(p)
      PROVE  HitsAreMarked'
  BY ConstantsAssumption, <1>10 DEF Fetch
<1>11. ASSUME NEW p \in Procs, Claim(p)
      PROVE  HitsAreMarked'
  <2>1. Claims(p)
    BY ClaimFacts, <1>11
  <2>. QED
    BY <2>1, ConstantsAssumption DEF Claims, Others
<1>12. ASSUME NEW p \in Procs, Expire(p)
      PROVE  HitsAreMarked'
  BY ConstantsAssumption, <1>12 DEF Expire, FailJob, Fail, EndJob
<1>13. ASSUME NEW p \in Procs, RunLeg(p)
      PROVE  HitsAreMarked'
  <2>1. on[p] \in Legs /\ pc[p] = "run" /\ LegEnds(on[p])
    BY LegFacts, <1>13 DEF RunLeg
  <2>2. JobEnded(p) /\ UNCHANGED <<keyed, Others>>
    BY <1>13 DEF RunLeg, EndJob, JobEnded, Others
  <2>. QED
    BY <2>1, <2>2, ConstantsAssumption DEF LegEnds, JobEnded, Others
<1>14. ASSUME NEW p \in Procs, BuildArgs(p)
      PROVE  HitsAreMarked'
  BY ConstantsAssumption, <1>14 DEF BuildArgs, JobGoto
<1>15. ASSUME NEW p \in Procs, BuildThrows(p)
      PROVE  HitsAreMarked'
  BY ConstantsAssumption, <1>15 DEF BuildThrows, FailJob, Fail, EndJob
<1>16. ASSUME NEW p \in Procs, PollReads(p)
      PROVE  HitsAreMarked'
  BY ConstantsAssumption, <1>16 DEF PollReads, Unread
<1>17. ASSUME NEW p \in Procs, PollThrows(p)
      PROVE  HitsAreMarked'
  BY ConstantsAssumption, <1>17 DEF PollThrows, FailJob, Fail, EndJob
<1>18. ASSUME NEW p \in Procs, BindThrows(p)
      PROVE  HitsAreMarked'
  BY ConstantsAssumption, <1>18 DEF BindThrows, IsBound, FailJob, Fail, EndJob
<1>19. ASSUME NEW p \in Procs, Refuse(p)
      PROVE  HitsAreMarked'
  BY ConstantsAssumption, <1>19 DEF Refuse, IsBound, Fail, EndJob
<1>20. ASSUME NEW p \in Procs, CacheHit(p)
      PROVE  HitsAreMarked'
  BY ConstantsAssumption, <1>20 DEF CacheHit, IsBound, JobGoto, MostRecent
<1>21. ASSUME NEW p \in Procs, CacheMiss(p)
      PROVE  HitsAreMarked'
  BY ConstantsAssumption, <1>21 DEF CacheMiss, IsBound, JobGoto
<1>22. ASSUME NEW p \in Procs, MarkDuckdbCacheHit(p)
      PROVE  HitsAreMarked'
  BY ConstantsAssumption, <1>22 DEF MarkDuckdbCacheHit, JobGoto
<1>23. ASSUME NEW p \in Procs, LandDuckdbCacheHit(p)
      PROVE  HitsAreMarked'
  <2>1. on[p] \in Joins /\ pc[p] = "land_hit" /\ Lands(on[p], hit[on[p]])
    BY LandFacts, <1>23 DEF LandDuckdbCacheHit
  <2>2. JobEnded(p) /\ UNCHANGED Others
    BY <1>23 DEF LandDuckdbCacheHit, EndJob, JobEnded, Others
  <2>3. keyed' = IF status[on[p]] \in Open THEN keyed \cup {on[p]} ELSE keyed
    BY <1>23 DEF LandDuckdbCacheHit
  <2>. QED
    BY <2>1, <2>2, <2>3, ConstantsAssumption DEF Lands, JobEnded, Others
<1>24. ASSUME NEW p \in Procs, ResolveColumns(p)
      PROVE  HitsAreMarked'
  BY ConstantsAssumption, <1>24 DEF ResolveColumns, JobGoto
<1>25. ASSUME NEW p \in Procs, LandResults(p)
      PROVE  HitsAreMarked'
  <2>1. on[p] \in Joins /\ pc[p] = "execute" /\ Lands(on[p], on[p])
    BY LandFacts, <1>25 DEF LandResults
  <2>2. JobEnded(p) /\ UNCHANGED <<keyed, Others>>
    BY <1>25 DEF LandResults, EndJob, JobEnded, Others
  <2>. QED
    BY <2>1, <2>2, ConstantsAssumption DEF Lands, JobEnded, Others
<1>26. ASSUME NEW p \in Procs, RunThrows(p)
      PROVE  HitsAreMarked'
  BY ConstantsAssumption, <1>26 DEF RunThrows, FailJob, Fail, EndJob
<1>27. ASSUME NEW p \in Procs, WaitTimesOut(p)
      PROVE  HitsAreMarked'
  BY ConstantsAssumption, <1>27 DEF WaitTimesOut, FailJob, Fail, EndJob
<1>28. ASSUME NEW p \in Procs, Crash(p)
      PROVE  HitsAreMarked'
  BY ConstantsAssumption, <1>28 DEF Crash, EndJob
<1>29. CASE UNCHANGED vars
  BY <1>29 DEF vars
<1>. QED
  BY <1>1, <1>2, <1>3, <1>4, <1>5, <1>6, <1>7, <1>8, <1>9, <1>10, <1>11,
     <1>12, <1>13, <1>14, <1>15, <1>16, <1>17, <1>18, <1>19, <1>20,
     <1>21, <1>22, <1>23, <1>24, <1>25, <1>26, <1>27, <1>28, <1>29 DEF Next, UserStep, SubmitStep, JobStep

\* A refusal fails a row that has no results, for good.
LEMMA ToldStep ==
    ASSUME TypeOK, RunsHaveQueries, ClaimsAreExclusive, HitsAreMarked,
           OutcomeIsTold, [Next]_vars
    PROVE  OutcomeIsTold'
<1>. USE DEF TypeOK, RunsHaveQueries, ClaimsAreExclusive, Claimed, HitsAreMarked,
             OutcomeIsTold, row, request, job, run, Procs, Queries, Statuses, JobPC, JoinPC, Open
<1>1. ASSUME NEW q \in Queries, SubmitLeg(q)
      PROVE  OutcomeIsTold'
  BY ConstantsAssumption, <1>1 DEF SubmitLeg, Insert, Exists, Goto
<1>2. ASSUME NEW q \in Queries, SubmitCachedLeg(q)
      PROVE  OutcomeIsTold'
  BY ConstantsAssumption, <1>2 DEF SubmitCachedLeg, Insert, Exists, Goto
<1>3. ASSUME NEW q \in Queries, SubmitJoin(q)
      PROVE  OutcomeIsTold'
  BY ConstantsAssumption, <1>3 DEF SubmitJoin, Insert, Exists, Goto, Referable
<1>4. ASSUME NEW q \in Queries, Publish(q)
      PROVE  OutcomeIsTold'
  BY ConstantsAssumption, <1>4 DEF Publish, Goto
<1>5. ASSUME NEW q \in Queries, PublishThrows(q)
      PROVE  OutcomeIsTold'
  BY ConstantsAssumption, <1>5 DEF PublishThrows, Goto
<1>6. ASSUME NEW q \in Queries, EnqueueFailed(q)
      PROVE  OutcomeIsTold'
  BY ConstantsAssumption, <1>6 DEF EnqueueFailed, Fail, Goto
<1>7. ASSUME NEW q \in Queries, Launch(q)
      PROVE  OutcomeIsTold'
  BY ConstantsAssumption, <1>7 DEF Launch, Goto
<1>8. ASSUME NEW q \in Queries, EndElsewhere(q)
      PROVE  OutcomeIsTold'
  <2>1. q \in Legs /\ status[q] = "waiting" /\ LegEnds(q)
    BY LegFacts, <1>8 DEF EndElsewhere
  <2>2. UNCHANGED <<pc, on, keyed, Others>>
    BY <1>8 DEF EndElsewhere, Others
  <2>. QED
    BY <2>1, <2>2, ConstantsAssumption DEF LegEnds, Others
<1>9. ASSUME NEW q \in Queries, CancelQuery(q)
      PROVE  OutcomeIsTold'
  BY ConstantsAssumption, <1>9 DEF CancelQuery, Fail, Exists
<1>10. ASSUME NEW p \in Procs, Fetch(p)
      PROVE  OutcomeIsTold'
  BY ConstantsAssumption, <1>10 DEF Fetch
<1>11. ASSUME NEW p \in Procs, Claim(p)
      PROVE  OutcomeIsTold'
  <2>1. Claims(p)
    BY ClaimFacts, <1>11
  <2>. QED
    BY <2>1, ConstantsAssumption DEF Claims, Others
<1>12. ASSUME NEW p \in Procs, Expire(p)
      PROVE  OutcomeIsTold'
  BY ConstantsAssumption, <1>12 DEF Expire, FailJob, Fail, EndJob
<1>13. ASSUME NEW p \in Procs, RunLeg(p)
      PROVE  OutcomeIsTold'
  <2>1. on[p] \in Legs /\ pc[p] = "run" /\ LegEnds(on[p])
    BY LegFacts, <1>13 DEF RunLeg
  <2>2. JobEnded(p) /\ UNCHANGED <<keyed, Others>>
    BY <1>13 DEF RunLeg, EndJob, JobEnded, Others
  <2>. QED
    BY <2>1, <2>2, ConstantsAssumption DEF LegEnds, JobEnded, Others
<1>14. ASSUME NEW p \in Procs, BuildArgs(p)
      PROVE  OutcomeIsTold'
  BY ConstantsAssumption, <1>14 DEF BuildArgs, JobGoto
<1>15. ASSUME NEW p \in Procs, BuildThrows(p)
      PROVE  OutcomeIsTold'
  BY ConstantsAssumption, <1>15 DEF BuildThrows, FailJob, Fail, EndJob
<1>16. ASSUME NEW p \in Procs, PollReads(p)
      PROVE  OutcomeIsTold'
  BY ConstantsAssumption, <1>16 DEF PollReads, Unread
<1>17. ASSUME NEW p \in Procs, PollThrows(p)
      PROVE  OutcomeIsTold'
  BY ConstantsAssumption, <1>17 DEF PollThrows, FailJob, Fail, EndJob
<1>18. ASSUME NEW p \in Procs, BindThrows(p)
      PROVE  OutcomeIsTold'
  BY ConstantsAssumption, <1>18 DEF BindThrows, IsBound, FailJob, Fail, EndJob
<1>19. ASSUME NEW p \in Procs, Refuse(p)
      PROVE  OutcomeIsTold'
  BY ConstantsAssumption, <1>19 DEF Refuse, IsBound, Fail, EndJob
<1>20. ASSUME NEW p \in Procs, CacheHit(p)
      PROVE  OutcomeIsTold'
  BY ConstantsAssumption, <1>20 DEF CacheHit, IsBound, JobGoto, MostRecent
<1>21. ASSUME NEW p \in Procs, CacheMiss(p)
      PROVE  OutcomeIsTold'
  BY ConstantsAssumption, <1>21 DEF CacheMiss, IsBound, JobGoto
<1>22. ASSUME NEW p \in Procs, MarkDuckdbCacheHit(p)
      PROVE  OutcomeIsTold'
  BY ConstantsAssumption, <1>22 DEF MarkDuckdbCacheHit, JobGoto
<1>23. ASSUME NEW p \in Procs, LandDuckdbCacheHit(p)
      PROVE  OutcomeIsTold'
  <2>1. on[p] \in Joins /\ pc[p] = "land_hit" /\ Lands(on[p], hit[on[p]])
    BY LandFacts, <1>23 DEF LandDuckdbCacheHit
  <2>2. JobEnded(p) /\ UNCHANGED Others
    BY <1>23 DEF LandDuckdbCacheHit, EndJob, JobEnded, Others
  <2>3. keyed' = IF status[on[p]] \in Open THEN keyed \cup {on[p]} ELSE keyed
    BY <1>23 DEF LandDuckdbCacheHit
  <2>. QED
    BY <2>1, <2>2, <2>3, ConstantsAssumption DEF Lands, JobEnded, Others
<1>24. ASSUME NEW p \in Procs, ResolveColumns(p)
      PROVE  OutcomeIsTold'
  BY ConstantsAssumption, <1>24 DEF ResolveColumns, JobGoto
<1>25. ASSUME NEW p \in Procs, LandResults(p)
      PROVE  OutcomeIsTold'
  <2>1. on[p] \in Joins /\ pc[p] = "execute" /\ Lands(on[p], on[p])
    BY LandFacts, <1>25 DEF LandResults
  <2>2. JobEnded(p) /\ UNCHANGED <<keyed, Others>>
    BY <1>25 DEF LandResults, EndJob, JobEnded, Others
  <2>. QED
    BY <2>1, <2>2, ConstantsAssumption DEF Lands, JobEnded, Others
<1>26. ASSUME NEW p \in Procs, RunThrows(p)
      PROVE  OutcomeIsTold'
  BY ConstantsAssumption, <1>26 DEF RunThrows, FailJob, Fail, EndJob
<1>27. ASSUME NEW p \in Procs, WaitTimesOut(p)
      PROVE  OutcomeIsTold'
  BY ConstantsAssumption, <1>27 DEF WaitTimesOut, FailJob, Fail, EndJob
<1>28. ASSUME NEW p \in Procs, Crash(p)
      PROVE  OutcomeIsTold'
  BY ConstantsAssumption, <1>28 DEF Crash, EndJob
<1>29. CASE UNCHANGED vars
  BY <1>29 DEF vars
<1>. QED
  BY <1>1, <1>2, <1>3, <1>4, <1>5, <1>6, <1>7, <1>8, <1>9, <1>10, <1>11,
     <1>12, <1>13, <1>14, <1>15, <1>16, <1>17, <1>18, <1>19, <1>20,
     <1>21, <1>22, <1>23, <1>24, <1>25, <1>26, <1>27, <1>28, <1>29 DEF Next, UserStep, SubmitStep, JobStep

\* A submission begins with its row, and no row is ever taken away.
LEMMA SubmittedStep ==
    ASSUME TypeOK, RunsHaveQueries, ClaimsAreExclusive, SubmittedHasRow, [Next]_vars
    PROVE  SubmittedHasRow'
<1>. USE DEF TypeOK, SubmittedHasRow, row, Statuses
<1>1. ASSUME NEW q \in Queries, SubmitLeg(q) \/ SubmitCachedLeg(q) \/ SubmitJoin(q)
      PROVE  SubmittedHasRow'
  BY <1>1 DEF SubmitLeg, SubmitCachedLeg, SubmitJoin, Insert, Exists, Goto
<1>2. ASSUME NEW q \in Queries, Publish(q) \/ PublishThrows(q) \/ Launch(q)
      PROVE  SubmittedHasRow'
  BY <1>2 DEF Publish, PublishThrows, Launch, Goto
<1>3. ASSUME NEW q \in Queries, EnqueueFailed(q)
      PROVE  SubmittedHasRow'
  BY <1>3 DEF EnqueueFailed, Fail, Goto
<1>4. ASSUME UNCHANGED sub,
             \A r \in Queries : status'[r] = "none" <=> status[r] = "none"
      PROVE  SubmittedHasRow'
  BY <1>4
<1>5. ASSUME NEW q \in Queries, status[q] # "none", Fail(q), UNCHANGED sub
      PROVE  SubmittedHasRow'
  BY <1>5 DEF Fail
<1>6. ASSUME NEW q \in Queries, NEW f \in Queries \cup {NoFile}, Land(q, f),
             UNCHANGED sub
      PROVE  SubmittedHasRow'
  BY <1>4, <1>6, LandFacts DEF Lands, Open
<1>7. ASSUME NEW q \in Queries, EndElsewhere(q) \/ CancelQuery(q)
      PROVE  SubmittedHasRow'
  BY <1>5, <1>6, <1>7 DEF EndElsewhere, CancelQuery, Exists
<1>8. ASSUME NEW p \in Procs, Claim(p)
      PROVE  SubmittedHasRow'
  <2>1. Claims(p)
    BY <1>8, ClaimFacts
  <2>. QED  BY <1>4, <2>1 DEF Claims, Others
<1>9. ASSUME NEW p \in Procs, Claimed(p) \/ status[on[p]] = "waiting",
             pc[p] # "idle", FailJob(p) \/ Refuse(p)
      PROVE  SubmittedHasRow'
  <2>1. on[p] \in Queries /\ status[on[p]] # "none"
    BY <1>9 DEF RunsHaveQueries, ClaimsAreExclusive
  <2>. QED  BY <1>5, <1>9, <2>1 DEF FailJob, Refuse
<1>10. ASSUME NEW p \in Procs,
              \/ Expire(p) \/ BuildThrows(p) \/ PollThrows(p)
              \/ WaitTimesOut(p) \/ BindThrows(p) \/ Refuse(p) \/ RunThrows(p)
       PROVE  SubmittedHasRow'
  <2>1. /\ pc[p] # "idle" /\ (Claimed(p) \/ status[on[p]] = "waiting")
        /\ FailJob(p) \/ Refuse(p)
    BY <1>10 DEF Expire, BuildThrows, PollThrows, WaitTimesOut, BindThrows,
                 Refuse, RunThrows, Claimed, IsBound
  <2>. QED  BY <1>9, <2>1
<1>11. ASSUME NEW p \in Procs,
              RunLeg(p) \/ LandDuckdbCacheHit(p) \/ LandResults(p)
       PROVE  SubmittedHasRow'
  <2>1. /\ on[p] \in Queries /\ status[on[p]] # "none"
        /\ pc[p] = "land_hit" => hit[on[p]] \in Queries \cup {NoFile}
        /\ UNCHANGED sub
    BY <1>11 DEF RunLeg, LandDuckdbCacheHit, LandResults, Claimed,
                 RunsHaveQueries, JoinPC, JobPC, ClaimsAreExclusive
  <2>2. \/ Fail(on[p]) \/ Land(on[p], on[p])
        \/ pc[p] = "land_hit" /\ Land(on[p], hit[on[p]])
    BY <1>11 DEF RunLeg, LandDuckdbCacheHit, LandResults
  <2>. QED  BY <1>5, <1>6, <2>1, <2>2
<1>12. ASSUME NEW p \in Procs,
              \/ Fetch(p) \/ BuildArgs(p) \/ PollReads(p) \/ CacheHit(p)
              \/ CacheMiss(p) \/ MarkDuckdbCacheHit(p)
              \/ ResolveColumns(p) \/ Crash(p)
       PROVE  SubmittedHasRow'
  BY <1>4, <1>12 DEF Fetch, BuildArgs, PollReads, CacheHit, CacheMiss,
                     MarkDuckdbCacheHit, ResolveColumns, Crash
<1>13. CASE UNCHANGED vars
  BY <1>4, <1>13 DEF vars
<1>. QED
  BY <1>1, <1>2, <1>3, <1>7, <1>8, <1>10, <1>11, <1>12, <1>13
     DEF Next, UserStep, SubmitStep, JobStep

\* A process that has found a file found it named by a join.
LEMMA HitStep ==
    ASSUME TypeOK, RunsHaveQueries, OpenHasNoFile, ClaimsAreExclusive, InputsAreRead,
           FilesMatch, HitsAreNamed, [Next]_vars
    PROVE  HitsAreNamed'
<1>. DEFINE Hits == {"mark_hit", "land_hit"}
<1>. USE DEF TypeOK, row, request, job, run
<1>1. \A r \in Joins : file[r] # NoFile => file'[r] = file[r]
  BY OpenStep DEF Queries
<1>2. ASSUME \A p \in Procs : pc'[p] \in Hits =>
                pc[p] \in Hits /\ on'[p] = on[p] /\ hit'[on[p]] = hit[on[p]]
      PROVE  HitsAreNamed'
  <2>. SUFFICES ASSUME NEW p \in Procs, pc'[p] \in Hits
                PROVE  \E r \in Joins : file'[r] = hit'[on'[p]]
    BY DEF HitsAreNamed
  <2>1. pc[p] \in Hits /\ hit'[on'[p]] = hit[on[p]]
    BY <1>2
  <2>2. \E r \in Joins : file[r] = hit[on[p]]
    BY <2>1 DEF HitsAreNamed
  <2>3. hit[on[p]] # NoFile
    BY <2>1, ConstantsAssumption DEF FilesMatch, SameKey, Queries
  <2>. QED  BY <1>1, <2>1, <2>2, <2>3
<1>3. ASSUME UNCHANGED <<pc, on, hit>>
      PROVE  HitsAreNamed'
  BY <1>2, <1>3
<1>4. ASSUME NEW q \in Queries,
             \/ SubmitLeg(q) \/ SubmitCachedLeg(q) \/ SubmitJoin(q)
             \/ Publish(q) \/ PublishThrows(q) \/ EnqueueFailed(q)
             \/ EndElsewhere(q) \/ CancelQuery(q)
      PROVE  HitsAreNamed'
  BY <1>3, <1>4 DEF SubmitLeg, SubmitCachedLeg, SubmitJoin, Publish,
                    PublishThrows, EnqueueFailed, EndElsewhere, CancelQuery
<1>5. ASSUME NEW p \in Procs, NEW n \in JobPC \ Hits, UNCHANGED hit,
             pc' = [pc EXCEPT ![p] = n],
             UNCHANGED on \/ \E q \in Queries \cup {NoQuery} : on' = [on EXCEPT ![p] = q]
      PROVE  HitsAreNamed'
  BY <1>2, <1>5
<1>6. ASSUME NEW q \in Queries, Launch(q)
      PROVE  HitsAreNamed'
  BY <1>5, <1>6 DEF Launch, Procs, JobPC
<1>7. ASSUME NEW p \in Procs, Fetch(p)
      PROVE  HitsAreNamed'
  <2>1. Head(stream) \in Queries
    BY <1>7 DEF Fetch
  <2>. QED  BY <1>5, <1>7, <2>1 DEF Fetch, JobPC
<1>8. ASSUME NEW p \in Procs, EndJob(p), UNCHANGED hit
      PROVE  HitsAreNamed'
  BY <1>5, <1>8 DEF EndJob, JobPC
<1>9. ASSUME NEW p \in Procs,
             \/ Expire(p) \/ RunLeg(p) \/ BuildThrows(p) \/ PollThrows(p)
             \/ WaitTimesOut(p) \/ BindThrows(p) \/ Refuse(p) \/ RunThrows(p)
             \/ LandDuckdbCacheHit(p) \/ LandResults(p) \/ Crash(p)
      PROVE  HitsAreNamed'
  BY <1>8, <1>9 DEF Expire, RunLeg, BuildThrows, PollThrows, WaitTimesOut,
       BindThrows, Refuse, RunThrows, LandDuckdbCacheHit, LandResults, Crash,
       FailJob
<1>10. ASSUME NEW p \in Procs, Claim(p)
       PROVE  HitsAreNamed'
  BY <1>5, <1>8, <1>10 DEF Claim, JobGoto, JobPC
<1>11. ASSUME NEW p \in Procs,
              BuildArgs(p) \/ CacheMiss(p) \/ ResolveColumns(p)
       PROVE  HitsAreNamed'
  BY <1>5, <1>11 DEF BuildArgs, CacheMiss, ResolveColumns, JobGoto, JobPC
<1>12. ASSUME NEW p \in Procs, PollReads(p)
       PROVE  HitsAreNamed'
  BY <1>3, <1>12 DEF PollReads
<1>13. ASSUME NEW p \in Procs, MarkDuckdbCacheHit(p)
       PROVE  HitsAreNamed'
  BY <1>2, <1>13 DEF MarkDuckdbCacheHit, JobGoto
<1>14. ASSUME NEW p \in Procs, CacheHit(p)
       PROVE  HitsAreNamed'
  <2>1. PICK r \in MostRecent(on[p]) :
           file[r] # NoFile /\ hit' = [hit EXCEPT ![on[p]] = file[r]]
    BY <1>14 DEF CacheHit
  <2>2. r \in Joins /\ file'[r] = file[r]
    BY <1>1, <2>1 DEF MostRecent
  <2>3. on[p] \in Joins /\ Claimed(p)
    BY <1>14 DEF CacheHit, IsBound, RunsHaveQueries, JoinPC, JobPC, Claimed
  <2>4. UNCHANGED on /\ \A o \in Procs \ {p} : pc'[o] = pc[o]
    BY <1>14 DEF CacheHit, JobGoto
  <2>5. \A o \in Procs \ {p} : pc[o] \in Hits => on[o] # on[p]
    BY <2>3 DEF ClaimsAreExclusive, Claimed
  <2>6. hit'[on[p]] = file[r]
    BY <2>1, <2>3
  <2>7. ASSUME NEW o \in Procs \ {p}, pc'[o] \in Hits
        PROVE  \E s \in Joins : file'[s] = hit'[on'[o]]
    <3>1. pc[o] \in Hits /\ on'[o] = on[o] /\ hit'[on[o]] = hit[on[o]]
      <4>1. pc[o] \in Hits /\ on[o] # on[p]
        BY <2>4, <2>5, <2>7
      <4>2. on[o] \in Joins
        BY <4>1 DEF RunsHaveQueries, JoinPC, JobPC
      <4>. QED  BY <2>1, <2>4, <4>1, <4>2
    <3>2. hit[on[o]] # NoFile
      BY <3>1, ConstantsAssumption DEF FilesMatch, SameKey, Queries
    <3>. QED  BY <1>1, <3>1, <3>2 DEF HitsAreNamed
  <2>. QED  BY <2>2, <2>4, <2>6, <2>7 DEF HitsAreNamed
<1>15. CASE UNCHANGED vars
  BY <1>3, <1>15 DEF vars
<1>. QED
  BY <1>4, <1>6, <1>7, <1>9, <1>10, <1>11, <1>12, <1>13, <1>14, <1>15
     DEF Next, UserStep, SubmitStep, JobStep

LEMMA InitInv == Init => ComposedInv
<1>. SUFFICES ASSUME Init PROVE ComposedInv
  OBVIOUS
<1>. USE ConstantsAssumption DEF Init, Procs, Queries
<1>1. TypeOK
  <2>1. refs \in [Joins -> [Places -> Queries]]
    BY DEF Queries
  <2>2. stream \in Seq(Queries)
    BY DEF Queries
  <2>. QED
    BY <2>1, <2>2 DEF TypeOK, Statuses, SubmitPC, JobPC
<1>2. OpenHasNoFile /\ UnsubmittedIsBlank /\ RunsHaveQueries
  BY DEF OpenHasNoFile, UnsubmittedIsBlank, RunsHaveQueries, JoinPC, JobPC
<1>3. ClaimsAreExclusive /\ HitsAreMarked /\ OutcomeIsTold
  BY DEF ClaimsAreExclusive, Claimed, HitsAreMarked, OutcomeIsTold
<1>4. InputsAreFiles /\ InputsAreRead /\ FilesMatch
  BY DEF InputsAreFiles, InputsAreRead, BoundPC, FilesMatch
<1>5. HitsAreNamed /\ SubmittedHasRow
  BY DEF HitsAreNamed, SubmittedHasRow
<1>. QED
  BY <1>1, <1>2, <1>3, <1>4, <1>5 DEF ComposedInv

\* Every step of the specification preserves the inductive invariant.
LEMMA StepInv == ComposedInv /\ [Next]_vars => ComposedInv'
  BY TypeStep, OpenStep, ClaimStep, BlankStep, InputStep, ReadStep, MatchStep,
     MarkStep, HitStep, SubmittedStep, ToldStep DEF ComposedInv

\* The inductive invariant holds of every state.
THEOREM InductiveInvariant == Spec => []ComposedInv
  BY InitInv, StepInv, PTL DEF Spec

\* Whatever a join returns, from its own run or from the cache, was computed
\* by its SQL from the files its references name: the key is written once
\* all inputs are read, an input is read from a row that has landed, and a
\* landed row is never given other results.
THEOREM JoinsFollowTheirReferences == Spec => []ResultsFollowReferences
<1>1. ComposedInv => ResultsFollowReferences
  <2>. SUFFICES ASSUME ComposedInv, NEW q \in Joins, file[q] # NoFile
                PROVE  /\ file[q] \in Joins
                       /\ sql[file[q]] = sql[q]
                       /\ \A t \in Places : inputs[file[q]][t] = file[refs[q][t]]
    BY DEF ResultsFollowReferences
  <2>1. q \in keyed /\ SameKey(q, file[q])
    BY DEF ComposedInv, FilesMatch
  <2>2. /\ file[q] \in keyed /\ keyed \subseteq Joins
        /\ sql[file[q]] = sql[q] /\ inputs[file[q]] = inputs[q]
    BY <2>1 DEF ComposedInv, TypeOK, SameKey, ResultsKey
  <2>3. \A t \in Places : inputs[q][t] # NoFile
    BY <2>1 DEF ComposedInv, InputsAreRead, Unread
  <2>4. \A t \in Places : inputs[q][t] = file[refs[q][t]]
    BY <2>3 DEF ComposedInv, InputsAreFiles
  <2>. QED
    BY <2>2, <2>4
<1>. QED
  BY InductiveInvariant, <1>1, PTL

\* The row alone tells how a join ended: results of another run are marked
\* as served from the cache, and a refused query failed and has no results,
\* whatever cancellations, crashes and other runs do in between.
THEOREM RowsTellTheOutcome == Spec => []OutcomeIsTold
<1>1. ComposedInv => OutcomeIsTold
  BY DEF ComposedInv
<1>. QED
  BY InductiveInvariant, <1>1, PTL

\* No two processes ever run the same query, and a query that is being run
\* has no results yet: at most one run lands them.
THEOREM RunsAreExclusive == Spec => []ClaimsAreExclusive
<1>1. ComposedInv => ClaimsAreExclusive
  BY DEF ComposedInv
<1>. QED
  BY InductiveInvariant, <1>1, PTL

\* What was read completely is not read again, and SQL does not change.
LEMMA InputsKept ==
    ASSUME TypeOK, RunsHaveQueries, [Next]_vars
    PROVE  /\ UNCHANGED sql
           /\ \A q \in Joins : Unread(q) = {} => inputs'[q] = inputs[q]
<1>. USE DEF row, request, job, run
<1>1. ASSUME NEW q \in Queries,
             \/ SubmitLeg(q) \/ SubmitCachedLeg(q) \/ SubmitJoin(q)
             \/ Publish(q) \/ PublishThrows(q) \/ EnqueueFailed(q) \/ Launch(q)
             \/ EndElsewhere(q) \/ CancelQuery(q)
      PROVE  UNCHANGED <<sql, inputs>>
  BY <1>1 DEF SubmitLeg, SubmitCachedLeg, SubmitJoin, Publish, PublishThrows,
              EnqueueFailed, Launch, EndElsewhere, CancelQuery
<1>2. ASSUME NEW p \in Procs,
             \/ Fetch(p) \/ Claim(p) \/ Expire(p) \/ RunLeg(p)
             \/ BuildArgs(p) \/ BuildThrows(p) \/ PollThrows(p)
             \/ WaitTimesOut(p) \/ BindThrows(p) \/ Refuse(p)
      PROVE  UNCHANGED <<sql, inputs>>
  BY <1>2 DEF Fetch, Claim, Expire, RunLeg, BuildArgs, BuildThrows, PollThrows,
              WaitTimesOut, BindThrows, Refuse, FailJob
<1>3. ASSUME NEW p \in Procs,
             \/ CacheHit(p) \/ CacheMiss(p) \/ MarkDuckdbCacheHit(p)
             \/ LandDuckdbCacheHit(p) \/ ResolveColumns(p) \/ LandResults(p)
             \/ RunThrows(p) \/ Crash(p)
      PROVE  UNCHANGED <<sql, inputs>>
  BY <1>3 DEF CacheHit, CacheMiss, MarkDuckdbCacheHit, LandDuckdbCacheHit,
              ResolveColumns, LandResults, RunThrows, Crash, FailJob
<1>4. ASSUME NEW p \in Procs, PollReads(p), NEW q \in Joins, Unread(q) = {}
      PROVE  inputs'[q] = inputs[q]
  <2>1. on[p] # q
    BY <1>4 DEF PollReads
  <2>2. PICK t \in Places :
           inputs' = [inputs EXCEPT ![on[p]][t] = file[refs[on[p]][t]]]
    BY <1>4 DEF PollReads, Unread
  <2>. QED  BY <2>1, <2>2 DEF TypeOK
<1>5. ASSUME NEW p \in Procs, PollReads(p)
      PROVE  UNCHANGED sql
  BY <1>5 DEF PollReads
<1>6. CASE UNCHANGED vars
  BY <1>6 DEF vars
<1>. QED
  BY <1>1, <1>2, <1>3, <1>4, <1>5, <1>6 DEF Next, UserStep, SubmitStep, JobStep

\* What a file was computed from never changes again.
LEMMA AnswersKept ==
    ASSUME ComposedInv, [Next]_vars, NEW q \in Joins,
           file'[q] = file[q] \/ file[q] # NoFile
    PROVE  Answer'[q] = Answer[q]
<1>. TypeOK /\ RunsHaveQueries /\ OpenHasNoFile
  BY DEF ComposedInv
<1>1. file'[q] = file[q]
  BY OpenStep DEF Queries
<1>2. CASE file[q] = NoFile
  BY <1>1, <1>2 DEF Answer
<1>3. CASE file[q] # NoFile
  <2>1. file[q] \in keyed
    BY <1>3 DEF ComposedInv, FilesMatch, SameKey
  <2>2. file[q] \in Joins /\ Unread(file[q]) = {}
    BY <2>1 DEF ComposedInv, TypeOK, InputsAreRead
  <2>3. UNCHANGED sql /\ inputs'[file[q]] = inputs[file[q]]
    BY <2>2, InputsKept
  <2>. QED  BY <1>1, <1>3, <2>3 DEF Answer
<1>. QED  BY <1>2, <1>3

\* A step that moves no row of the database over a phase is none.
LEMMA StutterStep ==
    ASSUME ComposedInv, [Next]_vars, UNCHANGED <<Phase, file, refs>>
    PROVE  UNCHANGED <<Phase, refs, sql, file, Answer>>
<1>1. \A q \in Joins : Answer'[q] = Answer[q]
  BY AnswersKept
<1>2. Answer' = Answer
  BY <1>1 DEF Answer
<1>. QED  BY <1>2, InputsKept DEF ComposedInv

\* A row that fails.
LEMMA FailStep ==
    ASSUME ComposedInv, [Next]_vars, NEW q \in Queries, status[q] # "none",
           Fail(q), UNCHANGED <<file, refs>>
    PROVE  Derived!Fail(q)
<1>1. Phase' = [Phase EXCEPT ![q] = "failed"] /\ Phase[q] # "none"
  BY DEF Fail, Phase, ComposedInv, TypeOK, Open
<1>2. \A r \in Joins : Answer'[r] = Answer[r]
  BY AnswersKept
<1>3. Answer' = Answer
  BY <1>2 DEF Answer
<1>. QED  BY <1>1, <1>3, InputsKept DEF Derived!Fail, ComposedInv

\* A leg that lands on its own file.
LEMMA LegStep ==
    ASSUME ComposedInv, [Next]_vars, NEW q \in Legs, Land(q, q), UNCHANGED refs
    PROVE  [Derived!Next]_<<Phase, refs, sql, file, Answer>>
<1>1. CASE status[q] \notin Open
  BY <1>1, StutterStep DEF Land, Phase
<1>2. CASE status[q] \in Open
  <2>1. /\ status' = [status EXCEPT ![q] = "ready"]
        /\ file' = [file EXCEPT ![q] = q]
    BY <1>2 DEF Land
  <2>2. Phase[q] = "open" /\ Phase' = [Phase EXCEPT ![q] = "ready"]
    BY <1>2, <2>1 DEF Phase, ComposedInv, TypeOK, Open, Queries
  <2>3. \A r \in Joins : Answer'[r] = Answer[r]
    BY <2>1, AnswersKept, ConstantsAssumption DEF ComposedInv, TypeOK, Queries
  <2>4. Answer' = Answer
    BY <2>3 DEF Answer
  <2>5. Derived!AnswerLeg(q)
    BY <2>1, <2>2, <2>4, InputsKept
       DEF Derived!AnswerLeg, Derived!Move, Derived!Names, ComposedInv
  <2>. QED  BY <2>5 DEF Derived!Next
<1>. QED  BY <1>1, <1>2

\* A join that lands on a file, its own or one another join names, that was
\* computed by its SQL from what it has read.
LEMMA JoinStep ==
    ASSUME ComposedInv, [Next]_vars, NEW q \in Joins, NEW f \in Joins,
           f = q \/ \E r \in Joins : file[r] = f,
           Land(q, f), UNCHANGED refs,
           Unread(q) = {}, Unread(f) = {}, ResultsKey(f) = ResultsKey(q)
    PROVE  [Derived!Next]_<<Phase, refs, sql, file, Answer>>
<1>. TypeOK /\ RunsHaveQueries /\ OpenHasNoFile
  BY DEF ComposedInv
<1>1. CASE status[q] \notin Open
  BY <1>1, StutterStep DEF Land, Phase
<1>2. CASE status[q] \in Open
  <2>1. /\ status' = [status EXCEPT ![q] = "ready"]
        /\ file' = [file EXCEPT ![q] = f]
        /\ file[q] = NoFile /\ file'[q] = f /\ f # NoFile
    BY <1>2, ConstantsAssumption
       DEF Land, OpenHasNoFile, TypeOK, Ended, Open, Queries
  <2>2. Phase[q] = "open" /\ Phase' = [Phase EXCEPT ![q] = "ready"]
    BY <1>2, <2>1 DEF Phase, TypeOK, Open, Queries
  <2>3. \A t \in Places : /\ inputs[q][t] = file[refs[q][t]]
                          /\ file[refs[q][t]] # NoFile
    BY DEF ComposedInv, InputsAreFiles, Unread
  <2>4. inputs[q] = [t \in Places |-> file[refs[q][t]]]
    BY <2>3 DEF TypeOK
  <2>5. UNCHANGED sql /\ inputs'[f] = inputs[f]
    BY InputsKept
  <2>6. sql[f] = sql[q] /\ inputs[f] = inputs[q]
    BY DEF ResultsKey
  <2>7. Answer'[q] = <<sql[q], [t \in Places |-> file[refs[q][t]]]>>
    BY <2>1, <2>4, <2>5, <2>6 DEF Answer
  <2>8. \A r \in Joins \ {q} : Answer'[r] = Answer[r]
    BY <2>1, AnswersKept DEF TypeOK, Queries
  <2>9. Answer' = [Answer EXCEPT ![q] =
                      <<sql[q], [t \in Places |-> file[refs[q][t]]]>>]
    BY <2>7, <2>8 DEF Answer
  <2>10. \/ f = q
         \/ \E r \in Joins : file[r] = f /\ Answer[r] = Answer'[q]
    <3>1. ASSUME NEW r \in Joins, file[r] = f
          PROVE  Answer[r] = Answer'[q]
      BY <2>1, <2>4, <2>6, <2>7, <3>1 DEF Answer
    <3>. QED  BY <3>1
  <2>11. Derived!AnswerJoin(q)
    BY <2>1, <2>2, <2>3, <2>5, <2>9, <2>10
       DEF Derived!AnswerJoin, Derived!Move, Derived!Names
  <2>. QED  BY <2>11 DEF Derived!Next
<1>. QED  BY <1>1, <1>2

\* Seen through their rows, composed queries are answered at once: whatever a
\* run waits for, finds in the cache, or loses to a cancellation in between,
\* when it lands it lands on what its SQL says of the files its references
\* name at that moment (runDuckdbQuery, executeAsyncDuckdbSourceQuery).
THEOREM JoinsAreAnsweredAtOnce == Spec => ImplementsDerived
<1>. DEFINE DNext == [Derived!Next]_<<Phase, refs, sql, file, Answer>>
<1>1. Init => Derived!Init
  <2>. SUFFICES ASSUME Init  PROVE Derived!Init
    OBVIOUS
  <2>1. Phase = [q \in Queries |-> "none"] /\ Answer = [q \in Joins |-> <<>>]
    BY DEF Init, Phase, Answer, Open, Queries
  <2>2. refs \in [Joins -> [Places -> Queries]]
    BY InitInv DEF ComposedInv, TypeOK
  <2>. QED
    BY <2>1, <2>2
       DEF Init, Derived!Init, Derived!NoAnswer, Derived!Queries, Queries
<1>2. ComposedInv /\ [Next]_vars
        => [Derived!Next]_<<Phase, refs, sql, file, Answer>>
  <2>. SUFFICES ASSUME ComposedInv, [Next]_vars
                PROVE  DNext
    OBVIOUS
  <2>. USE DEF row, request, job, run
  <2>. TypeOK /\ RunsHaveQueries /\ OpenHasNoFile /\ ClaimsAreExclusive
    BY DEF ComposedInv
  <2>1. ASSUME UNCHANGED <<Phase, file, refs>>
        PROVE  DNext
    BY <2>1, StutterStep
  <2>2. ASSUME NEW q \in Queries, status[q] # "none", Fail(q),
               UNCHANGED <<file, refs>>
        PROVE  DNext
    BY <2>2, FailStep DEF Derived!Next, Derived!Queries, Queries
  <2>3. ASSUME UNCHANGED <<status, file, refs>>
        PROVE  DNext
    BY <2>1, <2>3 DEF Phase
  <2>4. ASSUME NEW q \in Queries, SubmitLeg(q)
        PROVE  DNext
    <3>1. /\ q \in Legs /\ status[q] = "none"
          /\ status' = [status EXCEPT ![q] = "waiting"]
          /\ UNCHANGED <<file, refs>>
      BY <2>4 DEF SubmitLeg, Insert, Exists
    <3>2. Phase[q] = "none" /\ Phase' = [Phase EXCEPT ![q] = "open"]
      BY <3>1 DEF Phase, TypeOK, Open
    <3>3. \A r \in Joins : Answer'[r] = Answer[r]
      BY <3>1, AnswersKept
    <3>4. Answer' = Answer
      BY <3>3 DEF Answer
    <3>5. Derived!SubmitLeg(q)
      BY <3>1, <3>2, <3>4, InputsKept DEF Derived!SubmitLeg, Derived!Move
    <3>. QED  BY <3>1, <3>5 DEF Derived!Next
  <2>5. ASSUME NEW q \in Queries, SubmitCachedLeg(q)
        PROVE  DNext
    <3>1. /\ q \in Legs /\ status[q] = "none"
          /\ status' = [status EXCEPT ![q] = "ready"]
          /\ \E l \in Legs : file[l] # NoFile /\ file' = [file EXCEPT ![q] = file[l]]
          /\ UNCHANGED refs
      BY <2>5 DEF SubmitCachedLeg, Insert, Exists
    <3>2. Phase[q] = "none" /\ Phase' = [Phase EXCEPT ![q] = "ready"]
      BY <3>1 DEF Phase, TypeOK, Open
    <3>3. \A r \in Joins : file'[r] = file[r]
      BY <3>1, ConstantsAssumption DEF TypeOK, Queries
    <3>4. \A r \in Joins : Answer'[r] = Answer[r]
      BY <3>3, AnswersKept
    <3>5. Answer' = Answer
      BY <3>4 DEF Answer
    <3>6. Derived!ReuseLeg(q)
      BY <3>1, <3>2, <3>5, InputsKept
         DEF Derived!ReuseLeg, Derived!Move, Derived!Names
    <3>. QED  BY <3>1, <3>6 DEF Derived!Next
  <2>6. ASSUME NEW q \in Queries, SubmitJoin(q)
        PROVE  DNext
    <3>1. /\ q \in Joins /\ status[q] = "none"
          /\ status' = [status EXCEPT ![q] = "waiting"]
          /\ \E r \in [Places -> Referable] : refs' = [refs EXCEPT ![q] = r]
          /\ UNCHANGED file
      BY <2>6 DEF SubmitJoin, Insert, Exists
    <3>2. Phase[q] = "none" /\ Phase' = [Phase EXCEPT ![q] = "open"]
      BY <3>1 DEF Phase, TypeOK, Open
    <3>3. \A r \in Joins : Answer'[r] = Answer[r]
      BY <3>1, AnswersKept
    <3>4. Answer' = Answer
      BY <3>3 DEF Answer
    <3>5. Referable \subseteq {r \in Queries : Phase[r] # "none"}
      BY DEF Referable, Phase, ComposedInv, SubmittedHasRow, Open
    <3>6. \E r \in [Places -> {s \in Queries : Phase[s] # "none"}] :
             refs' = [refs EXCEPT ![q] = r]
      BY <3>1, <3>5
    <3>7. Derived!SubmitJoin(q)
      BY <3>1, <3>2, <3>4, <3>6, InputsKept
         DEF Derived!SubmitJoin, Derived!Move, Derived!Queries, Queries
    <3>. QED  BY <3>1, <3>7 DEF Derived!Next
  <2>7. ASSUME NEW q \in Queries, Publish(q) \/ PublishThrows(q) \/ Launch(q)
        PROVE  DNext
    BY <2>3, <2>7 DEF Publish, PublishThrows, Launch
  <2>8. ASSUME NEW q \in Queries, EnqueueFailed(q) \/ CancelQuery(q)
        PROVE  DNext
    <3>1. status[q] # "none"
      BY <2>8 DEF EnqueueFailed, CancelQuery, Exists, ComposedInv, SubmittedHasRow
    <3>. QED  BY <2>2, <2>8, <3>1 DEF EnqueueFailed, CancelQuery
  <2>9. ASSUME NEW q \in Queries, EndElsewhere(q)
        PROVE  DNext
    <3>1. q \in Legs /\ status[q] # "none" /\ UNCHANGED refs
      BY <2>9 DEF EndElsewhere
    <3>2. CASE Land(q, q)
      BY <3>1, <3>2, LegStep
    <3>3. CASE Fail(q) /\ UNCHANGED file
      BY <2>2, <3>1, <3>3
    <3>. QED  BY <2>9, <3>2, <3>3 DEF EndElsewhere
  <2>10. ASSUME NEW p \in Procs, Claim(p)
         PROVE  DNext
    <3>1. Claims(p)
      BY <2>10, ClaimFacts
    <3>2. Phase' = Phase
      BY <3>1 DEF Claims, Phase, Open
    <3>. QED  BY <2>1, <3>1, <3>2 DEF Claims, Others
  <2>11. ASSUME NEW p \in Procs,
                \/ Expire(p) \/ BuildThrows(p) \/ PollThrows(p)
                \/ WaitTimesOut(p) \/ BindThrows(p) \/ Refuse(p) \/ RunThrows(p)
         PROVE  DNext
    <3>1. /\ pc[p] # "idle" /\ (Claimed(p) \/ status[on[p]] = "waiting")
          /\ FailJob(p) \/ Refuse(p)
      BY <2>11 DEF Expire, BuildThrows, PollThrows, WaitTimesOut, BindThrows,
                   Refuse, RunThrows, Claimed, IsBound
    <3>2. on[p] \in Queries /\ status[on[p]] # "none"
      BY <3>1 DEF RunsHaveQueries, ClaimsAreExclusive
    <3>3. Fail(on[p]) /\ UNCHANGED <<file, refs>>
      BY <3>1 DEF FailJob, Refuse
    <3>. QED  BY <2>2, <3>2, <3>3
  <2>12. ASSUME NEW p \in Procs, RunLeg(p)
         PROVE  DNext
    <3>1. on[p] \in Legs /\ status[on[p]] # "none" /\ UNCHANGED refs
      BY <2>12 DEF RunLeg, RunsHaveQueries, ClaimsAreExclusive, Claimed
    <3>2. CASE Land(on[p], on[p])
      BY <3>1, <3>2, LegStep
    <3>3. CASE Fail(on[p]) /\ UNCHANGED file
      BY <2>2, <3>1, <3>3 DEF Queries
    <3>. QED  BY <2>12, <3>2, <3>3 DEF RunLeg
  <2>13. ASSUME NEW p \in Procs,
                \/ Fetch(p) \/ BuildArgs(p) \/ PollReads(p) \/ CacheHit(p)
                \/ CacheMiss(p) \/ MarkDuckdbCacheHit(p)
                \/ ResolveColumns(p) \/ Crash(p)
         PROVE  DNext
    BY <2>3, <2>13 DEF Fetch, BuildArgs, PollReads, CacheHit, CacheMiss,
                       MarkDuckdbCacheHit, ResolveColumns, Crash
  <2>14. ASSUME NEW p \in Procs, LandResults(p)
         PROVE  DNext
    <3>1. /\ pc[p] = "execute" /\ on[p] \in Joins /\ UNCHANGED refs
          /\ Land(on[p], on[p])
      BY <2>14 DEF LandResults, RunsHaveQueries, JoinPC, JobPC
    <3>2. Unread(on[p]) = {}
      BY <3>1 DEF ComposedInv, InputsAreRead, BoundPC
    <3>. QED  BY <3>1, <3>2, JoinStep
  <2>15. ASSUME NEW p \in Procs, LandDuckdbCacheHit(p)
         PROVE  DNext
    <3>1. /\ pc[p] = "land_hit" /\ on[p] \in Joins /\ UNCHANGED refs
          /\ Land(on[p], hit[on[p]])
      BY <2>15 DEF LandDuckdbCacheHit, RunsHaveQueries, JoinPC, JobPC
    <3>2. hit[on[p]] \in keyed /\ ResultsKey(hit[on[p]]) = ResultsKey(on[p])
      BY <3>1 DEF ComposedInv, FilesMatch, SameKey
    <3>3. Unread(on[p]) = {} /\ Unread(hit[on[p]]) = {} /\ hit[on[p]] \in Joins
      BY <3>1, <3>2 DEF ComposedInv, InputsAreRead, BoundPC, TypeOK
    <3>4. \E r \in Joins : file[r] = hit[on[p]]
      BY <3>1 DEF ComposedInv, HitsAreNamed
    <3>. QED  BY <3>1, <3>2, <3>3, <3>4, JoinStep
  <2>16. CASE UNCHANGED vars
    BY <2>3, <2>16 DEF vars
  <2>. HIDE DEF DNext, row, request, job, run
  <2>. QED
    BY <2>4, <2>5, <2>6, <2>7, <2>8, <2>9, <2>10, <2>11, <2>12, <2>13, <2>14,
       <2>15, <2>16 DEF Next, UserStep, SubmitStep, JobStep
<1>. QED
  BY <1>1, <1>2, InductiveInvariant, PTL
     DEF Spec, ImplementsDerived, Derived!Spec
=============================================================================
