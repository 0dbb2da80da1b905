------------------------ MODULE MigrationLeaseProofs ------------------------
(***************************************************************************)
(* Proofs about MigrationLease for every set of runners and releases,      *)
(* every number of attempts and every combination of faults.               *)
(***************************************************************************)
EXTENDS MigrationLease, TLAPS

\* A migration that ends is added to those that are done; none is removed.
LEMMA CompleteExtends ==
    ASSUME done \in Seq(Migrations), NEW m \in Migrations, Complete(m)
    PROVE  done' \in Seq(Migrations) /\ Completed \subseteq Completed'
<1>1. CASE m \in Completed
  BY <1>1 DEF Complete, Completed
<1>2. CASE m \notin Completed
  <2>1. done' = Append(done, m)
    BY <1>2 DEF Complete
  <2>2. Len(done') = Len(done) + 1 /\ \A i \in 1..Len(done) : done'[i] = done[i]
    BY <2>1
  <2>. QED  BY <2>1, <2>2 DEF Completed
<1>. QED  BY <1>1, <1>2

\* What is done changes with knex_migrations only.
LEMMA CompletedKept ==
    ASSUME UNCHANGED done
    PROVE  Completed' = Completed
  BY DEF Completed

\* There is a first attempt.
LEMMA MaxAttemptsIsPositive == MaxAttempts \in Nat \ {0}
  BY MigrationAssumption, Zenon DEF MigrationAssumption

\* Files that are not pending are done, and pending ones are migrations.
LEMMA PendingFiles ==
    ASSUME NEW r \in Runners
    PROVE  /\ Pending(r) \subseteq Migrations
           /\ FilesOf(r) \subseteq Completed \cup Pending(r)
  BY MigrationAssumption DEF MigrationAssumption, Pending, FilesOf, Migrations

\* The types.
LEMMA TypeStep ==
    ASSUME TypeOK, [Next]_vars
    PROVE  TypeOK'
<1>. USE DEF TypeOK, Places, Following, Holding, Outcomes, database,
     lease, run, Goto
<1>1. ASSUME NEW r \in Runners, Start(r)
      PROVE  TypeOK'
  BY <1>1 DEF Start
<1>2. ASSUME NEW r \in Runners, ClaimAcquired(r)
      PROVE  TypeOK'
  BY <1>2 DEF ClaimAcquired, CanClaim, Claimable
<1>3. ASSUME NEW r \in Runners, ClaimHeld(r)
      PROVE  TypeOK'
  BY <1>3 DEF ClaimHeld
<1>4. ASSUME NEW r \in Runners, FollowState(r)
      PROVE  TypeOK'
  <2>1. CASE Refuses(r)
    BY <1>4, <2>1 DEF FollowState
  <2>2. CASE ~Refuses(r)
    <3>1. /\ pc' = [pc EXCEPT ![r] = "deciding"]
          /\ plan' = [plan EXCEPT ![r] = Pending(r)]
      BY <1>4, <2>2 DEF FollowState, ReadPending
    <3>. QED  BY <1>4, <3>1, PendingFiles DEF FollowState
  <2>. QED  BY <2>1, <2>2
<1>5. ASSUME NEW r \in Runners, FollowLease(r)
      PROVE  TypeOK'
  BY <1>5 DEF FollowLease
<1>6. ASSUME NEW r \in Runners, Sleep(r)
      PROVE  TypeOK'
  BY <1>6 DEF Sleep
<1>7. ASSUME NEW r \in Runners, WaitTimesOut(r)
      PROVE  TypeOK'
  BY <1>7 DEF WaitTimesOut
<1>8. ASSUME NEW r \in Runners, BeginAttempt(r)
      PROVE  TypeOK'
  BY PendingFiles, <1>8 DEF BeginAttempt, ReadPending
<1>9. ASSUME NEW r \in Runners, ClearKnexLock(r)
      PROVE  TypeOK'
  BY <1>9 DEF ClearKnexLock
<1>10. ASSUME NEW r \in Runners, SetCurrentMigration(r)
      PROVE  TypeOK'
  BY <1>10 DEF SetCurrentMigration
<1>11. ASSUME NEW r \in Runners, StartMigration(r)
      PROVE  TypeOK'
  BY <1>11 DEF StartMigration
<1>12. ASSUME NEW r \in Runners, KnexLocked(r)
      PROVE  TypeOK'
  BY <1>12 DEF KnexLocked
<1>13. ASSUME NEW r \in Runners, FinishMigration(r)
      PROVE  TypeOK'
  BY CompleteExtends, <1>13 DEF FinishMigration
<1>14. ASSUME NEW r \in Runners, MigrationFails(r)
      PROVE  TypeOK'
  BY CompleteExtends, <1>14 DEF MigrationFails
<1>15. ASSUME NEW r \in Runners, ReadNextState(r)
      PROVE  TypeOK'
  BY PendingFiles, <1>15 DEF ReadNextState, ReadPending
<1>16. ASSUME NEW r \in Runners, RunGraphileMigrations(r)
      PROVE  TypeOK'
  BY <1>16 DEF RunGraphileMigrations
<1>17. ASSUME NEW r \in Runners, ClearCurrentMigration(r)
      PROVE  TypeOK'
  BY <1>17 DEF ClearCurrentMigration
<1>18. ASSUME NEW r \in Runners, AttemptThrows(r)
      PROVE  TypeOK'
  BY <1>18 DEF AttemptThrows
<1>19. ASSUME NEW r \in Runners, RecordRetry(r)
      PROVE  TypeOK'
  <2>1. attempt[r] + 1 \in 1..MaxAttempts
    BY <1>19, MaxAttemptsIsPositive DEF RecordRetry
  <2>2. attempt' \in [Runners -> 1..MaxAttempts]
    BY <1>19, <2>1 DEF RecordRetry
  <2>. QED  BY <1>19, <2>2 DEF RecordRetry
<1>20. ASSUME NEW r \in Runners, ParkRun(r)
      PROVE  TypeOK'
  <2>1. Version[r] \in Versions
    BY MigrationAssumption DEF MigrationAssumption
  <2>2. outcome' \in [Runners -> Outcomes] /\ pc' \in [Runners -> Places]
    BY <1>20 DEF ParkRun
  <2>. QED  BY <1>20, <2>1, <2>2 DEF ParkRun, Free
<1>21. ASSUME NEW r \in Runners, CompleteRun(r)
      PROVE  TypeOK'
  BY <1>21 DEF CompleteRun, Free
<1>22. ASSUME NEW r \in Runners, CallThrows(r)
      PROVE  TypeOK'
  BY <1>22 DEF CallThrows
<1>23. ASSUME NEW r \in Runners, Beat(r)
      PROVE  TypeOK'
  BY <1>23 DEF Beat
<1>24. ASSUME NEW r \in Runners, LoseLease(r)
      PROVE  TypeOK'
  BY CompleteExtends, <1>24 DEF LoseLease, Die
<1>25. ASSUME NEW r \in Runners, Crash(r)
      PROVE  TypeOK'
  BY CompleteExtends, <1>25 DEF Crash, Die
<1>26. CASE Expire
  BY <1>26 DEF Expire
<1>27. CASE CheckUnlock
  BY <1>27 DEF CheckUnlock
<1>28. CASE Unlock
  BY <1>28 DEF Unlock, Free
<1>29. CASE ForceUnlock
  BY <1>29 DEF ForceUnlock, Free
<1>30. CASE UnlockClearsKnexLock
  BY <1>30 DEF UnlockClearsKnexLock
<1>31. CASE UNCHANGED vars
  BY <1>31 DEF vars
<1>. QED
  BY <1>1, <1>2, <1>3, <1>4, <1>5, <1>6, <1>7, <1>8, <1>9, <1>10, <1>11,
       <1>12, <1>13, <1>14, <1>15, <1>16, <1>17, <1>18, <1>19, <1>20, <1>21,
       <1>22, <1>23, <1>24, <1>25, <1>26, <1>27, <1>28, <1>29, <1>30, <1>31
       DEF Next, Run

\* Nobody claims a fresh lease, and a lease only grows old behind a dead holder.
LEMMA WorkersStep ==
    ASSUME TypeOK, WorkersHold, [Next]_vars
    PROVE  WorkersHold'
<1>. USE DEF TypeOK, WorkersHold, Places, Following, Holding, Claimable,
     Owns, database, lease, run, Goto
<1>1. ASSUME NEW r \in Runners, Start(r)
      PROVE  WorkersHold'
  BY <1>1 DEF Start
<1>2. ASSUME NEW r \in Runners, ClaimAcquired(r)
      PROVE  WorkersHold'
  BY MigrationAssumption, <1>2 DEF ClaimAcquired, CanClaim, Claimable
<1>3. ASSUME NEW r \in Runners, ClaimHeld(r)
      PROVE  WorkersHold'
  BY <1>3 DEF ClaimHeld
<1>4. ASSUME NEW r \in Runners, FollowState(r)
      PROVE  WorkersHold'
  BY <1>4 DEF FollowState
<1>5. ASSUME NEW r \in Runners, FollowLease(r)
      PROVE  WorkersHold'
  BY <1>5 DEF FollowLease
<1>6. ASSUME NEW r \in Runners, Sleep(r)
      PROVE  WorkersHold'
  BY <1>6 DEF Sleep
<1>7. ASSUME NEW r \in Runners, WaitTimesOut(r)
      PROVE  WorkersHold'
  BY <1>7 DEF WaitTimesOut
<1>8. ASSUME NEW r \in Runners, BeginAttempt(r)
      PROVE  WorkersHold'
  BY <1>8 DEF BeginAttempt
<1>9. ASSUME NEW r \in Runners, ClearKnexLock(r)
      PROVE  WorkersHold'
  BY <1>9 DEF ClearKnexLock
<1>10. ASSUME NEW r \in Runners, SetCurrentMigration(r)
      PROVE  WorkersHold'
  BY <1>10 DEF SetCurrentMigration
<1>11. ASSUME NEW r \in Runners, StartMigration(r)
      PROVE  WorkersHold'
  BY <1>11 DEF StartMigration
<1>12. ASSUME NEW r \in Runners, KnexLocked(r)
      PROVE  WorkersHold'
  BY <1>12 DEF KnexLocked
<1>13. ASSUME NEW r \in Runners, FinishMigration(r)
      PROVE  WorkersHold'
  BY <1>13 DEF FinishMigration
<1>14. ASSUME NEW r \in Runners, MigrationFails(r)
      PROVE  WorkersHold'
  BY <1>14 DEF MigrationFails
<1>15. ASSUME NEW r \in Runners, ReadNextState(r)
      PROVE  WorkersHold'
  BY <1>15 DEF ReadNextState
<1>16. ASSUME NEW r \in Runners, RunGraphileMigrations(r)
      PROVE  WorkersHold'
  BY <1>16 DEF RunGraphileMigrations
<1>17. ASSUME NEW r \in Runners, ClearCurrentMigration(r)
      PROVE  WorkersHold'
  BY <1>17 DEF ClearCurrentMigration
<1>18. ASSUME NEW r \in Runners, AttemptThrows(r)
      PROVE  WorkersHold'
  BY <1>18 DEF AttemptThrows
<1>19. ASSUME NEW r \in Runners, RecordRetry(r)
      PROVE  WorkersHold'
  BY <1>19 DEF RecordRetry
<1>20. ASSUME NEW r \in Runners, ParkRun(r)
      PROVE  WorkersHold'
  BY <1>20 DEF ParkRun, Free
<1>21. ASSUME NEW r \in Runners, CompleteRun(r)
      PROVE  WorkersHold'
  <2>1. pc'[r] \notin Holding
    BY <1>21 DEF CompleteRun
  <2>2. \A s \in Runners \ {r} : pc'[s] = pc[s]
    BY <1>21 DEF CompleteRun
  <2>3. CASE Owns(r)
    BY <2>1, <2>2, <2>3
  <2>4. CASE ~Owns(r)
    BY <1>21, <2>1, <2>2, <2>4 DEF CompleteRun
  <2>. QED  BY <2>3, <2>4
<1>22. ASSUME NEW r \in Runners, CallThrows(r)
      PROVE  WorkersHold'
  BY <1>22 DEF CallThrows
<1>23. ASSUME NEW r \in Runners, Beat(r)
      PROVE  WorkersHold'
  BY <1>23 DEF Beat
<1>24. ASSUME NEW r \in Runners, LoseLease(r)
      PROVE  WorkersHold'
  BY <1>24 DEF LoseLease, Die
<1>25. ASSUME NEW r \in Runners, Crash(r)
      PROVE  WorkersHold'
  BY <1>25 DEF Crash, Die
<1>26. CASE Expire
  BY <1>26 DEF Expire
<1>27. CASE CheckUnlock
  BY <1>27 DEF CheckUnlock
<1>28. CASE Unlock
  BY MigrationAssumption, <1>28 DEF Unlock, Free
<1>29. CASE ForceUnlock
  BY <1>29 DEF ForceUnlock, Free
<1>30. CASE UnlockClearsKnexLock
  BY <1>30 DEF UnlockClearsKnexLock
<1>31. CASE UNCHANGED vars
  BY <1>31 DEF vars
<1>. QED
  BY <1>1, <1>2, <1>3, <1>4, <1>5, <1>6, <1>7, <1>8, <1>9, <1>10, <1>11,
       <1>12, <1>13, <1>14, <1>15, <1>16, <1>17, <1>18, <1>19, <1>20, <1>21,
       <1>22, <1>23, <1>24, <1>25, <1>26, <1>27, <1>28, <1>29, <1>30, <1>31
       DEF Next, Run

\* What is done stays done.
LEMMA CompletedStep ==
    ASSUME TypeOK, [Next]_vars
    PROVE  Completed \subseteq Completed' /\ (graphile => graphile')
<1>. USE DEF TypeOK, database, lease, run, Goto
<1>1. ASSUME NEW r \in Runners, Start(r)
      PROVE  Completed \subseteq Completed' /\ (graphile => graphile')
  BY CompletedKept, <1>1 DEF Start
<1>2. ASSUME NEW r \in Runners, ClaimAcquired(r)
      PROVE  Completed \subseteq Completed' /\ (graphile => graphile')
  BY CompletedKept, <1>2 DEF ClaimAcquired, CanClaim, Claimable
<1>3. ASSUME NEW r \in Runners, ClaimHeld(r)
      PROVE  Completed \subseteq Completed' /\ (graphile => graphile')
  BY CompletedKept, <1>3 DEF ClaimHeld
<1>4. ASSUME NEW r \in Runners, FollowState(r)
      PROVE  Completed \subseteq Completed' /\ (graphile => graphile')
  BY CompletedKept, <1>4 DEF FollowState
<1>5. ASSUME NEW r \in Runners, FollowLease(r)
      PROVE  Completed \subseteq Completed' /\ (graphile => graphile')
  BY CompletedKept, <1>5 DEF FollowLease
<1>6. ASSUME NEW r \in Runners, Sleep(r)
      PROVE  Completed \subseteq Completed' /\ (graphile => graphile')
  BY CompletedKept, <1>6 DEF Sleep
<1>7. ASSUME NEW r \in Runners, WaitTimesOut(r)
      PROVE  Completed \subseteq Completed' /\ (graphile => graphile')
  BY CompletedKept, <1>7 DEF WaitTimesOut
<1>8. ASSUME NEW r \in Runners, BeginAttempt(r)
      PROVE  Completed \subseteq Completed' /\ (graphile => graphile')
  BY CompletedKept, <1>8 DEF BeginAttempt
<1>9. ASSUME NEW r \in Runners, ClearKnexLock(r)
      PROVE  Completed \subseteq Completed' /\ (graphile => graphile')
  BY CompletedKept, <1>9 DEF ClearKnexLock
<1>10. ASSUME NEW r \in Runners, SetCurrentMigration(r)
      PROVE  Completed \subseteq Completed' /\ (graphile => graphile')
  BY CompletedKept, <1>10 DEF SetCurrentMigration
<1>11. ASSUME NEW r \in Runners, StartMigration(r)
      PROVE  Completed \subseteq Completed' /\ (graphile => graphile')
  BY CompletedKept, <1>11 DEF StartMigration
<1>12. ASSUME NEW r \in Runners, KnexLocked(r)
      PROVE  Completed \subseteq Completed' /\ (graphile => graphile')
  BY CompletedKept, <1>12 DEF KnexLocked
<1>13. ASSUME NEW r \in Runners, FinishMigration(r)
      PROVE  Completed \subseteq Completed' /\ (graphile => graphile')
  BY CompleteExtends, CompletedKept, <1>13 DEF FinishMigration
<1>14. ASSUME NEW r \in Runners, MigrationFails(r)
      PROVE  Completed \subseteq Completed' /\ (graphile => graphile')
  BY CompleteExtends, CompletedKept, <1>14 DEF MigrationFails
<1>15. ASSUME NEW r \in Runners, ReadNextState(r)
      PROVE  Completed \subseteq Completed' /\ (graphile => graphile')
  BY CompletedKept, <1>15 DEF ReadNextState
<1>16. ASSUME NEW r \in Runners, RunGraphileMigrations(r)
      PROVE  Completed \subseteq Completed' /\ (graphile => graphile')
  BY CompletedKept, <1>16 DEF RunGraphileMigrations
<1>17. ASSUME NEW r \in Runners, ClearCurrentMigration(r)
      PROVE  Completed \subseteq Completed' /\ (graphile => graphile')
  BY CompletedKept, <1>17 DEF ClearCurrentMigration
<1>18. ASSUME NEW r \in Runners, AttemptThrows(r)
      PROVE  Completed \subseteq Completed' /\ (graphile => graphile')
  BY CompletedKept, <1>18 DEF AttemptThrows
<1>19. ASSUME NEW r \in Runners, RecordRetry(r)
      PROVE  Completed \subseteq Completed' /\ (graphile => graphile')
  BY CompletedKept, <1>19 DEF RecordRetry
<1>20. ASSUME NEW r \in Runners, ParkRun(r)
      PROVE  Completed \subseteq Completed' /\ (graphile => graphile')
  BY CompletedKept, <1>20 DEF ParkRun, Free
<1>21. ASSUME NEW r \in Runners, CompleteRun(r)
      PROVE  Completed \subseteq Completed' /\ (graphile => graphile')
  BY CompletedKept, <1>21 DEF CompleteRun, Free
<1>22. ASSUME NEW r \in Runners, CallThrows(r)
      PROVE  Completed \subseteq Completed' /\ (graphile => graphile')
  BY CompletedKept, <1>22 DEF CallThrows
<1>23. ASSUME NEW r \in Runners, Beat(r)
      PROVE  Completed \subseteq Completed' /\ (graphile => graphile')
  BY CompletedKept, <1>23 DEF Beat
<1>24. ASSUME NEW r \in Runners, LoseLease(r)
      PROVE  Completed \subseteq Completed' /\ (graphile => graphile')
  BY CompleteExtends, CompletedKept, <1>24 DEF LoseLease, Die
<1>25. ASSUME NEW r \in Runners, Crash(r)
      PROVE  Completed \subseteq Completed' /\ (graphile => graphile')
  BY CompleteExtends, CompletedKept, <1>25 DEF Crash, Die
<1>26. CASE Expire
  BY CompletedKept, <1>26 DEF Expire
<1>27. CASE CheckUnlock
  BY CompletedKept, <1>27 DEF CheckUnlock
<1>28. CASE Unlock
  BY CompletedKept, <1>28 DEF Unlock, Free
<1>29. CASE ForceUnlock
  BY CompletedKept, <1>29 DEF ForceUnlock, Free
<1>30. CASE UnlockClearsKnexLock
  BY CompletedKept, <1>30 DEF UnlockClearsKnexLock
<1>31. CASE UNCHANGED vars
  BY CompletedKept, <1>31 DEF vars
<1>. QED
  BY <1>1, <1>2, <1>3, <1>4, <1>5, <1>6, <1>7, <1>8, <1>9, <1>10, <1>11,
       <1>12, <1>13, <1>14, <1>15, <1>16, <1>17, <1>18, <1>19, <1>20, <1>21,
       <1>22, <1>23, <1>24, <1>25, <1>26, <1>27, <1>28, <1>29, <1>30, <1>31
       DEF Next, Run

\* A runner leaves a migration out of its plan only because it is done.
LEMMA PlansStep ==
    ASSUME TypeOK, PlansCover, DoneIsMigrated, SucceededIsComplete,
         [Next]_vars
    PROVE  PlansCover' /\ DoneIsMigrated' /\ SucceededIsComplete'
<1>. USE DEF TypeOK, PlansCover, DoneIsMigrated, SucceededIsComplete,
     FilesOf, database, lease, run, Goto
<1>1. ASSUME NEW r \in Runners, Start(r)
      PROVE  PlansCover' /\ DoneIsMigrated' /\ SucceededIsComplete'
  BY CompletedStep, <1>1 DEF Start
<1>2. ASSUME NEW r \in Runners, ClaimAcquired(r)
      PROVE  PlansCover' /\ DoneIsMigrated' /\ SucceededIsComplete'
  BY CompletedStep, <1>2 DEF ClaimAcquired, CanClaim, Claimable
<1>3. ASSUME NEW r \in Runners, ClaimHeld(r)
      PROVE  PlansCover' /\ DoneIsMigrated' /\ SucceededIsComplete'
  BY CompletedStep, <1>3 DEF ClaimHeld
<1>4. ASSUME NEW r \in Runners, FollowState(r)
      PROVE  PlansCover' /\ DoneIsMigrated' /\ SucceededIsComplete'
  <2>1. CASE Refuses(r)
    BY <1>4, <2>1, CompletedStep DEF FollowState
  <2>2. CASE ~Refuses(r)
    <3>1. /\ pc' = [pc EXCEPT ![r] = "deciding"]
          /\ plan' = [plan EXCEPT ![r] = Pending(r)]
      BY <1>4, <2>2 DEF FollowState, ReadPending
    <3>. QED
      BY <1>4, <3>1, CompletedStep, PendingFiles
         DEF FollowState
  <2>. QED  BY <2>1, <2>2
<1>5. ASSUME NEW r \in Runners, FollowLease(r)
      PROVE  PlansCover' /\ DoneIsMigrated' /\ SucceededIsComplete'
  BY CompletedStep, <1>5 DEF FollowLease, PendingWork
<1>6. ASSUME NEW r \in Runners, Sleep(r)
      PROVE  PlansCover' /\ DoneIsMigrated' /\ SucceededIsComplete'
  BY CompletedStep, <1>6 DEF Sleep
<1>7. ASSUME NEW r \in Runners, WaitTimesOut(r)
      PROVE  PlansCover' /\ DoneIsMigrated' /\ SucceededIsComplete'
  BY CompletedStep, <1>7 DEF WaitTimesOut
<1>8. ASSUME NEW r \in Runners, BeginAttempt(r)
      PROVE  PlansCover' /\ DoneIsMigrated' /\ SucceededIsComplete'
  BY CompletedStep, PendingFiles, <1>8 DEF BeginAttempt, ReadPending
<1>9. ASSUME NEW r \in Runners, ClearKnexLock(r)
      PROVE  PlansCover' /\ DoneIsMigrated' /\ SucceededIsComplete'
  BY CompletedStep, <1>9 DEF ClearKnexLock
<1>10. ASSUME NEW r \in Runners, SetCurrentMigration(r)
      PROVE  PlansCover' /\ DoneIsMigrated' /\ SucceededIsComplete'
  BY CompletedStep, <1>10 DEF SetCurrentMigration
<1>11. ASSUME NEW r \in Runners, StartMigration(r)
      PROVE  PlansCover' /\ DoneIsMigrated' /\ SucceededIsComplete'
  BY CompletedStep, <1>11 DEF StartMigration
<1>12. ASSUME NEW r \in Runners, KnexLocked(r)
      PROVE  PlansCover' /\ DoneIsMigrated' /\ SucceededIsComplete'
  BY CompletedStep, <1>12 DEF KnexLocked
<1>13. ASSUME NEW r \in Runners, FinishMigration(r)
      PROVE  PlansCover' /\ DoneIsMigrated' /\ SucceededIsComplete'
  BY CompletedStep, <1>13 DEF FinishMigration
<1>14. ASSUME NEW r \in Runners, MigrationFails(r)
      PROVE  PlansCover' /\ DoneIsMigrated' /\ SucceededIsComplete'
  BY CompletedStep, <1>14 DEF MigrationFails
<1>15. ASSUME NEW r \in Runners, ReadNextState(r)
      PROVE  PlansCover' /\ DoneIsMigrated' /\ SucceededIsComplete'
  BY CompletedStep, PendingFiles, <1>15 DEF ReadNextState, ReadPending
<1>16. ASSUME NEW r \in Runners, RunGraphileMigrations(r)
      PROVE  PlansCover' /\ DoneIsMigrated' /\ SucceededIsComplete'
  BY CompletedStep, <1>16 DEF RunGraphileMigrations
<1>17. ASSUME NEW r \in Runners, ClearCurrentMigration(r)
      PROVE  PlansCover' /\ DoneIsMigrated' /\ SucceededIsComplete'
  BY CompletedStep, <1>17 DEF ClearCurrentMigration
<1>18. ASSUME NEW r \in Runners, AttemptThrows(r)
      PROVE  PlansCover' /\ DoneIsMigrated' /\ SucceededIsComplete'
  BY CompletedStep, <1>18 DEF AttemptThrows
<1>19. ASSUME NEW r \in Runners, RecordRetry(r)
      PROVE  PlansCover' /\ DoneIsMigrated' /\ SucceededIsComplete'
  BY CompletedStep, <1>19 DEF RecordRetry
<1>20. ASSUME NEW r \in Runners, ParkRun(r)
      PROVE  PlansCover' /\ DoneIsMigrated' /\ SucceededIsComplete'
  BY CompletedStep, <1>20 DEF ParkRun, Free
<1>21. ASSUME NEW r \in Runners, CompleteRun(r)
      PROVE  PlansCover' /\ DoneIsMigrated' /\ SucceededIsComplete'
  BY CompletedStep, <1>21 DEF CompleteRun, Free
<1>22. ASSUME NEW r \in Runners, CallThrows(r)
      PROVE  PlansCover' /\ DoneIsMigrated' /\ SucceededIsComplete'
  BY CompletedStep, <1>22 DEF CallThrows
<1>23. ASSUME NEW r \in Runners, Beat(r)
      PROVE  PlansCover' /\ DoneIsMigrated' /\ SucceededIsComplete'
  BY CompletedStep, <1>23 DEF Beat
<1>24. ASSUME NEW r \in Runners, LoseLease(r)
      PROVE  PlansCover' /\ DoneIsMigrated' /\ SucceededIsComplete'
  BY CompletedStep, <1>24 DEF LoseLease, Die
<1>25. ASSUME NEW r \in Runners, Crash(r)
      PROVE  PlansCover' /\ DoneIsMigrated' /\ SucceededIsComplete'
  BY CompletedStep, <1>25 DEF Crash, Die
<1>26. CASE Expire
  BY CompletedStep, <1>26 DEF Expire
<1>27. CASE CheckUnlock
  BY CompletedStep, <1>27 DEF CheckUnlock
<1>28. CASE Unlock
  BY CompletedStep, <1>28 DEF Unlock, Free
<1>29. CASE ForceUnlock
  BY CompletedStep, <1>29 DEF ForceUnlock, Free
<1>30. CASE UnlockClearsKnexLock
  BY CompletedStep, <1>30 DEF UnlockClearsKnexLock
<1>31. CASE UNCHANGED vars
  BY CompletedStep, <1>31 DEF vars
<1>. QED
  BY <1>1, <1>2, <1>3, <1>4, <1>5, <1>6, <1>7, <1>8, <1>9, <1>10, <1>11,
       <1>12, <1>13, <1>14, <1>15, <1>16, <1>17, <1>18, <1>19, <1>20, <1>21,
       <1>22, <1>23, <1>24, <1>25, <1>26, <1>27, <1>28, <1>29, <1>30, <1>31
       DEF Next, Run

\* A runner that moves has not ended, plans what is pending of its release, and
\* says how its run ended only when it ends.
LEMMA RunStep ==
    ASSUME TypeOK, [Next]_vars
    PROVE  \/ UNCHANGED <<pc, plan, outcome>>
           \/ \E r \in Runners :
                 /\ pc[r] \notin {"done", "exited"}
                 /\ \E p \in Places :
                       /\ Goto(r, p)
                       /\ \/ UNCHANGED outcome
                          \/ \E o \in {"running", "retrying", "parked"} :
                                outcome' = [outcome EXCEPT ![r] = o]
                          \/ /\ p \in {"done", "exited"}
                             /\ outcome' = [outcome EXCEPT ![r] = "succeeded"]
                 /\ UNCHANGED plan \/ ReadPending(r)
<1>. DEFINE Moves(r) ==
       /\ pc[r] \notin {"done", "exited"}
       /\ \E p \in Places :
             /\ Goto(r, p)
             /\ \/ UNCHANGED outcome
                \/ \E o \in {"running", "retrying", "parked"} :
                      outcome' = [outcome EXCEPT ![r] = o]
                \/ /\ p \in {"done", "exited"}
                   /\ outcome' = [outcome EXCEPT ![r] = "succeeded"]
       /\ UNCHANGED plan \/ ReadPending(r)
<1>. USE DEF Places, Following, Holding, run
<1>1. ASSUME NEW r \in Runners, Start(r) \/ FollowState(r)
      PROVE  Moves(r)
  BY <1>1 DEF Start, FollowState
<1>2. ASSUME NEW r \in Runners,
             \/ ClaimAcquired(r) \/ ClaimHeld(r) \/ FollowLease(r)
             \/ Sleep(r) \/ WaitTimesOut(r)
      PROVE  Moves(r)
  BY <1>2 DEF ClaimAcquired, ClaimHeld, FollowLease, Sleep, WaitTimesOut
<1>3. ASSUME NEW r \in Runners, BeginAttempt(r)
      PROVE  Moves(r)
  BY <1>3 DEF BeginAttempt
<1>4. ASSUME NEW r \in Runners,
             \/ ClearKnexLock(r) \/ StartMigration(r) \/ KnexLocked(r)
             \/ FinishMigration(r) \/ MigrationFails(r)
             \/ RunGraphileMigrations(r)
      PROVE  Moves(r)
  BY <1>4 DEF ClearKnexLock, StartMigration, KnexLocked, FinishMigration,
              MigrationFails, RunGraphileMigrations
<1>5. ASSUME NEW r \in Runners,
             \/ SetCurrentMigration(r) \/ ReadNextState(r)
             \/ ClearCurrentMigration(r) \/ AttemptThrows(r)
             \/ CallThrows(r)
      PROVE  Moves(r)
  BY <1>5 DEF SetCurrentMigration, ReadNextState, ClearCurrentMigration,
              AttemptThrows, CallThrows
<1>6. ASSUME NEW r \in Runners, RecordRetry(r) \/ ParkRun(r)
      PROVE  Moves(r)
  BY <1>6 DEF RecordRetry, ParkRun
<1>7. ASSUME NEW r \in Runners, CompleteRun(r)
      PROVE  Moves(r)
  BY <1>7 DEF CompleteRun
<1>8. ASSUME NEW r \in Runners, LoseLease(r) \/ Crash(r)
      PROVE  Moves(r)
  <2>1. pc[r] \in Places /\ pc[r] \notin {"done", "exited"}
    BY <1>8 DEF LoseLease, Crash, TypeOK
  <2>. QED  BY <1>8, <2>1 DEF LoseLease, Crash, Die
<1>9. ASSUME NEW r \in Runners, Beat(r)
      PROVE  UNCHANGED <<pc, plan, outcome>>
  BY <1>9 DEF Beat
<1>10. ASSUME Expire \/ CheckUnlock \/ Unlock \/ ForceUnlock
                \/ UnlockClearsKnexLock
       PROVE  UNCHANGED <<pc, plan, outcome>>
  BY <1>10 DEF Expire, CheckUnlock, Unlock, ForceUnlock, UnlockClearsKnexLock
<1>11. ASSUME UNCHANGED vars
       PROVE  UNCHANGED <<pc, plan, outcome>>
  BY <1>11 DEF vars
<1>. HIDE DEF Moves, Places, Following, Holding, run
<1>12. UNCHANGED <<pc, plan, outcome>> \/ \E r \in Runners : Moves(r)
  BY <1>1, <1>2, <1>3, <1>4, <1>5, <1>6, <1>7, <1>8, <1>9, <1>10, <1>11
     DEF Next, Run
<1>. QED  BY <1>12 DEF Moves

\* Runners plan migrations of their own release, and a success is the end.
LEMMA OwnStep ==
    ASSUME TypeOK, PlansAreOwn, SuccessIsLast, [Next]_vars
    PROVE  PlansAreOwn' /\ SuccessIsLast'
<1>1. CASE UNCHANGED <<pc, plan, outcome>>
  BY <1>1 DEF PlansAreOwn, SuccessIsLast, FilesOf
<1>2. ASSUME NEW r \in Runners, pc[r] \notin {"done", "exited"},
             NEW p \in Places, Goto(r, p),
             \/ UNCHANGED outcome
             \/ \E o \in {"running", "retrying", "parked"} :
                   outcome' = [outcome EXCEPT ![r] = o]
             \/ /\ p \in {"done", "exited"}
                /\ outcome' = [outcome EXCEPT ![r] = "succeeded"]
      PROVE  SuccessIsLast'
  BY <1>2 DEF TypeOK, SuccessIsLast, Goto
<1>3. ASSUME NEW r \in Runners, UNCHANGED plan \/ ReadPending(r)
      PROVE  PlansAreOwn'
  BY <1>3 DEF TypeOK, PlansAreOwn, ReadPending, Pending, FilesOf
<1>. QED  BY <1>1, <1>2, <1>3, RunStep

\* A parked version does not claim, and a version that parks frees the lease.
LEMMA ParkedStep ==
    ASSUME TypeOK, ParkedRests, [Next]_vars
    PROVE  ParkedRests'
<1>. USE DEF TypeOK, ParkedRests, database, lease, run, Goto
<1>1. ASSUME NEW r \in Runners, Start(r)
      PROVE  ParkedRests'
  BY <1>1 DEF Start
<1>2. ASSUME NEW r \in Runners, ClaimAcquired(r)
      PROVE  ParkedRests'
  BY <1>2 DEF ClaimAcquired, CanClaim, Claimable, CanClaim
<1>3. ASSUME NEW r \in Runners, ClaimHeld(r)
      PROVE  ParkedRests'
  BY <1>3 DEF ClaimHeld
<1>4. ASSUME NEW r \in Runners, FollowState(r)
      PROVE  ParkedRests'
  BY <1>4 DEF FollowState
<1>5. ASSUME NEW r \in Runners, FollowLease(r)
      PROVE  ParkedRests'
  BY <1>5 DEF FollowLease
<1>6. ASSUME NEW r \in Runners, Sleep(r)
      PROVE  ParkedRests'
  BY <1>6 DEF Sleep
<1>7. ASSUME NEW r \in Runners, WaitTimesOut(r)
      PROVE  ParkedRests'
  BY <1>7 DEF WaitTimesOut
<1>8. ASSUME NEW r \in Runners, BeginAttempt(r)
      PROVE  ParkedRests'
  BY <1>8 DEF BeginAttempt
<1>9. ASSUME NEW r \in Runners, ClearKnexLock(r)
      PROVE  ParkedRests'
  BY <1>9 DEF ClearKnexLock
<1>10. ASSUME NEW r \in Runners, SetCurrentMigration(r)
      PROVE  ParkedRests'
  BY <1>10 DEF SetCurrentMigration
<1>11. ASSUME NEW r \in Runners, StartMigration(r)
      PROVE  ParkedRests'
  BY <1>11 DEF StartMigration
<1>12. ASSUME NEW r \in Runners, KnexLocked(r)
      PROVE  ParkedRests'
  BY <1>12 DEF KnexLocked
<1>13. ASSUME NEW r \in Runners, FinishMigration(r)
      PROVE  ParkedRests'
  BY <1>13 DEF FinishMigration
<1>14. ASSUME NEW r \in Runners, MigrationFails(r)
      PROVE  ParkedRests'
  BY <1>14 DEF MigrationFails
<1>15. ASSUME NEW r \in Runners, ReadNextState(r)
      PROVE  ParkedRests'
  BY <1>15 DEF ReadNextState
<1>16. ASSUME NEW r \in Runners, RunGraphileMigrations(r)
      PROVE  ParkedRests'
  BY <1>16 DEF RunGraphileMigrations
<1>17. ASSUME NEW r \in Runners, ClearCurrentMigration(r)
      PROVE  ParkedRests'
  BY <1>17 DEF ClearCurrentMigration
<1>18. ASSUME NEW r \in Runners, AttemptThrows(r)
      PROVE  ParkedRests'
  BY <1>18 DEF AttemptThrows
<1>19. ASSUME NEW r \in Runners, RecordRetry(r)
      PROVE  ParkedRests'
  BY <1>19 DEF RecordRetry
<1>20. ASSUME NEW r \in Runners, ParkRun(r)
      PROVE  ParkedRests'
  BY <1>20 DEF ParkRun, Free, Owns
<1>21. ASSUME NEW r \in Runners, CompleteRun(r)
      PROVE  ParkedRests'
  BY <1>21 DEF CompleteRun, Free, Owns
<1>22. ASSUME NEW r \in Runners, CallThrows(r)
      PROVE  ParkedRests'
  BY <1>22 DEF CallThrows
<1>23. ASSUME NEW r \in Runners, Beat(r)
      PROVE  ParkedRests'
  BY <1>23 DEF Beat
<1>24. ASSUME NEW r \in Runners, LoseLease(r)
      PROVE  ParkedRests'
  BY <1>24 DEF LoseLease, Die
<1>25. ASSUME NEW r \in Runners, Crash(r)
      PROVE  ParkedRests'
  BY <1>25 DEF Crash, Die
<1>26. CASE Expire
  BY <1>26 DEF Expire
<1>27. CASE CheckUnlock
  BY <1>27 DEF CheckUnlock
<1>28. CASE Unlock
  BY <1>28 DEF Unlock, Free
<1>29. CASE ForceUnlock
  BY <1>29 DEF ForceUnlock, Free
<1>30. CASE UnlockClearsKnexLock
  BY <1>30 DEF UnlockClearsKnexLock
<1>31. CASE UNCHANGED vars
  BY <1>31 DEF vars
<1>. QED
  BY <1>1, <1>2, <1>3, <1>4, <1>5, <1>6, <1>7, <1>8, <1>9, <1>10, <1>11,
       <1>12, <1>13, <1>14, <1>15, <1>16, <1>17, <1>18, <1>19, <1>20, <1>21,
       <1>22, <1>23, <1>24, <1>25, <1>26, <1>27, <1>28, <1>29, <1>30, <1>31
       DEF Next, Run

\* The initial state satisfies the inductive invariant.
LEMMA InitMigrationInv == Init => MigrationInv
<1>1. Init => TypeOK
  <2>. SUFFICES ASSUME Init  PROVE TypeOK
    OBVIOUS
  <2>1. 1 \in 1..MaxAttempts
    BY MaxAttemptsIsPositive
  <2>2. attempt \in [Runners -> 1..MaxAttempts]
    BY <2>1 DEF Init
  <2>3. done \in Seq(Migrations)
    BY DEF Init
  <2>. QED  BY <2>2, <2>3 DEF Init, TypeOK, Places, Outcomes
<1>2. Init => WorkersHold /\ PlansCover /\ DoneIsMigrated
  BY DEF Init, WorkersHold, PlansCover, DoneIsMigrated, Holding
<1>4. Init => PlansAreOwn /\ SuccessIsLast
  BY DEF Init, PlansAreOwn, SuccessIsLast
<1>3. Init => SucceededIsComplete /\ ParkedRests
  BY DEF Init, SucceededIsComplete, ParkedRests
<1>. QED  BY <1>1, <1>2, <1>3, <1>4 DEF MigrationInv

\* The inductive invariant holds in every reachable state.
THEOREM MigrationInvariance == Spec => []MigrationInv
<1>1. MigrationInv /\ [Next]_vars => MigrationInv'
  BY TypeStep, WorkersStep, PlansStep, OwnStep, ParkedStep DEF MigrationInv
<1>. QED  BY <1>1, InitMigrationInv, PTL DEF Spec

\* As long as heartbeats arrive and no unlock is forced, one runner migrates
\* at a time: the holder of the lease (claim, heartbeat, unlock).
THEOREM OneRunnerMigrates ==
    ASSUME Faults \cap {"stall", "unlock --force"} = {}
    PROVE  Spec => []OneMigrator
<1>1. MigrationInv => OneMigrator
  BY DEF MigrationInv, WorkersHold, OneMigrator
<1>. QED  BY <1>1, MigrationInvariance, PTL

\* A runner that reports success left no migration of its release to run
\* (followMigrations, runHolderAttempt).
THEOREM SuccessIsMigrated == Spec => []DoneIsMigrated
  BY MigrationInvariance, PTL DEF MigrationInv

\* The ledger records a success only of a run that did everything
\* (completeRun).
THEOREM LedgerIsTrue == Spec => []SucceededIsComplete
  BY MigrationInvariance, PTL DEF MigrationInv

\* No runner holds the lease for a version that is parked (claim, parkRun).
THEOREM ParkedVersionRests == Spec => []ParkedRests
  BY MigrationInvariance, PTL DEF MigrationInv

\* A run ends, as a success or parked, only under the lease of its own
\* runner, which the same step gives back (completeRun, parkRun).
THEOREM OnlyOwnersEndRuns == Spec => OwnersEndRuns
<1>1. MigrationInv /\ [Next]_vars
        => [\A r \in Runners :
              outcome'[r] # outcome[r] /\ outcome'[r] \in {"succeeded", "parked"}
                  => holder = r /\ holder' = NoRunner]_vars
  <2>. SUFFICES ASSUME MigrationInv, Next, NEW r \in Runners,
                       outcome'[r] # outcome[r],
                       outcome'[r] \in {"succeeded", "parked"}
                PROVE  holder = r /\ holder' = NoRunner
    BY DEF vars
  <2>. outcome \in [Runners -> Outcomes]
    BY DEF MigrationInv, TypeOK
  <2>1. ASSUME NEW s \in Runners, ParkRun(s) \/ CompleteRun(s)
        PROVE  holder = r /\ holder' = NoRunner
    BY <2>1 DEF ParkRun, CompleteRun, Free, Owns, lease
  <2>2. ASSUME NEW s \in Runners, BeginAttempt(s) \/ RecordRetry(s)
        PROVE  FALSE
    BY <2>2 DEF BeginAttempt, RecordRetry
  <2>3. ASSUME UNCHANGED outcome
        PROVE  FALSE
    BY <2>3
  <2>4. ASSUME NEW s \in Runners,
               \/ Start(s) \/ ClaimAcquired(s) \/ ClaimHeld(s)
               \/ FollowState(s) \/ FollowLease(s) \/ Sleep(s)
               \/ WaitTimesOut(s) \/ ClearKnexLock(s)
               \/ SetCurrentMigration(s) \/ StartMigration(s)
               \/ KnexLocked(s) \/ FinishMigration(s) \/ MigrationFails(s)
               \/ ReadNextState(s) \/ RunGraphileMigrations(s)
               \/ ClearCurrentMigration(s) \/ AttemptThrows(s)
               \/ CallThrows(s) \/ Beat(s) \/ LoseLease(s) \/ Crash(s)
        PROVE  FALSE
    BY <2>3, <2>4
       DEF Start, ClaimAcquired, ClaimHeld, FollowState, FollowLease, Sleep,
           WaitTimesOut, ClearKnexLock, SetCurrentMigration, StartMigration,
           KnexLocked, FinishMigration, MigrationFails, ReadNextState,
           RunGraphileMigrations, ClearCurrentMigration, AttemptThrows,
           CallThrows, Beat, LoseLease, Crash, Die, run
  <2>5. CASE Expire \/ CheckUnlock \/ Unlock \/ ForceUnlock
                 \/ UnlockClearsKnexLock
    BY <2>3, <2>5
       DEF Expire, CheckUnlock, Unlock, ForceUnlock, UnlockClearsKnexLock,
           run
  <2>. QED
    BY <2>1, <2>2, <2>4, <2>5 DEF Next, Run
<1>. QED  BY <1>1, MigrationInvariance, PTL DEF Spec, OwnersEndRuns

\* The next migration of a plan is the next one of the release, unless another
\* runner has just applied it.
LEMMA NextIsApplied ==
    ASSUME MigrationInv, NEW r \in Runners, pc[r] = "migrating",
           NEW m \in plan[r], IsNext(m, r), Complete(m), UNCHANGED graphile
    PROVE  UNCHANGED <<done, graphile>> \/ History!ApplyNext(r)
<1>1. CASE m \in Completed
  BY <1>1 DEF Complete
<1>2. CASE m \notin Completed
  <2>1. History!Missing(r) \subseteq plan[r]
    BY DEF MigrationInv, PlansCover, History!Missing, History!Applied,
           FilesOf, Completed
  <2>2. m \in History!Missing(r)
    BY <1>2 DEF MigrationInv, PlansAreOwn, History!Missing, History!Applied,
                FilesOf, Completed
  <2>3. done' = Append(done, m)
    BY <1>2 DEF Complete
  <2>4. \A n \in History!Missing(r) : m <= n
    BY <2>1 DEF IsNext
  <2>. QED  BY <2>2, <2>3, <2>4 DEF History!ApplyNext
<1>. QED  BY <1>1, <1>2

\* A runner that goes on tells nothing, and one that ends tells how.
LEMMA ToldStep ==
    ASSUME TypeOK, NEW r \in Runners, pc[r] \notin {"done", "exited"},
           NEW p \in Places, Goto(r, p)
    PROVE  /\ Told[r] = "open"
           /\ p \notin {"done", "exited"} => UNCHANGED Told
           /\ p \in {"done", "exited"} => History!End(r, p)
<1>1. pc' = [pc EXCEPT ![r] = p] /\ pc \in [Runners -> Places]
  BY DEF Goto, TypeOK
<1>2. Told[r] = "open"
  BY DEF Told
<1>3. ASSUME p \notin {"done", "exited"}
      PROVE  UNCHANGED Told
  BY <1>1, <1>3 DEF Told
<1>4. ASSUME p \in {"done", "exited"}
      PROVE  History!End(r, p)
  <2>1. Told' = [Told EXCEPT ![r] = p]
    BY <1>1, <1>4 DEF Told
  <2>. QED  BY <1>2, <2>1 DEF History!End
<1>. QED  BY <1>2, <1>3, <1>4

\* What the ledger has changes with a success only.
LEMMA RecordedStep ==
    ASSUME TypeOK, SuccessIsLast
    PROVE  /\ UNCHANGED outcome => UNCHANGED Recorded
           /\ \A r \in Runners, o \in Outcomes :
                 /\ pc[r] \notin {"done", "exited"}
                 /\ outcome' = [outcome EXCEPT ![r] = o]
                 => Recorded' = IF o = "succeeded" THEN Recorded \cup {r}
                                                   ELSE Recorded
<1>1. UNCHANGED outcome => UNCHANGED Recorded
  BY DEF Recorded
<1>2. ASSUME NEW r \in Runners, NEW o \in Outcomes,
             pc[r] \notin {"done", "exited"},
             outcome' = [outcome EXCEPT ![r] = o]
      PROVE  Recorded' = IF o = "succeeded" THEN Recorded \cup {r}
                                            ELSE Recorded
  BY <1>2 DEF Recorded, TypeOK, SuccessIsLast
<1>. QED  BY <1>1, <1>2

\* A runner that moves and leaves the database and the ledger alone only tells
\* that it gave up.
LEMMA QuietStep ==
    ASSUME MigrationInv, NEW r \in Runners, pc[r] \notin {"done", "exited"},
           NEW p \in Places \ {"done"}, Goto(r, p),
           UNCHANGED <<done, graphile>>, UNCHANGED Recorded
    PROVE  [History!Next]_<<done, graphile, Told, Recorded>>
<1>. TypeOK
  BY DEF MigrationInv
<1>1. CASE p = "exited"
  <2>1. History!End(r, "exited")
    BY <1>1, ToldStep
  <2>2. History!Exit(r)
    BY <2>1 DEF History!Exit
  <2>. QED  BY <2>2 DEF History!Next
<1>2. CASE p # "exited"
  BY <1>2, ToldStep
<1>. QED  BY <1>1, <1>2

\* Whoever holds the lease, loses it or takes it over, and whatever dies or
\* fails, each release is migrated in its order, by two runners at a time if need
\* be, and what runners report and record is true of the database: the runners under
\* the lease implement MigrationHistory (runPendingKnexMigrations,
\* followMigrations, completeRun).
THEOREM LeaseRefinesHistory == Spec => ImplementsHistory
<1>. DEFINE HNext == [History!Next]_<<done, graphile, Told, Recorded>>
<1>1. Init => History!Init
  BY DEF Init, History!Init, Told, Recorded
<1>2. MigrationInv /\ [Next]_vars
        => [History!Next]_<<done, graphile, Told, Recorded>>
  <2>. SUFFICES ASSUME MigrationInv, [Next]_vars
                PROVE  HNext
    OBVIOUS
  <2>. TypeOK /\ SuccessIsLast
    BY DEF MigrationInv
  <2>1. ASSUME NEW r \in Runners,
               \/ Start(r) \/ ClaimAcquired(r) \/ ClaimHeld(r)
               \/ FollowState(r) \/ Sleep(r) \/ WaitTimesOut(r)
        PROVE  HNext
    <3>1. /\ pc[r] \notin {"done", "exited"}
          /\ \E p \in Places \ {"done"} : Goto(r, p)
      BY <2>1 DEF Start, ClaimAcquired, ClaimHeld, FollowState, Sleep,
                  WaitTimesOut, Places, Following, Holding
    <3>2. UNCHANGED <<done, graphile, outcome>>
      BY <2>1 DEF Start, ClaimAcquired, ClaimHeld, FollowState, Sleep,
                  WaitTimesOut, database, run
    <3>. QED  BY <3>1, <3>2, QuietStep, RecordedStep
  <2>2. ASSUME NEW r \in Runners,
               \/ ClearKnexLock(r) \/ SetCurrentMigration(r)
               \/ StartMigration(r) \/ KnexLocked(r) \/ ReadNextState(r)
               \/ ClearCurrentMigration(r) \/ AttemptThrows(r)
               \/ CallThrows(r)
        PROVE  HNext
    <3>1. /\ pc[r] \notin {"done", "exited"}
          /\ \E p \in Places \ {"done"} : Goto(r, p)
      BY <2>2 DEF ClearKnexLock, SetCurrentMigration, StartMigration,
                  KnexLocked, ReadNextState, ClearCurrentMigration,
                  AttemptThrows, CallThrows, Places, Following, Holding
    <3>2. UNCHANGED <<done, graphile, outcome>>
      BY <2>2 DEF ClearKnexLock, SetCurrentMigration, StartMigration,
                  KnexLocked, ReadNextState, ClearCurrentMigration,
                  AttemptThrows, CallThrows, database, run
    <3>. QED  BY <3>1, <3>2, QuietStep, RecordedStep
  <2>3. ASSUME NEW r \in Runners, FollowLease(r)
        PROVE  HNext
    <3>1. UNCHANGED <<done, graphile, outcome>> /\ pc[r] = "deciding"
      BY <2>3 DEF FollowLease, database, run
    <3>2. CASE \E p \in Places \ {"done"} : Goto(r, p)
      BY <3>1, <3>2, QuietStep, RecordedStep
    <3>3. CASE ~PendingWork(r) /\ Goto(r, "done")
      <4>1. History!End(r, "done")
        BY <3>1, <3>3, ToldStep DEF Places
      <4>2. History!IsComplete(r)
        BY <3>1, <3>3 DEF MigrationInv, PlansCover, PendingWork, FilesOf,
             Completed, History!IsComplete, History!Missing, History!Applied
      <4>3. History!Report(r)
        BY <3>1, <4>1, <4>2, RecordedStep DEF History!Report
      <4>. QED  BY <4>3 DEF History!Next
    <3>. QED  BY <2>3, <3>2, <3>3 DEF FollowLease, Places, Following
  <2>4. ASSUME NEW r \in Runners, BeginAttempt(r) \/ RecordRetry(r)
        PROVE  HNext
    <3>1. /\ pc[r] \notin {"done", "exited"}
          /\ \E p \in Places \ {"done"} : Goto(r, p)
      BY <2>4 DEF BeginAttempt, RecordRetry, Places, Holding
    <3>2. UNCHANGED <<done, graphile>>
      BY <2>4 DEF BeginAttempt, RecordRetry, database
    <3>3. \E o \in Outcomes \ {"succeeded"} :
             outcome' = [outcome EXCEPT ![r] = o]
      BY <2>4 DEF BeginAttempt, RecordRetry, Outcomes
    <3>4. UNCHANGED Recorded
      BY <3>1, <3>3, RecordedStep
    <3>. QED  BY <3>1, <3>2, <3>4, QuietStep
  <2>5. ASSUME NEW r \in Runners, FinishMigration(r)
        PROVE  HNext
    <3>1. /\ pc[r] = "migrating" /\ Goto(r, "reading")
          /\ UNCHANGED <<graphile, outcome>>
      BY <2>5 DEF FinishMigration, run
    <3>2. UNCHANGED <<done, graphile>> \/ History!ApplyNext(r)
      BY <2>5, <3>1, NextIsApplied DEF FinishMigration
    <3>3. UNCHANGED <<Told, Recorded>> /\ Told[r] = "open"
      BY <3>1, ToldStep, RecordedStep DEF Places, Holding
    <3>. QED  BY <3>2, <3>3 DEF History!Next, History!Migrate
  <2>6. ASSUME NEW r \in Runners, MigrationFails(r)
        PROVE  HNext
    <3>1. /\ pc[r] = "migrating" /\ Goto(r, "failing")
          /\ UNCHANGED <<graphile, outcome>>
      BY <2>6 DEF MigrationFails, run
    <3>2. UNCHANGED <<done, graphile>> \/ History!ApplyNext(r)
      BY <2>6, <3>1, NextIsApplied DEF MigrationFails
    <3>3. UNCHANGED <<Told, Recorded>> /\ Told[r] = "open"
      BY <3>1, ToldStep, RecordedStep DEF Places, Holding
    <3>. QED  BY <3>2, <3>3 DEF History!Next, History!Migrate
  <2>7. ASSUME NEW r \in Runners, RunGraphileMigrations(r)
        PROVE  HNext
    <3>1. /\ pc[r] = "upgrading" /\ Goto(r, "finishing")
          /\ UNCHANGED <<done, outcome>> /\ graphile' = TRUE
      BY <2>7, Zenon DEF RunGraphileMigrations, run
    <3>2. UNCHANGED <<Told, Recorded>> /\ Told[r] = "open"
      BY <3>1, ToldStep, RecordedStep DEF Places, Holding
    <3>3. History!IsComplete(r)
      BY <3>1 DEF MigrationInv, PlansCover, FilesOf, Completed,
                  History!IsComplete, History!Missing, History!Applied
    <3>4. History!UpgradeGraphile(r)
      BY <3>1, <3>3, Zenon DEF History!UpgradeGraphile
    <3>. QED  BY <3>2, <3>4 DEF History!Next, History!Migrate
  <2>8. ASSUME NEW r \in Runners, ParkRun(r)
        PROVE  HNext
    <3>1. /\ pc[r] = "failing" /\ Goto(r, "exited")
          /\ UNCHANGED <<done, graphile>>
      BY <2>8 DEF ParkRun, database
    <3>2. UNCHANGED outcome \/ outcome' = [outcome EXCEPT ![r] = "parked"]
      BY <2>8 DEF ParkRun
    <3>3. UNCHANGED Recorded
      BY <3>1, <3>2, RecordedStep DEF Outcomes
    <3>. QED  BY <3>1, <3>3, QuietStep DEF Places
  <2>9. ASSUME NEW r \in Runners, CompleteRun(r)
        PROVE  HNext
    <3>1. pc[r] = "completing" /\ UNCHANGED <<done, graphile>>
      BY <2>9 DEF CompleteRun, database
    <3>2. CASE Owns(r)
      <4>1. \E e \in {"done", "exited"} : Goto(r, e)
        BY <2>9, <3>2 DEF CompleteRun
      <4>2. \E e \in {"done", "exited"} : History!End(r, e)
        BY <3>1, <4>1, ToldStep DEF Places
      <4>3. Recorded' = Recorded \cup {r}
        BY <2>9, <3>1, <3>2, RecordedStep DEF CompleteRun, Outcomes
      <4>4. History!IsComplete(r) /\ graphile
        BY <3>1 DEF MigrationInv, PlansCover, FilesOf, Completed,
                    History!IsComplete, History!Missing, History!Applied
      <4>5. History!Record(r)
        BY <3>1, <4>2, <4>3, <4>4 DEF History!Record
      <4>. QED  BY <4>5 DEF History!Next
    <3>3. CASE ~Owns(r)
      <4>1. Goto(r, "exited") /\ UNCHANGED outcome
        BY <2>9, <3>3 DEF CompleteRun
      <4>. QED  BY <3>1, <4>1, QuietStep, RecordedStep DEF Places
    <3>. QED  BY <3>2, <3>3
  <2>10. ASSUME NEW r \in Runners, LoseLease(r) \/ Crash(r)
        PROVE  HNext
    <3>1. Die(r) /\ pc[r] \notin {"done", "exited"}
      BY <2>10 DEF LoseLease, Crash, Holding
    <3>2. History!End(r, "exited") /\ UNCHANGED Recorded
      BY <3>1, ToldStep, RecordedStep DEF Die, Places, run
    <3>3. CASE UNCHANGED database
      BY <3>2, <3>3 DEF History!Exit, History!Next, database
    <3>4. ASSUME pc[r] = "migrating", NEW m \in plan[r], IsNext(m, r),
                 Complete(m), UNCHANGED graphile
          PROVE  HNext
      <4>1. UNCHANGED <<done, graphile>> \/ History!ApplyNext(r)
        BY <3>4, NextIsApplied
      <4>2. History!Exit(r)
        BY <3>2, <4>1 DEF History!Exit
      <4>. QED  BY <4>2 DEF History!Next
    <3>5. ASSUME pc[r] = "upgrading", graphile' = TRUE, UNCHANGED done
          PROVE  HNext
      <4>1. History!IsComplete(r)
        BY <3>5 DEF MigrationInv, PlansCover, FilesOf, Completed,
                    History!IsComplete, History!Missing, History!Applied
      <4>2. History!UpgradeGraphile(r)
        BY <3>5, <4>1, Zenon DEF History!UpgradeGraphile
      <4>3. History!Exit(r)
        BY <3>2, <4>2 DEF History!Exit
      <4>. QED  BY <4>3 DEF History!Next
    <3>6. \/ UNCHANGED database
          \/ /\ pc[r] = "migrating"
             /\ \E m \in plan[r] : IsNext(m, r) /\ Complete(m)
             /\ UNCHANGED graphile
          \/ pc[r] = "upgrading" /\ graphile' = TRUE /\ UNCHANGED done
      BY <3>1, Zenon DEF Die
    <3>. QED  BY <3>3, <3>4, <3>5, <3>6, Zenon
  <2>11. ASSUME NEW r \in Runners, Beat(r)
         PROVE  HNext
    BY <2>11 DEF Beat, database, run, Told, Recorded
  <2>12. CASE Expire \/ CheckUnlock \/ Unlock \/ ForceUnlock
                  \/ UnlockClearsKnexLock
    BY <2>12 DEF Expire, CheckUnlock, Unlock, ForceUnlock,
                 UnlockClearsKnexLock, database, run, Told, Recorded
  <2>13. CASE UNCHANGED vars
    BY <2>13 DEF vars, database, run, Told, Recorded
  <2>. HIDE DEF HNext
  <2>. QED
    BY <2>1, <2>2, <2>3, <2>4, <2>5, <2>6, <2>7, <2>8, <2>9, <2>10, <2>11,
       <2>12, <2>13 DEF Next, Run
<1>. QED
  BY <1>1, <1>2, MigrationInvariance, PTL
     DEF Spec, ImplementsHistory, History!Spec
=============================================================================
