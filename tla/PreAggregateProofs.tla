------------------------- MODULE PreAggregateProofs -------------------------
(***************************************************************************)
(* Proofs about PreAggregate for every set of jobs, every clock and every  *)
(* kind of storage, under every combination of faults.                     *)
(***************************************************************************)
EXTENDS PreAggregate, TLAPS

\* The types.
LEMMA TableTypes ==
    ASSUME PreAggregateAssumption, TypeOK, [Next]_vars
    PROVE  TypeOK'
<1>. USE DEF TypeOK, Statuses, Places, InTransaction, Active, table,
     results, transaction, Goto
<1>1. ASSUME NEW j \in Jobs, ReadDefinition(j)
      PROVE  TypeOK'
  BY <1>1 DEF ReadDefinition
<1>2. ASSUME NEW j \in Jobs, InsertInProgress(j)
      PROVE  TypeOK'
  BY <1>2 DEF InsertInProgress
<1>3. ASSUME NEW j \in Jobs, InsertThrows(j)
      PROVE  TypeOK'
  BY <1>3 DEF InsertThrows
<1>4. ASSUME NEW j \in Jobs, ExecuteAsyncMetricQuery(j)
      PROVE  TypeOK'
  BY <1>4 DEF ExecuteAsyncMetricQuery
<1>5. ASSUME NEW j \in Jobs, ExecuteThrows(j)
      PROVE  TypeOK'
  BY <1>5 DEF ExecuteThrows
<1>6. ASSUME NEW j \in Jobs, AttachQueryUuid(j)
      PROVE  TypeOK'
  BY <1>6 DEF AttachQueryUuid, Link
<1>7. ASSUME NEW j \in Jobs, QueryEnded(j)
      PROVE  TypeOK'
  BY <1>7 DEF QueryEnded
<1>8. ASSUME NEW j \in Jobs, PollTimesOut(j)
      PROVE  TypeOK'
  BY <1>8 DEF PollTimesOut
<1>9. ASSUME NEW j \in Jobs, LockOwnRow(j)
      PROVE  TypeOK'
  BY <1>9 DEF LockOwnRow
<1>10. ASSUME NEW j \in Jobs, SelectActive(j)
      PROVE  TypeOK'
  BY <1>10 DEF SelectActive, FindActive
<1>11. ASSUME NEW j \in Jobs, LockActive(j)
      PROVE  TypeOK'
  BY <1>11 DEF LockActive
<1>12. ASSUME NEW j \in Jobs, SelectDemoted(j)
      PROVE  TypeOK'
  BY <1>12 DEF SelectDemoted, FindActive
<1>13. ASSUME NEW j \in Jobs, SupersedeOthers(j)
      PROVE  TypeOK'
  BY <1>13 DEF SupersedeOthers
<1>14. ASSUME NEW j \in Jobs, SetActive(j)
      PROVE  TypeOK'
  BY <1>14 DEF SetActive, UniqueActive, Rollback
<1>15. ASSUME NEW j \in Jobs, Commit(j)
      PROVE  TypeOK'
  BY <1>15 DEF Commit, Committed, Link, Rollback
<1>16. ASSUME NEW j \in Jobs, RecordRejected(j)
      PROVE  TypeOK'
  BY <1>16 DEF RecordRejected, SetStatus, Link
<1>17. ASSUME NEW j \in Jobs, CallThrows(j)
      PROVE  TypeOK'
  BY <1>17 DEF CallThrows, Rollback
<1>18. ASSUME NEW j \in Jobs, MarkFailed(j)
      PROVE  TypeOK'
  BY <1>18 DEF MarkFailed, SetStatus
<1>19. ASSUME NEW j \in Jobs, MarkFailedThrows(j)
      PROVE  TypeOK'
  BY <1>19 DEF MarkFailedThrows
<1>20. ASSUME NEW j \in Jobs, QueryLands(j)
      PROVE  TypeOK'
  BY <1>20 DEF QueryLands
<1>21. ASSUME NEW j \in Jobs, QueryFails(j)
      PROVE  TypeOK'
  BY <1>21 DEF QueryFails
<1>22. ASSUME NEW j \in Jobs, PurgeQuery(j)
      PROVE  TypeOK'
  BY <1>22 DEF PurgeQuery
<1>23. ASSUME NEW j \in Jobs, Crash(j)
      PROVE  TypeOK'
  BY <1>23 DEF Crash, Rollback
<1>24. CASE DropDefinition
  BY <1>24 DEF DropDefinition
<1>25. CASE UNCHANGED vars
  BY <1>25 DEF vars, table, results, transaction
<1>. QED
  BY <1>1, <1>2, <1>3, <1>4, <1>5, <1>6, <1>7, <1>8, <1>9, <1>10, <1>11,
       <1>12, <1>13, <1>14, <1>15, <1>16, <1>17, <1>18, <1>19, <1>20, <1>21,
       <1>22, <1>23, <1>24, <1>25 DEF Next, Run, Advance

\* A transaction holds its row, which keeps its definition from being dropped.
LEMMA RowsStep ==
    ASSUME TypeOK, RowsHaveDefinition, TransactionsHoldTheirRow, [Next]_vars
    PROVE  RowsHaveDefinition' /\ TransactionsHoldTheirRow'
<1>. USE DEF TypeOK, RowsHaveDefinition, TransactionsHoldTheirRow,
     InTransaction, table, results, transaction, Goto
<1>1. ASSUME NEW j \in Jobs, ReadDefinition(j)
      PROVE  RowsHaveDefinition' /\ TransactionsHoldTheirRow'
  BY <1>1 DEF ReadDefinition
<1>2. ASSUME NEW j \in Jobs, InsertInProgress(j)
      PROVE  RowsHaveDefinition' /\ TransactionsHoldTheirRow'
  BY <1>2 DEF InsertInProgress
<1>3. ASSUME NEW j \in Jobs, InsertThrows(j)
      PROVE  RowsHaveDefinition' /\ TransactionsHoldTheirRow'
  BY <1>3 DEF InsertThrows
<1>4. ASSUME NEW j \in Jobs, ExecuteAsyncMetricQuery(j)
      PROVE  RowsHaveDefinition' /\ TransactionsHoldTheirRow'
  BY <1>4 DEF ExecuteAsyncMetricQuery
<1>5. ASSUME NEW j \in Jobs, ExecuteThrows(j)
      PROVE  RowsHaveDefinition' /\ TransactionsHoldTheirRow'
  BY <1>5 DEF ExecuteThrows
<1>6. ASSUME NEW j \in Jobs, AttachQueryUuid(j)
      PROVE  RowsHaveDefinition' /\ TransactionsHoldTheirRow'
  BY <1>6 DEF AttachQueryUuid, Link
<1>7. ASSUME NEW j \in Jobs, QueryEnded(j)
      PROVE  RowsHaveDefinition' /\ TransactionsHoldTheirRow'
  BY <1>7 DEF QueryEnded
<1>8. ASSUME NEW j \in Jobs, PollTimesOut(j)
      PROVE  RowsHaveDefinition' /\ TransactionsHoldTheirRow'
  BY <1>8 DEF PollTimesOut
<1>9. ASSUME NEW j \in Jobs, LockOwnRow(j)
      PROVE  RowsHaveDefinition' /\ TransactionsHoldTheirRow'
  BY <1>9 DEF LockOwnRow
<1>10. ASSUME NEW j \in Jobs, SelectActive(j)
      PROVE  RowsHaveDefinition' /\ TransactionsHoldTheirRow'
  BY <1>10 DEF SelectActive, FindActive
<1>11. ASSUME NEW j \in Jobs, LockActive(j)
      PROVE  RowsHaveDefinition' /\ TransactionsHoldTheirRow'
  BY <1>11 DEF LockActive
<1>12. ASSUME NEW j \in Jobs, SelectDemoted(j)
      PROVE  RowsHaveDefinition' /\ TransactionsHoldTheirRow'
  BY <1>12 DEF SelectDemoted, FindActive
<1>13. ASSUME NEW j \in Jobs, SupersedeOthers(j)
      PROVE  RowsHaveDefinition' /\ TransactionsHoldTheirRow'
  BY <1>13 DEF SupersedeOthers
<1>14. ASSUME NEW j \in Jobs, SetActive(j)
      PROVE  RowsHaveDefinition' /\ TransactionsHoldTheirRow'
  BY <1>14 DEF SetActive, UniqueActive, Rollback
<1>15. ASSUME NEW j \in Jobs, Commit(j)
      PROVE  RowsHaveDefinition' /\ TransactionsHoldTheirRow'
  BY <1>15 DEF Commit, Committed, Link, Rollback
<1>16. ASSUME NEW j \in Jobs, RecordRejected(j)
      PROVE  RowsHaveDefinition' /\ TransactionsHoldTheirRow'
  BY <1>16 DEF RecordRejected, SetStatus, Link
<1>17. ASSUME NEW j \in Jobs, CallThrows(j)
      PROVE  RowsHaveDefinition' /\ TransactionsHoldTheirRow'
  BY <1>17 DEF CallThrows, Rollback
<1>18. ASSUME NEW j \in Jobs, MarkFailed(j)
      PROVE  RowsHaveDefinition' /\ TransactionsHoldTheirRow'
  BY <1>18 DEF MarkFailed, SetStatus
<1>19. ASSUME NEW j \in Jobs, MarkFailedThrows(j)
      PROVE  RowsHaveDefinition' /\ TransactionsHoldTheirRow'
  BY <1>19 DEF MarkFailedThrows
<1>20. ASSUME NEW j \in Jobs, QueryLands(j)
      PROVE  RowsHaveDefinition' /\ TransactionsHoldTheirRow'
  BY <1>20 DEF QueryLands
<1>21. ASSUME NEW j \in Jobs, QueryFails(j)
      PROVE  RowsHaveDefinition' /\ TransactionsHoldTheirRow'
  BY <1>21 DEF QueryFails
<1>22. ASSUME NEW j \in Jobs, PurgeQuery(j)
      PROVE  RowsHaveDefinition' /\ TransactionsHoldTheirRow'
  BY <1>22 DEF PurgeQuery
<1>23. ASSUME NEW j \in Jobs, Crash(j)
      PROVE  RowsHaveDefinition' /\ TransactionsHoldTheirRow'
  BY <1>23 DEF Crash, Rollback
<1>24. CASE DropDefinition
  BY <1>24 DEF DropDefinition
<1>25. CASE UNCHANGED vars
  BY <1>25 DEF vars, table, results, transaction
<1>. QED
  BY <1>1, <1>2, <1>3, <1>4, <1>5, <1>6, <1>7, <1>8, <1>9, <1>10, <1>11,
       <1>12, <1>13, <1>14, <1>15, <1>16, <1>17, <1>18, <1>19, <1>20, <1>21,
       <1>22, <1>23, <1>24, <1>25 DEF Next, Run, Advance

\* One row is active and one transaction is about to make its row active.
LEMMA ActiveStep ==
    ASSUME TypeOK, OneActive, OnePublisher, TransactionsHoldTheirRow,
         [Next]_vars
    PROVE  OneActive' /\ OnePublisher'
<1>. USE DEF TypeOK, OneActive, OnePublisher, Active, table, results,
     transaction, Goto
<1>1. ASSUME NEW j \in Jobs, ReadDefinition(j)
      PROVE  OneActive' /\ OnePublisher'
  BY <1>1 DEF ReadDefinition
<1>2. ASSUME NEW j \in Jobs, InsertInProgress(j)
      PROVE  OneActive' /\ OnePublisher'
  BY <1>2 DEF InsertInProgress
<1>3. ASSUME NEW j \in Jobs, InsertThrows(j)
      PROVE  OneActive' /\ OnePublisher'
  BY <1>3 DEF InsertThrows
<1>4. ASSUME NEW j \in Jobs, ExecuteAsyncMetricQuery(j)
      PROVE  OneActive' /\ OnePublisher'
  BY <1>4 DEF ExecuteAsyncMetricQuery
<1>5. ASSUME NEW j \in Jobs, ExecuteThrows(j)
      PROVE  OneActive' /\ OnePublisher'
  BY <1>5 DEF ExecuteThrows
<1>6. ASSUME NEW j \in Jobs, AttachQueryUuid(j)
      PROVE  OneActive' /\ OnePublisher'
  BY <1>6 DEF AttachQueryUuid, Link
<1>7. ASSUME NEW j \in Jobs, QueryEnded(j)
      PROVE  OneActive' /\ OnePublisher'
  BY <1>7 DEF QueryEnded
<1>8. ASSUME NEW j \in Jobs, PollTimesOut(j)
      PROVE  OneActive' /\ OnePublisher'
  BY <1>8 DEF PollTimesOut
<1>9. ASSUME NEW j \in Jobs, LockOwnRow(j)
      PROVE  OneActive' /\ OnePublisher'
  BY <1>9 DEF LockOwnRow
<1>10. ASSUME NEW j \in Jobs, SelectActive(j)
      PROVE  OneActive' /\ OnePublisher'
  BY <1>10 DEF SelectActive, FindActive
<1>11. ASSUME NEW j \in Jobs, LockActive(j)
      PROVE  OneActive' /\ OnePublisher'
  BY <1>11 DEF LockActive
<1>12. ASSUME NEW j \in Jobs, SelectDemoted(j)
      PROVE  OneActive' /\ OnePublisher'
  BY <1>12 DEF SelectDemoted, FindActive
<1>13. ASSUME NEW j \in Jobs, SupersedeOthers(j)
      PROVE  OneActive' /\ OnePublisher'
  BY <1>13 DEF SupersedeOthers
<1>14. ASSUME NEW j \in Jobs, SetActive(j)
      PROVE  OneActive' /\ OnePublisher'
  BY <1>14 DEF SetActive, UniqueActive, Rollback
<1>15. ASSUME NEW j \in Jobs, Commit(j)
      PROVE  OneActive' /\ OnePublisher'
  BY <1>15 DEF Commit, Committed, Link, Rollback
<1>16. ASSUME NEW j \in Jobs, RecordRejected(j)
      PROVE  OneActive' /\ OnePublisher'
  BY <1>16 DEF RecordRejected, SetStatus, Link
<1>17. ASSUME NEW j \in Jobs, CallThrows(j)
      PROVE  OneActive' /\ OnePublisher'
  BY <1>17 DEF CallThrows, Rollback
<1>18. ASSUME NEW j \in Jobs, MarkFailed(j)
      PROVE  OneActive' /\ OnePublisher'
  BY <1>18 DEF MarkFailed, SetStatus
<1>19. ASSUME NEW j \in Jobs, MarkFailedThrows(j)
      PROVE  OneActive' /\ OnePublisher'
  BY <1>19 DEF MarkFailedThrows
<1>20. ASSUME NEW j \in Jobs, QueryLands(j)
      PROVE  OneActive' /\ OnePublisher'
  BY <1>20 DEF QueryLands
<1>21. ASSUME NEW j \in Jobs, QueryFails(j)
      PROVE  OneActive' /\ OnePublisher'
  BY <1>21 DEF QueryFails
<1>22. ASSUME NEW j \in Jobs, PurgeQuery(j)
      PROVE  OneActive' /\ OnePublisher'
  BY <1>22 DEF PurgeQuery
<1>23. ASSUME NEW j \in Jobs, Crash(j)
      PROVE  OneActive' /\ OnePublisher'
  BY <1>23 DEF Crash, Rollback
<1>24. CASE DropDefinition
  BY <1>24 DEF DropDefinition
<1>25. CASE UNCHANGED vars
  BY <1>25 DEF vars, table, results, transaction
<1>. QED
  BY <1>1, <1>2, <1>3, <1>4, <1>5, <1>6, <1>7, <1>8, <1>9, <1>10, <1>11,
       <1>12, <1>13, <1>14, <1>15, <1>16, <1>17, <1>18, <1>19, <1>20, <1>21,
       <1>22, <1>23, <1>24, <1>25 DEF Next, Run, Advance

\* Only the COMMIT that ends a job makes its row active.
LEMMA RunningStep ==
    ASSUME TypeOK, RunningIsNotActive, TransactionsHoldTheirRow, [Next]_vars
    PROVE  RunningIsNotActive'
<1>. USE DEF TypeOK, RunningIsNotActive, InTransaction, Active, table,
     results, transaction, Goto
<1>1. ASSUME NEW j \in Jobs, ReadDefinition(j)
      PROVE  RunningIsNotActive'
  BY <1>1 DEF ReadDefinition
<1>2. ASSUME NEW j \in Jobs, InsertInProgress(j)
      PROVE  RunningIsNotActive'
  BY <1>2 DEF InsertInProgress
<1>3. ASSUME NEW j \in Jobs, InsertThrows(j)
      PROVE  RunningIsNotActive'
  BY <1>3 DEF InsertThrows
<1>4. ASSUME NEW j \in Jobs, ExecuteAsyncMetricQuery(j)
      PROVE  RunningIsNotActive'
  BY <1>4 DEF ExecuteAsyncMetricQuery
<1>5. ASSUME NEW j \in Jobs, ExecuteThrows(j)
      PROVE  RunningIsNotActive'
  BY <1>5 DEF ExecuteThrows
<1>6. ASSUME NEW j \in Jobs, AttachQueryUuid(j)
      PROVE  RunningIsNotActive'
  BY <1>6 DEF AttachQueryUuid, Link
<1>7. ASSUME NEW j \in Jobs, QueryEnded(j)
      PROVE  RunningIsNotActive'
  BY <1>7 DEF QueryEnded
<1>8. ASSUME NEW j \in Jobs, PollTimesOut(j)
      PROVE  RunningIsNotActive'
  BY <1>8 DEF PollTimesOut
<1>9. ASSUME NEW j \in Jobs, LockOwnRow(j)
      PROVE  RunningIsNotActive'
  BY <1>9 DEF LockOwnRow
<1>10. ASSUME NEW j \in Jobs, SelectActive(j)
      PROVE  RunningIsNotActive'
  BY <1>10 DEF SelectActive, FindActive
<1>11. ASSUME NEW j \in Jobs, LockActive(j)
      PROVE  RunningIsNotActive'
  BY <1>11 DEF LockActive
<1>12. ASSUME NEW j \in Jobs, SelectDemoted(j)
      PROVE  RunningIsNotActive'
  BY <1>12 DEF SelectDemoted, FindActive
<1>13. ASSUME NEW j \in Jobs, SupersedeOthers(j)
      PROVE  RunningIsNotActive'
  BY <1>13 DEF SupersedeOthers
<1>14. ASSUME NEW j \in Jobs, SetActive(j)
      PROVE  RunningIsNotActive'
  BY <1>14 DEF SetActive, UniqueActive, Rollback
<1>15. ASSUME NEW j \in Jobs, Commit(j)
      PROVE  RunningIsNotActive'
  BY <1>15 DEF Commit, Committed, Link, Rollback
<1>16. ASSUME NEW j \in Jobs, RecordRejected(j)
      PROVE  RunningIsNotActive'
  BY <1>16 DEF RecordRejected, SetStatus, Link
<1>17. ASSUME NEW j \in Jobs, CallThrows(j)
      PROVE  RunningIsNotActive'
  BY <1>17 DEF CallThrows, Rollback
<1>18. ASSUME NEW j \in Jobs, MarkFailed(j)
      PROVE  RunningIsNotActive'
  BY <1>18 DEF MarkFailed, SetStatus
<1>19. ASSUME NEW j \in Jobs, MarkFailedThrows(j)
      PROVE  RunningIsNotActive'
  BY <1>19 DEF MarkFailedThrows
<1>20. ASSUME NEW j \in Jobs, QueryLands(j)
      PROVE  RunningIsNotActive'
  BY <1>20 DEF QueryLands
<1>21. ASSUME NEW j \in Jobs, QueryFails(j)
      PROVE  RunningIsNotActive'
  BY <1>21 DEF QueryFails
<1>22. ASSUME NEW j \in Jobs, PurgeQuery(j)
      PROVE  RunningIsNotActive'
  BY <1>22 DEF PurgeQuery
<1>23. ASSUME NEW j \in Jobs, Crash(j)
      PROVE  RunningIsNotActive'
  BY <1>23 DEF Crash, Rollback
<1>24. CASE DropDefinition
  BY <1>24 DEF DropDefinition
<1>25. CASE UNCHANGED vars
  BY <1>25 DEF vars, table, results, transaction
<1>. QED
  BY <1>1, <1>2, <1>3, <1>4, <1>5, <1>6, <1>7, <1>8, <1>9, <1>10, <1>11,
       <1>12, <1>13, <1>14, <1>15, <1>16, <1>17, <1>18, <1>19, <1>20, <1>21,
       <1>22, <1>23, <1>24, <1>25 DEF Next, Run, Advance

\* Only a row that nobody else has locked is written: its own job's, or the
\* active one that a promotion waited for.
LEMMA LocksStep ==
    ASSUME TypeOK, TransactionsHoldTheirRow, RowsFollowJobs,
           LocksAreExclusive, [Next]_vars
    PROVE  RowsFollowJobs' /\ LocksAreExclusive'
<1>. DEFINE Kept == RowsFollowJobs' /\ LocksAreExclusive'
<1>. USE DEF TypeOK, TransactionsHoldTheirRow, RowsFollowJobs,
     LocksAreExclusive, InTransaction, Goto
<1>1. ASSUME NEW j \in Jobs,
             \/ ReadDefinition(j) \/ ExecuteAsyncMetricQuery(j)
             \/ ExecuteThrows(j) \/ AttachQueryUuid(j) \/ QueryEnded(j)
             \/ PollTimesOut(j) \/ MarkFailedThrows(j)
      PROVE  Kept
  BY <1>1 DEF ReadDefinition, ExecuteAsyncMetricQuery, ExecuteThrows,
     AttachQueryUuid, QueryEnded, PollTimesOut, MarkFailedThrows, table,
     transaction
<1>2. ASSUME NEW j \in Jobs, InsertInProgress(j) \/ InsertThrows(j)
      PROVE  Kept
  BY <1>2 DEF InsertInProgress, InsertThrows, transaction
<1>3. ASSUME NEW j \in Jobs, LockOwnRow(j)
      PROVE  Kept
  BY <1>3 DEF LockOwnRow, table
<1>4. ASSUME NEW j \in Jobs, SelectActive(j) \/ SelectDemoted(j)
      PROVE  Kept
  BY <1>4 DEF SelectActive, SelectDemoted, FindActive, table
<1>5. ASSUME NEW j \in Jobs, LockActive(j)
      PROVE  Kept
  BY <1>5 DEF LockActive, LockedByOther, Active, table
<1>6. ASSUME NEW j \in Jobs, SupersedeOthers(j)
      PROVE  Kept
  BY <1>6 DEF SupersedeOthers, LockedByOther, Active, table
<1>7. ASSUME NEW j \in Jobs, SetActive(j) \/ CallThrows(j) \/ Crash(j)
      PROVE  Kept
  BY <1>7 DEF SetActive, CallThrows, Crash, Rollback, table
<1>8. ASSUME NEW j \in Jobs, Commit(j)
      PROVE  Kept
  <2>1. RowsFollowJobs'
    BY <1>8 DEF Commit, Committed, Rollback
  <2>2. ASSUME NEW i \in Jobs, NEW r \in held'[i]
        PROVE  /\ r # i => status'[r] = "active"
               /\ \A k \in Jobs : r \in held'[k] => k = i
    <3>1. i # j /\ held'[i] = held[i] /\ r \in Jobs
      BY <1>8, <2>2 DEF Commit, Rollback
    <3>2. r \notin held[j] /\ r # j
      BY <1>8, <2>2, <3>1 DEF Commit
    <3>3. status'[r] = status[r]
      BY <1>8, <3>1, <3>2 DEF Commit, Committed
    <3>. QED  BY <1>8, <2>2, <3>1, <3>3 DEF Commit, Rollback
  <2>. QED  BY <2>1, <2>2
<1>9. ASSUME NEW j \in Jobs, RecordRejected(j)
      PROVE  Kept
  BY <1>9 DEF RecordRejected, SetStatus, transaction
<1>10. ASSUME NEW j \in Jobs, MarkFailed(j)
      PROVE  Kept
  BY <1>10 DEF MarkFailed, SetStatus, LockedByOther, transaction
<1>11. ASSUME NEW j \in Jobs,
              QueryLands(j) \/ QueryFails(j) \/ PurgeQuery(j)
       PROVE  Kept
  BY <1>11 DEF QueryLands, QueryFails, PurgeQuery, table, transaction
<1>12. CASE DropDefinition
  BY <1>12 DEF DropDefinition, transaction
<1>13. CASE UNCHANGED vars
  BY <1>13 DEF vars, table, transaction
<1>. QED
  BY <1>1, <1>2, <1>3, <1>4, <1>5, <1>6, <1>7, <1>8, <1>9, <1>10, <1>11,
     <1>12, <1>13 DEF Next, Run, Advance

\* What is promoted is in storage, unless it is written as Parquet.
LEMMA StoredStep ==
    ASSUME TypeOK, Storage # "parquet", ActiveIsStored, PromotedIsStored,
         [Next]_vars
    PROVE  ActiveIsStored' /\ PromotedIsStored'
<1>. USE DEF TypeOK, ActiveIsStored, PromotedIsStored, InTransaction,
     Active, table, results, transaction, Goto
<1>1. ASSUME NEW j \in Jobs, ReadDefinition(j)
      PROVE  ActiveIsStored' /\ PromotedIsStored'
  BY <1>1 DEF ReadDefinition
<1>2. ASSUME NEW j \in Jobs, InsertInProgress(j)
      PROVE  ActiveIsStored' /\ PromotedIsStored'
  BY <1>2 DEF InsertInProgress
<1>3. ASSUME NEW j \in Jobs, InsertThrows(j)
      PROVE  ActiveIsStored' /\ PromotedIsStored'
  BY <1>3 DEF InsertThrows
<1>4. ASSUME NEW j \in Jobs, ExecuteAsyncMetricQuery(j)
      PROVE  ActiveIsStored' /\ PromotedIsStored'
  BY <1>4 DEF ExecuteAsyncMetricQuery
<1>5. ASSUME NEW j \in Jobs, ExecuteThrows(j)
      PROVE  ActiveIsStored' /\ PromotedIsStored'
  BY <1>5 DEF ExecuteThrows
<1>6. ASSUME NEW j \in Jobs, AttachQueryUuid(j)
      PROVE  ActiveIsStored' /\ PromotedIsStored'
  BY <1>6 DEF AttachQueryUuid, Link
<1>7. ASSUME NEW j \in Jobs, QueryEnded(j)
      PROVE  ActiveIsStored' /\ PromotedIsStored'
  BY <1>7 DEF QueryEnded
<1>8. ASSUME NEW j \in Jobs, PollTimesOut(j)
      PROVE  ActiveIsStored' /\ PromotedIsStored'
  BY <1>8 DEF PollTimesOut
<1>9. ASSUME NEW j \in Jobs, LockOwnRow(j)
      PROVE  ActiveIsStored' /\ PromotedIsStored'
  BY <1>9 DEF LockOwnRow
<1>10. ASSUME NEW j \in Jobs, SelectActive(j)
      PROVE  ActiveIsStored' /\ PromotedIsStored'
  BY <1>10 DEF SelectActive, FindActive
<1>11. ASSUME NEW j \in Jobs, LockActive(j)
      PROVE  ActiveIsStored' /\ PromotedIsStored'
  BY <1>11 DEF LockActive
<1>12. ASSUME NEW j \in Jobs, SelectDemoted(j)
      PROVE  ActiveIsStored' /\ PromotedIsStored'
  BY <1>12 DEF SelectDemoted, FindActive
<1>13. ASSUME NEW j \in Jobs, SupersedeOthers(j)
      PROVE  ActiveIsStored' /\ PromotedIsStored'
  BY <1>13 DEF SupersedeOthers
<1>14. ASSUME NEW j \in Jobs, SetActive(j)
      PROVE  ActiveIsStored' /\ PromotedIsStored'
  BY <1>14 DEF SetActive, UniqueActive, Rollback
<1>15. ASSUME NEW j \in Jobs, Commit(j)
      PROVE  ActiveIsStored' /\ PromotedIsStored'
  BY <1>15 DEF Commit, Committed, Link, Rollback
<1>16. ASSUME NEW j \in Jobs, RecordRejected(j)
      PROVE  ActiveIsStored' /\ PromotedIsStored'
  BY <1>16 DEF RecordRejected, SetStatus, Link
<1>17. ASSUME NEW j \in Jobs, CallThrows(j)
      PROVE  ActiveIsStored' /\ PromotedIsStored'
  BY <1>17 DEF CallThrows, Rollback
<1>18. ASSUME NEW j \in Jobs, MarkFailed(j)
      PROVE  ActiveIsStored' /\ PromotedIsStored'
  BY <1>18 DEF MarkFailed, SetStatus
<1>19. ASSUME NEW j \in Jobs, MarkFailedThrows(j)
      PROVE  ActiveIsStored' /\ PromotedIsStored'
  BY <1>19 DEF MarkFailedThrows
<1>20. ASSUME NEW j \in Jobs, QueryLands(j)
      PROVE  ActiveIsStored' /\ PromotedIsStored'
  BY <1>20 DEF QueryLands
<1>21. ASSUME NEW j \in Jobs, QueryFails(j)
      PROVE  ActiveIsStored' /\ PromotedIsStored'
  BY <1>21 DEF QueryFails
<1>22. ASSUME NEW j \in Jobs, PurgeQuery(j)
      PROVE  ActiveIsStored' /\ PromotedIsStored'
  BY <1>22 DEF PurgeQuery
<1>23. ASSUME NEW j \in Jobs, Crash(j)
      PROVE  ActiveIsStored' /\ PromotedIsStored'
  BY <1>23 DEF Crash, Rollback
<1>24. CASE DropDefinition
  BY <1>24 DEF DropDefinition
<1>25. CASE UNCHANGED vars
  BY <1>25 DEF vars, table, results, transaction
<1>. QED
  BY <1>1, <1>2, <1>3, <1>4, <1>5, <1>6, <1>7, <1>8, <1>9, <1>10, <1>11,
       <1>12, <1>13, <1>14, <1>15, <1>16, <1>17, <1>18, <1>19, <1>20, <1>21,
       <1>22, <1>23, <1>24, <1>25 DEF Next, Run, Advance

\* The initial state satisfies the inductive invariant.
LEMMA InitPreAggregateInv == Init => PreAggregateInv
  BY PreAggregateAssumption
     DEF Init, PreAggregateInv, TypeOK, OneActive, OnePublisher, Active,
         RowsHaveDefinition, TransactionsHoldTheirRow, RunningIsNotActive,
         RowsFollowJobs, LocksAreExclusive, ActiveIsStored, PromotedIsStored, Places, InTransaction

\* The inductive invariant holds in every reachable state.
THEOREM PreAggregateInvariance == Spec => []PreAggregateInv
<1>1. PreAggregateInv /\ [Next]_vars => PreAggregateInv'
  BY PreAggregateAssumption, TableTypes, RowsStep, ActiveStep, RunningStep,
     LocksStep, StoredStep
     DEF PreAggregateInv
<1>. QED  BY <1>1, InitPreAggregateInv, PTL DEF Spec

\* At most one materialization is active, however many jobs promote theirs
\* at once and whatever fails (promoteToActive, the unique index).
THEOREM OneMaterializationIsActive == Spec => []OneActive
  BY PreAggregateInvariance, PTL DEF PreAggregateInv

\* No job writes a row of a definition that a recompile dropped.
THEOREM RowsBelongToDefinition == Spec => []RowsHaveDefinition
  BY PreAggregateInvariance, PTL DEF PreAggregateInv

\* The file of the active materialization exists, unless materializations
\* are written as Parquet (materializePreAggregate, close).
THEOREM ActiveHasItsFile ==
    ASSUME Storage # "parquet"
    PROVE  Spec => []ActiveIsStored
<1>1. PreAggregateInv => ActiveIsStored
  BY DEF PreAggregateInv
<1>. QED  BY <1>1, PreAggregateInvariance, PTL

\* Readers never see a moment between two active materializations, whatever
\* fails, unless a job takes its own away because the answer of its COMMIT
\* was lost: any other row that a step ends was not active.
THEOREM ServiceIsContinuous == Spec => StaysServed
<1> DEFINE Kept ==    \/ Active' # {}
                      \/ \E j \in Active : pc[j] = "catching" /\ pc'[j] = "done"
<1>1. ASSUME PreAggregateInv, [Next]_vars, NEW r \in Active, definition'
      PROVE  Kept
  <2>. USE DEF PreAggregateInv, TypeOK, RowsFollowJobs, Active, Goto
  <2>1. ASSUME UNCHANGED status
        PROVE  Kept
    BY <1>1, <2>1
  <2>2. ASSUME NEW j \in Jobs, InsertInProgress(j) \/ InsertThrows(j)
        PROVE  Kept
    BY <1>1, <2>2 DEF InsertInProgress, InsertThrows
  <2>3. ASSUME NEW j \in Jobs, Commit(j)
        PROVE  Kept
    BY <1>1, <2>3 DEF Commit, Committed, InTransaction
  <2>4. ASSUME NEW j \in Jobs, RecordRejected(j)
        PROVE  Kept
    BY <1>1, <2>4 DEF RecordRejected, SetStatus
  <2>5. ASSUME NEW j \in Jobs, MarkFailed(j)
        PROVE  Kept
    <3>1. pc[j] = "failing" => r # j
      BY <1>1
    <3>2. r # j => status'[r] = "active"
      BY <1>1, <2>5 DEF MarkFailed, SetStatus
    <3>3. pc[j] = "catching" => pc'[j] = "done"
      BY <1>1, <2>5 DEF MarkFailed
    <3>. QED  BY <1>1, <2>5, <3>1, <3>2, <3>3 DEF MarkFailed
  <2>6. CASE DropDefinition
    BY <1>1, <2>6 DEF DropDefinition
  <2>7. ASSUME NEW j \in Jobs,
               \/ ReadDefinition(j) \/ ExecuteAsyncMetricQuery(j)
               \/ ExecuteThrows(j) \/ AttachQueryUuid(j) \/ QueryEnded(j)
               \/ PollTimesOut(j) \/ LockOwnRow(j) \/ SelectActive(j)
               \/ LockActive(j) \/ SelectDemoted(j) \/ SupersedeOthers(j)
               \/ SetActive(j) \/ CallThrows(j) \/ MarkFailedThrows(j)
               \/ QueryLands(j) \/ QueryFails(j) \/ PurgeQuery(j) \/ Crash(j)
        PROVE  Kept
    BY <2>1, <2>7
       DEF ReadDefinition, ExecuteAsyncMetricQuery, ExecuteThrows,
           AttachQueryUuid, QueryEnded, PollTimesOut, LockOwnRow,
           SelectActive, LockActive, SelectDemoted, SupersedeOthers,
           SetActive, CallThrows, MarkFailedThrows, QueryLands, QueryFails,
           PurgeQuery, Crash, table
  <2>8. CASE UNCHANGED vars
    BY <2>1, <2>8 DEF vars, table
  <2>. QED
    BY <1>1, <2>2, <2>3, <2>4, <2>5, <2>6, <2>7, <2>8 DEF Next, Run, Advance
<1>2. PreAggregateInv /\ [Next]_vars
        => [Active # {} /\ definition' =>
                \/ Active' # {}
                \/ \E j \in Active : pc[j] = "catching" /\ pc'[j] = "done"]_vars
  BY <1>1
<1>. QED  BY <1>2, PreAggregateInvariance, PTL DEF Spec, StaysServed

\* A step that moves no row does not show.
LEMMA RowsRest ==
    ASSUME UNCHANGED <<definition, status, stored>>
    PROVE  UNCHANGED <<definition, Phase, stored>>
  BY DEF Phase

\* How the row of a job moves: what it was and what it becomes.
LEMMA RowMoves ==
    ASSUME TypeOK, NEW j \in Jobs, NEW s \in Statuses,
           status' = [status EXCEPT ![j] = s], UNCHANGED <<definition, stored>>
    PROVE  /\ status[j] = "none" /\ definition /\ s = "in_progress"
                => Switch!Begin(j)
           /\ status[j] = "in_progress" /\ s \in {"superseded", "failed"}
                => Switch!End(j)
           /\ status[j] = "active" /\ "database" \in Faults
                  /\ s \in {"superseded", "failed"}
                => Switch!Lose(j)
           /\ status[j] \in {"superseded", "failed"}
                  /\ s \in {"superseded", "failed"}
                => UNCHANGED <<definition, Phase, stored>>
<1>1. ASSUME NEW k \in Jobs, k # j
      PROVE  Phase'[k] = Phase[k]
  BY <1>1 DEF Phase, TypeOK
<1>2. Phase \in [Jobs -> {"none", "pending", "active", "ended"}]
  BY DEF Phase
<1>3. Phase' = [Phase EXCEPT ![j] = Phase'[j]]
  BY <1>1, <1>2 DEF Phase
<1>4. Phase'[j] = CASE s = "none" -> "none"
                    [] s = "in_progress" -> "pending"
                    [] s = "active" -> "active"
                    [] OTHER -> "ended"
  BY DEF Phase, TypeOK
<1>5. /\ status[j] = "none" => Phase[j] = "none"
      /\ status[j] = "in_progress" => Phase[j] = "pending"
      /\ status[j] = "active" => Phase[j] = "active"
      /\ status[j] \in {"superseded", "failed"} => Phase[j] = "ended"
  BY DEF Phase
<1>6. s \in {"superseded", "failed"} => Phase'[j] = "ended"
  BY <1>4
<1>7. s = "in_progress" => Phase'[j] = "pending"
  BY <1>4
<1>8. Phase'[j] = Phase[j] => Phase' = Phase
  BY <1>2, <1>3
<1>. QED
  BY <1>3, <1>5, <1>6, <1>7, <1>8
     DEF Switch!Begin, Switch!End, Switch!Lose, Switch!Move

\* The COMMIT is the step in which the active materialization is exchanged.
LEMMA CommitSwitches ==
    ASSUME PreAggregateInv, NEW j \in Jobs, Commit(j)
    PROVE  Switch!Promote(j) \/ Switch!End(j)
<1>. USE DEF PreAggregateInv
<1>1. status[j] = "in_progress" /\ UNCHANGED <<definition, stored>>
  BY DEF Commit, RowsFollowJobs, InTransaction, results
<1>2. CASE pc[j] = "publishing"
  <2>1. ASSUME NEW k \in Jobs
        PROVE  status'[k] = IF k = j THEN "active" ELSE
                            IF status[k] = "active" THEN "superseded" ELSE status[k]
    <3>1. k # j /\ status[k] = "active" => k \in held[j]
      BY <1>2 DEF OnePublisher, Active
    <3>2. k # j /\ k \in held[j] => status[k] = "active"
      BY DEF LocksAreExclusive
    <3>. QED  BY <1>2, <3>1, <3>2 DEF Commit, Committed
  <2>2. Phase' = [k \in Jobs |-> IF k = j THEN "active" ELSE
                                 IF Phase[k] = "active" THEN "ended" ELSE Phase[k]]
    BY <2>1 DEF Phase
  <2>3. Phase[j] = "pending"
    BY <1>1 DEF Phase
  <2>4. Switch!IsComplete(j)
    BY <1>2 DEF Switch!IsComplete, PromotedIsStored, InTransaction
  <2>. QED  BY <1>1, <2>2, <2>3, <2>4 DEF Switch!Promote
<1>3. CASE pc[j] = "retiring"
  <2>1. status' = [status EXCEPT ![j] = "superseded"]
    BY <1>3 DEF Commit, Committed, TypeOK
  <2>. QED  BY <1>1, <2>1, RowMoves DEF Statuses
<1>. QED  BY <1>2, <1>3 DEF Commit

\* Four statements of promoteToActive, their snapshots, the locks they wait
\* for and the unique index exchange the active materialization as if it were
\* one step, for one that is stored, whichever jobs are in theirs at the same
\* time and whatever fails: the jobs implement MaterializationSwitch.
THEOREM PromotionIsAtomic == Spec => ImplementsSwitch
<1>. DEFINE SNext == [Switch!Next]_<<definition, Phase, stored>>
<1>1. Init => Switch!Init
  BY DEF Init, Switch!Init, Phase
<1>2. PreAggregateInv /\ [Next]_vars => SNext
  <2>. SUFFICES ASSUME PreAggregateInv, [Next]_vars
                PROVE  SNext
    OBVIOUS
  <2>. USE DEF PreAggregateInv
  <2>1. ASSUME NEW j \in Jobs,
               Switch!Begin(j) \/ Switch!Store(j) \/ Switch!Promote(j)
                   \/ Switch!End(j) \/ Switch!Lose(j)
        PROVE  SNext
    BY <2>1 DEF Switch!Next
  <2>2. ASSUME NEW j \in Jobs, InsertInProgress(j) \/ InsertThrows(j)
        PROVE  SNext
    <3>1. status[j] = "none" /\ UNCHANGED <<definition, stored>>
      BY <2>2 DEF RowsFollowJobs, InsertInProgress, InsertThrows, results
    <3>2. \/ definition /\ status' = [status EXCEPT ![j] = "in_progress"]
          \/ status' = status
      BY <2>2, <3>1 DEF InsertInProgress, InsertThrows, TypeOK
    <3>3. CASE status' = status
      BY <3>1, <3>3, RowsRest
    <3>. QED  BY <2>1, <3>1, <3>2, <3>3, RowMoves DEF Statuses
  <2>3. ASSUME NEW j \in Jobs, Commit(j)
        PROVE  SNext
    BY <2>1, <2>3, CommitSwitches
  <2>4. ASSUME NEW j \in Jobs, RecordRejected(j) \/ MarkFailed(j)
        PROVE  SNext
    <3>1. UNCHANGED <<definition, stored>>
      BY <2>4 DEF RecordRejected, MarkFailed, results
    <3>2. \/ status' = status
          \/ \E s \in {"superseded", "failed"} :
                /\ status[j] # "none"
                /\ status' = [status EXCEPT ![j] = s]
      BY <2>4 DEF RecordRejected, MarkFailed, SetStatus, TypeOK
    <3>3. CASE status' = status
      BY <3>1, <3>3, RowsRest
    <3>4. status[j] = "active" => "database" \in Faults
      BY <2>4 DEF RecordRejected, MarkFailed, RunningIsNotActive
    <3>5. ASSUME NEW s \in {"superseded", "failed"}, status[j] # "none",
                 status' = [status EXCEPT ![j] = s]
          PROVE  SNext
      <4>1. status[j] \in Statuses
        BY <3>5 DEF TypeOK
      <4>2. \/ Switch!End(j) \/ Switch!Lose(j)
            \/ UNCHANGED <<definition, Phase, stored>>
        BY <3>1, <3>4, <3>5, <4>1, RowMoves DEF Statuses
      <4>. QED  BY <2>1, <4>2
    <3>. QED  BY <3>2, <3>3, <3>5
  <2>5. ASSUME NEW j \in Jobs, QueryLands(j)
        PROVE  SNext
    <3>1. UNCHANGED <<definition, Phase>>
      BY <2>5 DEF QueryLands, table, Phase
    <3>2. stored' = stored \/ stored' = stored \cup {j}
      BY <2>5 DEF QueryLands
    <3>. QED  BY <2>1, <3>1, <3>2 DEF Switch!Store
  <2>6. CASE DropDefinition
    <3>1. definition' = FALSE /\ stored' = stored
      BY <2>6 DEF DropDefinition, results
    <3>2. Phase' = [j \in Jobs |-> "none"]
      BY <2>6 DEF DropDefinition, Phase
    <3>3. Switch!Drop
      BY <3>1, <3>2, Zenon DEF Switch!Drop
    <3>. QED  BY <3>3 DEF Switch!Next
  <2>7. ASSUME NEW j \in Jobs,
               \/ ReadDefinition(j) \/ ExecuteAsyncMetricQuery(j)
               \/ ExecuteThrows(j) \/ AttachQueryUuid(j) \/ QueryEnded(j)
               \/ PollTimesOut(j) \/ LockOwnRow(j) \/ SelectActive(j)
               \/ LockActive(j) \/ SelectDemoted(j) \/ SupersedeOthers(j)
               \/ SetActive(j) \/ CallThrows(j) \/ MarkFailedThrows(j)
               \/ QueryFails(j) \/ PurgeQuery(j) \/ Crash(j)
        PROVE  SNext
    <3>1. UNCHANGED <<definition, status, stored>>
      BY <2>7
         DEF ReadDefinition, ExecuteAsyncMetricQuery, ExecuteThrows,
             AttachQueryUuid, QueryEnded, PollTimesOut, LockOwnRow,
             SelectActive, LockActive, SelectDemoted, SupersedeOthers,
             SetActive, CallThrows, MarkFailedThrows, QueryFails, PurgeQuery,
             Crash, table, results
    <3>. QED  BY <3>1, RowsRest
  <2>8. CASE UNCHANGED vars
    BY <2>8, RowsRest DEF vars, table, results
  <2>. HIDE DEF SNext, PreAggregateInv
  <2>. QED
    BY <2>2, <2>3, <2>4, <2>5, <2>6, <2>7, <2>8 DEF Next, Run, Advance
<1>. QED
  BY <1>1, <1>2, PreAggregateInvariance, PTL
     DEF Spec, ImplementsSwitch, Switch!Spec
=============================================================================
