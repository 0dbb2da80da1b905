--------------------------- MODULE MigrationLease ---------------------------
(***************************************************************************)
(* Database migrations under the migration lease.                          *)
(*                                                                         *)
(* Every server that boots runs `migrate up`, operators run `migrate wait` *)
(* and `migrate unlock`.  One runner claims the lease, renews it with      *)
(* heartbeats and migrates; the others follow, and take over a lease whose *)
(* heartbeat is too old.  A runner claims at most once, so it stands for   *)
(* its claim_token too.                                                    *)
(***************************************************************************)
EXTENDS Naturals, Sequences

CONSTANTS
    Runners,      \* processes of `migrate up` and `migrate wait`
    NoRunner,     \* no claim_token
    Versions,     \* application versions
    NoVersion,    \* nothing is parked
    Files,        \* the migration files of each version; a migration is the
                  \* timestamp its name starts with
    Version,      \* the version of each runner
    Command,      \* of each runner: "up", "up --force" or "wait"
    MaxAttempts,  \* migrationMaxAttempts
    Faults        \* the failures and commands an instance admits, a subset of
                  \* {"crash", "database", "stall", "timeout", "unlock",
                  \* "unlock --force"}

ASSUME MigrationAssumption ==
    /\ NoRunner \notin Runners
    /\ NoVersion \notin Versions
    /\ Files \in [Versions -> (SUBSET Nat) \ {{}}]
    /\ Version \in [Runners -> Versions]
    /\ Command \in [Runners -> {"up", "up --force", "wait"}]
    /\ MaxAttempts \in Nat \ {0}

VARIABLES
    done,      \* knex_migrations in the order of its ids
    graphile,  \* whether the Graphile Worker migrations have run
    knexLock,  \* is_locked of knex_migrations_lock
    holder,    \* claim_token
    fresh,     \* whether last_heartbeat is younger than expiryMs
    current,   \* whether current_migration is set
    parked,    \* parked_app_version
    pc,        \* where the runner is
    plan,      \* the pending migrations it has read
    attempt,   \* the attempt it is at
    outcome,   \* outcome of the migration_run_ledger row of that attempt
    operator   \* where `migrate unlock` is

database == <<done, graphile, knexLock>>
lease == <<holder, fresh, current, parked>>
run == <<plan, attempt, outcome>>
vars == <<database, lease, pc, run, operator>>

Migrations == UNION {Files[v] : v \in Versions}

\* Between the claim and the end, with the heartbeat going.
Holding == {"attempting", "clearing", "reading", "choosing", "starting",
            "migrating", "upgrading", "finishing", "completing", "failing"}

Following == {"following", "deciding", "promoting", "sleeping"}

Places == {"idle", "claiming", "done", "exited"} \cup Following \cup Holding

Outcomes == {"none", "running", "retrying", "succeeded", "parked"}

TypeOK ==
    /\ done \in Seq(Migrations)
    /\ graphile \in BOOLEAN /\ knexLock \in BOOLEAN
    /\ holder \in Runners \cup {NoRunner}
    /\ fresh \in BOOLEAN /\ current \in BOOLEAN
    /\ parked \in Versions \cup {NoVersion}
    /\ pc \in [Runners -> Places]
    /\ plan \in [Runners -> SUBSET Migrations]
    /\ attempt \in [Runners -> 1..MaxAttempts]
    /\ outcome \in [Runners -> Outcomes]
    /\ operator \in {"idle", "unlocking", "clearing"}

Init ==
    /\ done = <<>> /\ graphile = FALSE /\ knexLock = FALSE
    /\ holder = NoRunner /\ fresh = FALSE /\ current = FALSE
    /\ parked = NoVersion
    /\ pc = [r \in Runners |-> "idle"]
    /\ plan = [r \in Runners |-> {}]
    /\ attempt = [r \in Runners |-> 1]
    /\ outcome = [r \in Runners |-> "none"]
    /\ operator = "idle"

Goto(r, p) == pc' = [pc EXCEPT ![r] = p]

(***************************************************************************)
(* getKnexMigrationState.                                                  *)
(***************************************************************************)

Completed == {done[i] : i \in 1..Len(done)}
FilesOf(r) == Files[Version[r]]
Pending(r) == FilesOf(r) \ Completed

\* Migrations the database has and the files have not may only be newer than
\* every file, and in order; that matters as long as some file is pending.
Diverged(r) ==
    LET missing == SelectSeq(done, LAMBDA m : m \notin FilesOf(r))
    IN  /\ Pending(r) # {}
        /\ \E i \in 1..Len(missing) :
              \/ \E f \in FilesOf(r) : missing[i] <= f
              \/ i > 1 /\ missing[i] <= missing[i - 1]

\* assertMigrationStateRunnable throws.
Refuses(r) == Diverged(r) /\ Command[r] # "up --force"

ReadPending(r) == plan' = [plan EXCEPT ![r] = Pending(r)]

\* Mutant: the plan is run in any order.
AnyOf(m, r) == m \in plan[r]

IsNext(m, r) == m \in plan[r] /\ \A n \in plan[r] : m <= n

(***************************************************************************)
(* The lease row.  Every operation is one UPDATE, or one transaction.      *)
(***************************************************************************)

\* Mutant: a heartbeat never grows too old.
IgnoreExpiry == holder = NoRunner

Claimable == holder = NoRunner \/ ~fresh

\* Mutant: the claim looks at no heartbeat.
ClaimHeldLease(r) == parked # Version[r]

\* Mutant: parked_app_version is not looked at.
ClaimParked(r) == Claimable

CanClaim(r) == Claimable /\ parked # Version[r]

Free ==
    /\ holder' = NoRunner
    /\ fresh' = FALSE
    /\ current' = FALSE

Owns(r) == holder = r

(***************************************************************************)
(* runUp, up to the claim, and the claim of a promoted follower.           *)
(***************************************************************************)

\* The preflight gate may abort whatever the database holds.
Start(r) ==
    /\ pc[r] = "idle"
    /\ \/ Command[r] = "wait" /\ Goto(r, "following")
       \/ Command[r] # "wait" /\ ~Refuses(r) /\ Goto(r, "claiming")
       \/ Command[r] # "wait" /\ Goto(r, "exited")
    /\ UNCHANGED <<database, lease, run, operator>>

\* The answer of the UPDATE may be lost.
ClaimAcquired(r) ==
    /\ pc[r] \in {"claiming", "promoting"}
    /\ CanClaim(r)
    /\ holder' = r /\ fresh' = TRUE /\ current' = FALSE
    /\ \/ Goto(r, "attempting")
       \/ "database" \in Faults /\ Goto(r, "exited")
    /\ UNCHANGED <<database, parked, run, operator>>

ClaimHeld(r) ==
    /\ pc[r] \in {"claiming", "promoting"}
    /\ ~CanClaim(r)
    /\ Goto(r, IF pc[r] = "claiming" THEN "following" ELSE "sleeping")
    /\ UNCHANGED <<database, lease, run, operator>>

(***************************************************************************)
(* followMigrations reads the migrations, then the lease.                  *)
(***************************************************************************)

FollowState(r) ==
    /\ pc[r] = "following"
    /\ \/ Refuses(r) /\ Goto(r, "exited") /\ UNCHANGED plan
       \/ ~Refuses(r) /\ Goto(r, "deciding") /\ ReadPending(r)
    /\ UNCHANGED <<database, lease, attempt, outcome, operator>>

PendingWork(r) == plan[r] # {} \/ current

\* Mutant: only the state of the files is looked at.
FollowAnyone(r) ==
    /\ pc[r] = "deciding"
    /\ Goto(r, IF Claimable THEN "done" ELSE "sleeping")
    /\ UNCHANGED <<database, lease, run, operator>>

FollowLease(r) ==
    /\ pc[r] = "deciding"
    /\ \/ parked = Version[r] /\ Goto(r, "exited")
       \/ /\ parked # Version[r]
          /\ ~Claimable
          /\ Goto(r, "sleeping")
       \/ /\ parked # Version[r]
          /\ Claimable
          /\ Goto(r, IF PendingWork(r) THEN "promoting" ELSE "done")
    /\ UNCHANGED <<database, lease, run, operator>>

Sleep(r) ==
    /\ pc[r] = "sleeping"
    /\ Goto(r, "following")
    /\ UNCHANGED <<database, lease, run, operator>>

WaitTimesOut(r) ==
    /\ "timeout" \in Faults
    /\ pc[r] = "sleeping"
    /\ Goto(r, "exited")
    /\ UNCHANGED <<database, lease, run, operator>>

(***************************************************************************)
(* runHolderAttempt.                                                       *)
(***************************************************************************)

\* startRun inserts the ledger row before the state is judged.
BeginAttempt(r) ==
    /\ pc[r] = "attempting"
    /\ ReadPending(r)
    /\ outcome' = [outcome EXCEPT ![r] = "running"]
    /\ Goto(r, IF Refuses(r) THEN "failing" ELSE "clearing")
    /\ UNCHANGED <<database, lease, attempt, operator>>

\* The lease is taken for the proof that nobody migrates any more.
ClearKnexLock(r) ==
    /\ pc[r] = "clearing"
    /\ knexLock' = FALSE
    /\ Goto(r, "choosing")
    /\ UNCHANGED <<done, graphile, lease, run, operator>>

\* Mutant: the loop may end while migrations are pending.
RunOne(r) ==
    /\ pc[r] = "choosing"
    /\ current' = (Owns(r) \/ current)
    /\ IF Owns(r)
       THEN (plan[r] # {} /\ Goto(r, "starting")) \/ Goto(r, "upgrading")
       ELSE Goto(r, "failing")
    /\ UNCHANGED <<database, holder, fresh, parked, run, operator>>

\* setCurrentMigration, for the next migration or for Graphile Worker.
SetCurrentMigration(r) ==
    /\ pc[r] = "choosing"
    /\ current' = (Owns(r) \/ current)
    /\ Goto(r, CASE ~Owns(r)                  -> "failing"
                 [] Owns(r) /\ plan[r] # {} -> "starting"
                 [] Owns(r) /\ plan[r] = {} -> "upgrading")
    /\ UNCHANGED <<database, holder, fresh, parked, run, operator>>

\* Knex takes its own lock around a migration.
StartMigration(r) ==
    /\ pc[r] = "starting"
    /\ ~knexLock
    /\ knexLock' = TRUE
    /\ Goto(r, "migrating")
    /\ UNCHANGED <<done, graphile, lease, run, operator>>

KnexLocked(r) ==
    /\ pc[r] = "starting"
    /\ knexLock
    /\ Goto(r, "failing")
    /\ UNCHANGED <<database, lease, run, operator>>

\* A migration that another runner has completed meanwhile is skipped.
Complete(m) == done' = IF m \in Completed THEN done ELSE Append(done, m)

FinishMigration(r) ==
    /\ pc[r] = "migrating"
    /\ \E m \in plan[r] : IsNext(m, r) /\ Complete(m)
    /\ knexLock' = FALSE
    /\ Goto(r, "reading")
    /\ UNCHANGED <<graphile, lease, run, operator>>

\* Knex rolls the migration back, or the answer of its COMMIT is lost, and
\* gives its lock back, or cannot.
MigrationFails(r) ==
    /\ pc[r] = "migrating"
    /\ \/ UNCHANGED done
       \/ "database" \in Faults /\ \E m \in plan[r] : IsNext(m, r) /\ Complete(m)
    /\ knexLock' \in IF "database" \in Faults THEN BOOLEAN ELSE {FALSE}
    /\ Goto(r, "failing")
    /\ UNCHANGED <<graphile, lease, run, operator>>

ReadNextState(r) ==
    /\ pc[r] = "reading"
    /\ ReadPending(r)
    /\ Goto(r, IF Refuses(r) THEN "failing" ELSE "choosing")
    /\ UNCHANGED <<database, lease, attempt, outcome, operator>>

RunGraphileMigrations(r) ==
    /\ pc[r] = "upgrading"
    /\ graphile' = TRUE
    /\ Goto(r, "finishing")
    /\ UNCHANGED <<done, knexLock, lease, run, operator>>

ClearCurrentMigration(r) ==
    /\ pc[r] = "finishing"
    /\ current' = (~Owns(r) /\ current)
    /\ Goto(r, IF Owns(r) THEN "completing" ELSE "failing")
    /\ UNCHANGED <<database, holder, fresh, parked, run, operator>>

\* Any call of the attempt throws before it changed anything.
AttemptThrows(r) ==
    /\ pc[r] \in {"clearing", "reading", "choosing", "starting",
                  "upgrading", "finishing"}
    /\ Goto(r, "failing")
    /\ UNCHANGED <<database, lease, run, operator>>

(***************************************************************************)
(* runHolderAttempts and runAsHolder.                                      *)
(***************************************************************************)

\* recordRetry checks the token of the ledger row, not of the lease.
RecordRetry(r) ==
    /\ pc[r] = "failing"
    /\ attempt[r] < MaxAttempts
    /\ outcome' = [outcome EXCEPT ![r] = "retrying"]
    /\ attempt' = [attempt EXCEPT ![r] = @ + 1]
    /\ Goto(r, "attempting")
    /\ UNCHANGED <<database, lease, plan, operator>>

\* Mutant: the lease may be gone.
ParkAnyway(r) ==
    /\ pc[r] = "failing"
    /\ attempt[r] = MaxAttempts
    /\ outcome' = [outcome EXCEPT ![r] = "parked"]
    /\ Free
    /\ parked' = Version[r]
    /\ Goto(r, "exited")
    /\ UNCHANGED <<database, plan, attempt, operator>>

\* A lost lease rolls the transaction back.
ParkRun(r) ==
    /\ pc[r] = "failing"
    /\ attempt[r] = MaxAttempts
    /\ IF Owns(r)
       THEN /\ outcome' = [outcome EXCEPT ![r] = "parked"]
            /\ Free
            /\ parked' = Version[r]
       ELSE UNCHANGED <<lease, outcome>>
    /\ Goto(r, "exited")
    /\ UNCHANGED <<database, plan, attempt, operator>>

CompleteRun(r) ==
    /\ pc[r] = "completing"
    /\ IF Owns(r)
       THEN /\ outcome' = [outcome EXCEPT ![r] = "succeeded"]
            /\ Free
            /\ parked' = NoVersion
            /\ \/ Goto(r, "done")
               \/ "database" \in Faults /\ Goto(r, "exited")
       ELSE Goto(r, "exited") /\ UNCHANGED <<lease, outcome>>
    /\ UNCHANGED <<database, plan, attempt, operator>>

\* A call outside the attempt throws.  A holder keeps its lease: nothing
\* releases it, it has to expire.
CallThrows(r) ==
    /\ "database" \in Faults
    /\ pc[r] \in Following
           \cup {"claiming", "attempting", "failing", "completing"}
    /\ Goto(r, "exited")
    /\ UNCHANGED <<database, lease, run, operator>>

(***************************************************************************)
(* The heartbeat, and the end of a process.                                *)
(***************************************************************************)

Beat(r) ==
    /\ pc[r] \in Holding
    /\ Owns(r)
    /\ ~fresh
    /\ fresh' = TRUE
    /\ UNCHANGED <<database, holder, current, parked, pc, run, operator>>

\* PostgreSQL may have committed what the process had sent, and a Knex lock
\* it held stays.
Die(r) ==
    /\ Goto(r, "exited")
    /\ \/ UNCHANGED database
       \/ /\ pc[r] = "migrating"
          /\ \E m \in plan[r] : IsNext(m, r) /\ Complete(m)
          /\ UNCHANGED <<graphile, knexLock>>
       \/ /\ pc[r] = "upgrading"
          /\ graphile' = TRUE
          /\ UNCHANGED <<done, knexLock>>
    /\ UNCHANGED <<lease, run, operator>>

\* onLeaseLost exits the process: the token is gone, or no heartbeat has
\* been answered for as long as the lease lasts.
LoseLease(r) ==
    /\ pc[r] \in Holding
    /\ ~Owns(r) \/ ~fresh
    /\ Die(r)

Crash(r) ==
    /\ "crash" \in Faults
    /\ pc[r] \notin {"idle", "done", "exited"}
    /\ Die(r)

\* expiryMs is several heartbeat intervals, so a lease grows old when its
\* holder is gone, or its heartbeats do not arrive.
Expire ==
    /\ holder # NoRunner
    /\ fresh
    /\ "stall" \in Faults \/ \E r \in Runners : Owns(r) /\ pc[r] = "exited"
    /\ fresh' = FALSE
    /\ UNCHANGED <<database, holder, current, parked, pc, run, operator>>

(***************************************************************************)
(* migrate unlock.                                                         *)
(***************************************************************************)

\* Without a claim, a Knex lock may be that of a legacy migrator.
CheckUnlock ==
    /\ "unlock" \in Faults
    /\ operator = "idle"
    /\ ~(holder = NoRunner /\ knexLock)
    /\ operator' = "unlocking"
    /\ UNCHANGED <<database, lease, pc, run>>

Unlock ==
    /\ operator = "unlocking"
    /\ IF Claimable
       THEN Free /\ parked' = NoVersion /\ operator' = "clearing"
       ELSE UNCHANGED lease /\ operator' = "idle"
    /\ UNCHANGED <<database, pc, run>>

ForceUnlock ==
    /\ "unlock --force" \in Faults
    /\ operator = "idle"
    /\ Free
    /\ parked' = NoVersion
    /\ operator' = "clearing"
    /\ UNCHANGED <<database, pc, run>>

UnlockClearsKnexLock ==
    /\ operator = "clearing"
    /\ knexLock' = FALSE
    /\ operator' = "idle"
    /\ UNCHANGED <<done, graphile, lease, pc, run>>

\* What a runner does by itself.
Run(r) ==
    \/ ClaimAcquired(r) \/ ClaimHeld(r)
    \/ FollowState(r) \/ FollowLease(r) \/ Sleep(r) \/ WaitTimesOut(r)
    \/ BeginAttempt(r) \/ ClearKnexLock(r) \/ SetCurrentMigration(r)
    \/ StartMigration(r) \/ KnexLocked(r)
    \/ FinishMigration(r) \/ MigrationFails(r) \/ ReadNextState(r)
    \/ RunGraphileMigrations(r) \/ ClearCurrentMigration(r)
    \/ AttemptThrows(r) \/ RecordRetry(r) \/ ParkRun(r) \/ CompleteRun(r)
    \/ CallThrows(r)

Next ==
    \/ \E r \in Runners : Start(r) \/ Run(r) \/ Beat(r) \/ LoseLease(r) \/ Crash(r)
    \/ Expire
    \/ CheckUnlock \/ Unlock \/ ForceUnlock \/ UnlockClearsKnexLock

Spec == Init /\ [][Next]_vars

\* A process that runs goes on, migrations end or fail, and time passes.
Fairness == WF_vars(Expire) /\ \A r \in Runners : WF_vars(Run(r))

FairSpec == Spec /\ Fairness

(***************************************************************************)
(* What the lease is there for: MigrationHistory is implemented.           *)
(***************************************************************************)

Told == [r \in Runners |->
            IF pc[r] \in {"done", "exited"} THEN pc[r] ELSE "open"]

Recorded == {r \in Runners : outcome[r] = "succeeded"}

History == INSTANCE MigrationHistory WITH
    history <- done, upgraded <- graphile, told <- Told, recorded <- Recorded

\* Whoever holds the lease, loses it or takes it over, and whatever dies:
\* each release's migrations are applied in their order, a deposed holder's
\* next to its successor's, and what runners report and record is true of the
\* database.
ImplementsHistory == History!Spec

(***************************************************************************)
(* Properties.                                                             *)
(***************************************************************************)

\* One runner migrates at a time, as long as heartbeats arrive and nobody
\* forces an unlock: a dead holder is only replaced when its lease expired.
OneMigrator ==
    \A r, s \in Runners : pc[r] \in Holding /\ pc[s] \in Holding => r = s

\* A runner that reports success, as the holder or as a follower that saw
\* others finish, has a database with every migration of its version.
DoneIsMigrated ==
    \A r \in Runners : pc[r] = "done" => FilesOf(r) \subseteq Completed

\* The ledger, which tells later versions where they start from, records a
\* success only of a run that did everything.
SucceededIsComplete ==
    \A r \in Runners :
        outcome[r] = "succeeded" => FilesOf(r) \subseteq Completed /\ graphile

\* No version works on while it is parked, whoever claims in between.
ParkedRests == holder # NoRunner => parked # Version[holder]

\* While heartbeats arrive, whoever works holds a lease that is fresh.
WorkersHold ==
    Faults \cap {"stall", "unlock --force"} = {} =>
        \A r \in Runners : pc[r] \in Holding => holder = r /\ fresh

\* What a runner has not planned to run is done.
PlansCover ==
    \A r \in Runners :
        /\ pc[r] \in {"deciding", "clearing", "choosing", "starting", "migrating"}
               => FilesOf(r) \subseteq Completed \cup plan[r]
        /\ pc[r] \in {"upgrading", "finishing", "completing"}
               => FilesOf(r) \subseteq Completed
        /\ pc[r] \in {"finishing", "completing"} => graphile

\* A runner only plans migrations of its release.
PlansAreOwn == \A r \in Runners : plan[r] \subseteq FilesOf(r)

\* A run that succeeded is the last of its runner.
SuccessIsLast ==
    \A r \in Runners : outcome[r] = "succeeded" => pc[r] \in {"done", "exited"}

\* The inductive invariant.
MigrationInv ==
    /\ TypeOK
    /\ WorkersHold
    /\ PlansCover /\ PlansAreOwn
    /\ SuccessIsLast
    /\ DoneIsMigrated
    /\ SucceededIsComplete
    /\ ParkedRests

\* A deposed holder goes on for a while, but ends no run, and parks no
\* version, under the lease of its successor.
OwnersEndRuns ==
    [][\A r \in Runners :
          outcome'[r] # outcome[r] /\ outcome'[r] \in {"succeeded", "parked"}
              => holder = r /\ holder' = NoRunner]_vars

\* Every runner ends: none follows a dead holder for ever, or a lease that
\* nobody may claim.
RunnersEnd ==
    \A r \in Runners : pc[r] # "idle" ~> pc[r] \in {"done", "exited"}
=============================================================================
