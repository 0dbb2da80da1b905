-------------------------- MODULE SchedulerQuiesce --------------------------
(***************************************************************************)
(* A scheduler worker and the migration lease.                             *)
(*                                                                         *)
(* The worker polls the lease of MigrationLease.  While it is active, its  *)
(* Graphile runners get no permit to dequeue; jobs that run may end during *)
(* a grace period, then the runners are stopped and their jobs released    *)
(* for a retry.  Once the lease is free the runners are replaced: one with *)
(* a concurrency of 1 first, the rest after a ramp.                        *)
(*                                                                         *)
(* One worker process is modelled: several share nothing but the lease.    *)
(* The generation counter is what makes a resume stale: a stale resume     *)
(* does nothing any more but finish a start it began, so that the current  *)
(* one is the only one kept.                                               *)
(***************************************************************************)
EXTENDS Naturals, FiniteSets

CONSTANTS
    Runners,      \* Graphile runners the process may have at a time
    NoRunner,     \* this.runner is undefined
    Concurrency,  \* scheduler.concurrency
    MaxClaims,    \* bound on the claims of the lease
    MaxFailures,  \* bound on the failures of the probe
    Faults        \* the failures an instance admits, a subset of
                  \* {"slow start", "start", "stop", "runner", "shutdown"}

ASSUME QuiesceAssumption ==
    /\ NoRunner \notin Runners
    /\ Concurrency \in Nat \ {0}
    /\ MaxClaims \in Nat /\ MaxFailures \in Nat

VARIABLES
    lease,     \* whether the lease is claimed, with a fresh heartbeat
    claims,    \* how often it was claimed
    failures,  \* how often the probe failed
    known,     \* leaseActive
    probe,     \* the read of the lease that is under way, and what it read
    cached,    \* cachedResult of the probe
    grace,     \* whether graceTimeout is set
    resume,    \* where the current resume() is
    quiesced,  \* isQuiesced, which the health check looks at
    phase,     \* of the process
    runner,    \* the state of each runner
    kind,      \* what it was started for
    managed,   \* managedRunners
    main,      \* runner, the one with the cron items
    stopping,  \* whether runnerStopPromise is set
    snapshot,  \* the runners it stops
    dead,      \* poolDeadAt is set
    worker     \* where a worker of the runner is between two jobs

world == <<lease, claims, failures>>
view == <<known, grace, quiesced>>
pool == <<runner, kind, managed, main>>
stop == <<stopping, snapshot>>
vars == <<world, view, probe, cached, resume, phase, pool, stop, dead, worker>>

Resuming == {"none", "stopping", "jitter", "checking", "starting", "ramping",
             "rechecking", "finishing"}

Starting == {"starting", "overtaken"}

TypeOK ==
    /\ lease \in BOOLEAN
    /\ claims \in 0..MaxClaims /\ failures \in 0..MaxFailures
    /\ known \in {"unknown", "active", "inactive"}
    /\ probe \in {"idle", "asked", "active", "inactive"}
    /\ cached \in {"none", "active", "inactive"}
    /\ grace \in BOOLEAN /\ quiesced \in BOOLEAN
    /\ resume \in Resuming
    /\ phase \in {"booting", "launching", "up", "draining", "stopped"}
    /\ runner \in [Runners -> {"none", "up", "draining"} \cup Starting]
    /\ kind \in [Runners -> {"full", "resume", "ramp"}]
    /\ managed \subseteq Runners
    /\ main \in Runners \cup {NoRunner}
    /\ stopping \in BOOLEAN /\ snapshot \subseteq Runners
    /\ dead \in BOOLEAN
    /\ worker \in [Runners -> {"idle", "asking", "waiting", "permitted", "busy"}]

\* run() has just asked the probe.
Init ==
    /\ lease \in BOOLEAN /\ claims = 0 /\ failures = 0
    /\ known = "unknown" /\ grace = FALSE /\ quiesced = FALSE
    /\ probe = "asked" /\ cached = "none"
    /\ resume = "none"
    /\ phase = "booting"
    /\ runner = [r \in Runners |-> "none"]
    /\ kind = [r \in Runners |-> "full"]
    /\ managed = {} /\ main = NoRunner
    /\ stopping = FALSE /\ snapshot = {}
    /\ dead = FALSE
    /\ worker = [r \in Runners |-> "idle"]

\* The quiesce is not stopped.
Alive == phase \in {"launching", "up"}

(***************************************************************************)
(* What others do to the lease.                                            *)
(***************************************************************************)

Claim ==
    /\ ~lease /\ claims < MaxClaims
    /\ lease' = TRUE /\ claims' = claims + 1
    /\ UNCHANGED <<failures, view, probe, cached, resume, phase, pool, stop, dead, worker>>

\* It is completed, parked or expires.
Free ==
    /\ lease
    /\ lease' = FALSE
    /\ UNCHANGED <<claims, failures, view, probe, cached, resume, phase, pool, stop, dead, worker>>

(***************************************************************************)
(* Runners.                                                                *)
(***************************************************************************)

Idle == {r \in Runners : runner[r] = "none"}

\* startManagedRunner, up to the answer of Graphile Worker.
StartRunner(k) ==
    \E r \in Idle :
        /\ runner' = [runner EXCEPT ![r] = "starting"]
        /\ kind' = [kind EXCEPT ![r] = k]

\* A start that a resume began goes on when the resume is stale.
Overtake ==
    runner' = [r \in Runners |->
                  IF runner[r] = "starting" /\ kind[r] # "full"
                  THEN "overtaken" ELSE runner[r]]

\* stopManagedRunnersForRetry joins a stop that is under way.
StopForRetry ==
    /\ stopping' = TRUE
    /\ snapshot' = IF stopping THEN snapshot ELSE managed

CancelWaiters ==
    worker' = [r \in Runners |-> IF worker[r] = "waiting" THEN "idle" ELSE worker[r]]

(***************************************************************************)
(* applyLeaseState, with what waited for the answer.  asking are the       *)
(* workers that await the same refreshPromise.                             *)
(***************************************************************************)

HearActive(asking) ==
    /\ known' = "active"
    /\ worker' = [r \in Runners |-> IF r \in asking THEN "waiting" ELSE worker[r]]
    /\ IF known = "active"
       THEN UNCHANGED <<grace, quiesced, resume, runner>>
       ELSE /\ grace' = TRUE
            /\ quiesced' = TRUE
            /\ resume' = "none"
            /\ Overtake
    /\ phase' = IF phase = "booting" THEN "up" ELSE phase
    /\ UNCHANGED <<kind, managed, main, stop>>

\* Mutant: those that wait for the end of the migration are not told.
PermitAsking(asking) ==
    worker' = [r \in Runners |-> IF r \in asking THEN "permitted" ELSE worker[r]]

Permit(asking) ==
    worker' = [r \in Runners |->
                  CASE r \in asking                              -> "permitted"
                    [] known = "active" /\ worker[r] = "waiting" -> "idle"
                    [] OTHER                                     -> worker[r]]

\* Mutant: the runners go on next to those of the resume.
ResumeAtOnce ==
    /\ grace' = FALSE
    /\ resume' = "jitter"
    /\ UNCHANGED <<quiesced, stop>>

\* Mutant: the health check expects runners as soon as the lease is free.
Unquiesce ==
    /\ grace' = FALSE
    /\ quiesced' = FALSE
    /\ resume' = "stopping"
    /\ StopForRetry

LeaseCleared ==
    /\ grace' = FALSE
    /\ resume' = "stopping"
    /\ StopForRetry
    /\ UNCHANGED quiesced

\* The resume goes on if it was the one to ask.
ResumeGoesOn ==
    \/ resume = "checking" /\ resume' = "starting" /\ StartRunner("resume")
    \/ /\ resume = "rechecking" /\ Concurrency > 1
       /\ resume' = "finishing" /\ StartRunner("ramp")
    \/ /\ resume = "rechecking" /\ Concurrency = 1
       /\ resume' = "none" /\ UNCHANGED <<runner, kind>>
    \/ /\ resume \notin {"checking", "rechecking"}
       /\ UNCHANGED <<resume, runner, kind>>

HearInactive(asking) ==
    /\ known' = "inactive"
    /\ Permit(asking)
    /\ \/ /\ known = "unknown"
          /\ quiesced' = FALSE /\ phase' = "launching"
          /\ StartRunner("full")
          /\ UNCHANGED <<grace, resume, stop>>
       \/ /\ known = "active"
          /\ LeaseCleared
          /\ UNCHANGED <<phase, runner, kind>>
       \/ /\ known = "inactive"
          /\ ResumeGoesOn
          /\ UNCHANGED <<grace, quiesced, phase, stop>>
    /\ UNCHANGED <<managed, main>>

(***************************************************************************)
(* refreshNow.  All callers share one read of the lease.                   *)
(***************************************************************************)

Asking == {r \in Runners : worker[r] = "asking"}

\* Without slow starts, a start ends before the next answer arrives.
StartsAreQuick ==
    "slow start" \in Faults \/ \A r \in Runners : runner[r] \notin Starting

ReadLease ==
    /\ probe = "asked"
    /\ probe' = IF lease THEN "active" ELSE "inactive"
    /\ UNCHANGED <<world, view, cached, resume, phase, pool, stop, dead, worker>>

ProbeAnswers ==
    /\ probe \in {"active", "inactive"}
    /\ StartsAreQuick
    /\ probe' = "idle"
    /\ cached' = probe
    /\ IF probe = "active" THEN HearActive(Asking) ELSE HearInactive(Asking)
    /\ UNCHANGED <<world, dead>>

\* A failure counts as an active lease, and leaves the cache as it was.
ProbeFails ==
    /\ probe # "idle"
    /\ failures < MaxFailures
    /\ StartsAreQuick
    /\ failures' = failures + 1
    /\ probe' = "idle"
    /\ HearActive(Asking)
    /\ UNCHANGED <<lease, claims, cached, dead>>

Refresh == probe' = IF probe = "idle" THEN "asked" ELSE probe

Poll ==
    /\ Alive
    /\ probe = "idle"
    /\ Refresh
    /\ UNCHANGED <<world, view, cached, resume, phase, pool, stop, dead, worker>>

CacheExpires ==
    /\ cached # "none"
    /\ cached' = "none"
    /\ UNCHANGED <<world, view, probe, resume, phase, pool, stop, dead, worker>>

(***************************************************************************)
(* A worker between two jobs: forbiddenFlags is waitForDequeuePermit.      *)
(***************************************************************************)

\* A runner that is being stopped asks no more.
CanAsk(r) == Alive /\ runner[r] = "up" /\ r \notin snapshot /\ worker[r] = "idle"

Ask(r) ==
    /\ CanAsk(r)
    /\ probe # "idle" \/ cached = "none"
    /\ worker' = [worker EXCEPT ![r] = "asking"]
    /\ Refresh
    /\ UNCHANGED <<world, view, cached, resume, phase, pool, stop, dead>>

AskCache(r) ==
    /\ CanAsk(r)
    /\ probe = "idle" /\ cached # "none"
    /\ StartsAreQuick
    /\ IF cached = "active" THEN HearActive({r}) ELSE HearInactive({r})
    /\ UNCHANGED <<world, probe, cached, dead>>

\* get_job finds a job, or none.
Dequeue(r) ==
    /\ worker[r] = "permitted"
    /\ \E w \in {"busy", "idle"} : worker' = [worker EXCEPT ![r] = w]
    /\ UNCHANGED <<world, view, probe, cached, resume, phase, pool, stop, dead>>

JobEnds(r) ==
    /\ worker[r] = "busy"
    /\ worker' = [worker EXCEPT ![r] = "idle"]
    /\ UNCHANGED <<world, view, probe, cached, resume, phase, pool, stop, dead>>

(***************************************************************************)
(* The grace period, and resume().                                         *)
(***************************************************************************)

\* Mutant: the jobs that run may go on.
LetJobsRun ==
    /\ grace /\ Alive /\ known = "active"
    /\ grace' = FALSE
    /\ CancelWaiters
    /\ UNCHANGED <<world, known, quiesced, probe, cached, resume, phase, pool, stop, dead>>

GraceExpires ==
    /\ grace /\ Alive /\ known = "active"
    /\ grace' = FALSE
    /\ CancelWaiters
    /\ StopForRetry
    /\ UNCHANGED <<world, known, quiesced, probe, cached, resume, phase, pool, dead>>

\* A shutdown that found the pool dead awaits the stop.
DrainAnswered == phase' = IF phase = "draining" /\ dead THEN "stopped" ELSE phase

\* gracefulShutdown releases the jobs, and managedRunners is cleared of all
\* runners, those that came up meanwhile included.
RunnersStopped ==
    /\ stopping
    /\ stopping' = FALSE /\ snapshot' = {}
    /\ runner' = [r \in Runners |-> IF r \in snapshot THEN "none" ELSE runner[r]]
    /\ worker' = [r \in Runners |-> IF r \in snapshot THEN "idle" ELSE worker[r]]
    /\ managed' = {} /\ main' = NoRunner
    /\ DrainAnswered
    /\ resume' = CASE resume = "stopping" /\ Alive  -> "jitter"
                   [] resume = "stopping" /\ ~Alive -> "none"
                   [] resume # "stopping"           -> resume
    /\ UNCHANGED <<world, view, probe, cached, kind, dead>>

\* Mutant: nothing is left of a ramp.
ForgetRamp ==
    /\ resume \in {"jitter", "ramping"}
    /\ resume' = IF resume = "jitter" THEN "checking" ELSE "none"
    /\ Refresh
    /\ UNCHANGED <<world, view, cached, phase, pool, stop, dead, worker>>

Delay ==
    /\ resume \in {"jitter", "ramping"}
    /\ resume' = IF resume = "jitter" THEN "checking" ELSE "rechecking"
    /\ Refresh
    /\ UNCHANGED <<world, view, cached, phase, pool, stop, dead, worker>>

\* Whoever awaits the start goes on: run(), or the resume if it is current.
RunnerUp(r) ==
    /\ runner[r] \in Starting
    /\ runner' = [runner EXCEPT ![r] = "up"]
    /\ managed' = managed \cup {r}
    /\ main' = IF kind[r] = "ramp" THEN main ELSE r
    /\ IF runner[r] = "starting" /\ kind[r] # "ramp"
       THEN quiesced' = FALSE ELSE UNCHANGED quiesced
    /\ phase' = IF phase = "launching" /\ kind[r] = "full" THEN "up" ELSE phase
    /\ resume' = CASE runner[r] = "starting" /\ kind[r] = "resume" -> "ramping"
                   [] runner[r] = "starting" /\ kind[r] = "ramp"   -> "none"
                   [] OTHER                                        -> resume
    /\ UNCHANGED <<world, known, grace, probe, cached, kind, stop, dead, worker>>

(***************************************************************************)
(* Failures.  onFailure marks the pool dead, and the process exits.        *)
(***************************************************************************)

\* run() throws, or resume() does.
StartFails(r) ==
    /\ "start" \in Faults
    /\ runner[r] \in Starting
    /\ runner' = [runner EXCEPT ![r] = "none"]
    /\ IF kind[r] = "full"
       THEN phase' = "stopped" /\ UNCHANGED <<quiesced, dead, resume>>
       ELSE /\ dead' = TRUE /\ quiesced' = FALSE
            /\ resume' = IF runner[r] = "starting" THEN "none" ELSE resume
            /\ UNCHANGED phase
    /\ UNCHANGED <<world, known, grace, probe, cached, kind, managed, main, stop, worker>>

StopFails ==
    /\ "stop" \in Faults
    /\ stopping
    /\ stopping' = FALSE /\ snapshot' = {}
    /\ dead' = TRUE /\ quiesced' = FALSE
    /\ resume' = IF resume = "stopping" THEN "none" ELSE resume
    /\ DrainAnswered
    /\ UNCHANGED <<world, known, grace, probe, cached, pool, worker>>

\* The pool terminates by itself; its jobs stay locked.
RunnerDies(r) ==
    /\ "runner" \in Faults
    /\ runner[r] = "up" /\ r \notin snapshot
    /\ runner' = [runner EXCEPT ![r] = "none"]
    /\ worker' = [worker EXCEPT ![r] = "idle"]
    /\ managed' = managed \ {r}
    /\ dead' = (Alive \/ dead)
    /\ UNCHANGED <<world, view, probe, cached, resume, phase, kind, main, stop>>

Exit ==
    /\ dead
    /\ phase' = "stopped"
    /\ UNCHANGED <<world, view, probe, cached, resume, pool, stop, dead, worker>>

(***************************************************************************)
(* stop().  A read that is under way is not cancelled.                     *)
(***************************************************************************)

Shutdown ==
    /\ "shutdown" \in Faults
    /\ phase = "up"
    /\ grace' = FALSE /\ resume' = "none"
    /\ CancelWaiters
    /\ \/ /\ managed = {}
          /\ phase' = "stopped" /\ quiesced' = FALSE
          /\ Overtake
          /\ UNCHANGED stop
       \/ /\ managed # {} /\ dead
          /\ phase' = "draining" /\ Overtake
          /\ StopForRetry
          /\ UNCHANGED quiesced
       \/ /\ managed # {} /\ ~dead
          /\ phase' = "draining"
          /\ runner' = [r \in Runners |->
                           CASE r \in managed                                -> "draining"
                             [] runner[r] = "starting" /\ kind[r] # "full" -> "overtaken"
                             [] OTHER                                        -> runner[r]]
          /\ UNCHANGED <<quiesced, stop>>
    /\ UNCHANGED <<world, known, probe, cached, kind, managed, main, dead>>

Drained(r) == runner[r] = "draining" => worker[r] = "idle"

\* Mutant: nothing ends the wait for the workers.
DrainForever ==
    /\ phase = "draining"
    /\ \A r \in Runners : Drained(r)
    /\ phase' = "stopped" /\ quiesced' = FALSE
    /\ managed' = {} /\ main' = NoRunner
    /\ UNCHANGED <<world, known, grace, probe, cached, resume, runner, kind, stop, dead, worker>>

\* The runners have stopped, or shutdownTimeout has passed and their jobs
\* are released.
DrainEnds ==
    /\ phase = "draining" /\ ~dead
    /\ phase' = "stopped" /\ quiesced' = FALSE
    /\ managed' = {} /\ main' = NoRunner
    /\ UNCHANGED <<world, known, grace, probe, cached, resume, runner, kind, stop, dead, worker>>

(***************************************************************************)
(* The specification.                                                      *)
(***************************************************************************)

\* What the process does by itself.
Process ==
    \/ ReadLease \/ ProbeAnswers \/ Poll
    \/ GraceExpires \/ RunnersStopped \/ Delay
    \/ \E r \in Runners : RunnerUp(r)
    \/ Exit \/ DrainEnds

Next ==
    \/ Claim \/ Free
    \/ /\ phase # "stopped"
       /\ \/ Process
          \/ ProbeFails \/ CacheExpires \/ StopFails \/ Shutdown
          \/ \E r \in Runners :
                \/ Ask(r) \/ AskCache(r) \/ Dequeue(r) \/ JobEnds(r)
                \/ StartFails(r) \/ RunnerDies(r)

Spec == Init /\ [][Next]_vars

\* Timers fire, the database answers, and calls of Graphile Worker return.
Fairness ==
    /\ WF_vars(ReadLease /\ phase # "stopped")
    /\ WF_vars(ProbeAnswers /\ phase # "stopped") /\ WF_vars(Poll)
    /\ WF_vars(GraceExpires) /\ WF_vars(RunnersStopped /\ phase # "stopped")
    /\ WF_vars(Delay /\ phase # "stopped")
    /\ \A r \in Runners : WF_vars(RunnerUp(r) /\ phase # "stopped")
    /\ WF_vars(Exit /\ phase # "stopped") /\ WF_vars(DrainEnds)

FairSpec == Spec /\ Fairness

(***************************************************************************)
(* Properties.                                                             *)
(***************************************************************************)

Works(r) == runner[r] # "none"

\* However often the lease comes and goes, the runners that exist never have
\* more workers than scheduler.concurrency: there is the one of run(), or
\* one of a resume next to one of its ramp.
OneSchedule ==
    "slow start" \notin Faults =>
        \A r, s \in Runners :
            r # s /\ Works(r) /\ Works(s) => {kind[r], kind[s]} = {"resume", "ramp"}

\* Once the grace period is over and the runners are stopped, no job runs
\* while the process knows of the migration.
GraceIsTheEnd ==
    "slow start" \notin Faults =>
        (phase = "up" /\ ~dead /\ known = "active" /\ ~grace /\ ~stopping
            => \A r \in Runners : worker[r] # "busy")

\* The health check never reports a worker that neither is quiesced nor has
\* a runner, unless its pool is dead: Kubernetes would restart it.
NeverUnhealthy ==
    "slow start" \notin Faults =>
        (phase = "up" /\ ~dead => quiesced \/ main \in managed)

\* A worker that waits for the end of the migration is told of it.
NobodyForgotten ==
    \A r \in Runners : worker[r] = "waiting" => known = "active" \/ ~Alive

\* After the migration the worker has its whole concurrency again.
AtFullStrength ==
    \/ \E r \in managed : kind[r] = "full"
    \/ \E r, s \in managed : kind[r] = "resume" /\ kind[s] = "ramp"
    \/ Concurrency = 1 /\ managed # {}

Resumes ==
    <>[](~lease /\ phase = "up" /\ ~dead) => <>[](~quiesced /\ AtFullStrength)

\* A shutdown ends, also when it meets a migration, or a worker that waits
\* for a permit nobody will give it.
ShutdownEnds == phase = "draining" ~> phase = "stopped"

(***************************************************************************)
(* The inductive invariants behind the safety properties.                  *)
(***************************************************************************)

\* What the probe said first decides how the process starts.
KnownOnceBooted == known = "unknown" => phase \in {"booting", "stopped"}

ForgottenInv ==
    /\ TypeOK
    /\ KnownOnceBooted
    /\ known = "unknown" => \A r \in Runners : worker[r] # "waiting"
    /\ NobodyForgotten

\* A worker that does anything belongs to a runner that came up.
WorkersHaveRunners ==
    \A r \in Runners : worker[r] # "idle" => runner[r] \in {"up", "draining"}

\* Before run() has its first answer there is nothing.
BootingIsEmpty ==
    /\ phase = "booting" => /\ known = "unknown"
                            /\ \A r \in Runners : ~Works(r)
                            /\ managed = {} /\ resume = "none" /\ ~stopping /\ ~grace
    /\ phase = "launching" => /\ known = "inactive" /\ resume = "none"
                              /\ ~stopping /\ ~grace
                              /\ \E r \in Runners : runner[r] = "starting"

\* While the process lives it knows its runners: one that starts is awaited,
\* every other one is managed.
RunnersAreKnown ==
    Alive => \A r \in Runners :
        /\ r \in managed => runner[r] = "up"
        /\ \/ ~Works(r)
           \/ runner[r] = "up" /\ r \in managed
           \/ /\ runner[r] = "starting"
              /\ \/ kind[r] = "full" /\ phase = "launching"
                 \/ kind[r] = "resume" /\ resume = "starting"
                 \/ kind[r] = "ramp" /\ resume = "finishing"

\* A start that a shutdown overtook is not awaited.
NoneAwaited ==
    phase = "draining" => \A r \in Runners : runner[r] # "starting"

\* A stop takes all runners there are, and none is started next to it.
StopIsComplete ==
    stopping /\ Alive =>
        /\ \A r \in Runners : Works(r) => r \in snapshot
        /\ \/ resume = "stopping"
           \/ resume = "none" /\ known = "active"

\* How far the current resume is says which runners there are.
ResumeHasRunners ==
    /\ resume # "none" => known = "inactive"
    /\ resume = "stopping" => stopping
    /\ phase = "draining" => resume \in {"none", "stopping"}
    /\ resume \in {"jitter", "checking"} => \A r \in Runners : ~Works(r)
    /\ resume \in {"starting", "ramping", "rechecking", "finishing"}
          => ~stopping /\ \A r \in Runners : Works(r) => kind[r] # "full"
    /\ resume \in {"starting", "ramping", "rechecking"}
          => \A r \in Runners : Works(r) => kind[r] = "resume"
    /\ resume = "starting" => \A r \in Runners : Works(r) => runner[r] = "starting"

\* From the news of a migration to the first runner of its resume the worker
\* is quiesced, and after the grace period its runners are stopped.
QuiescedUntilResumed ==
    phase = "up" /\ ~dead =>
        /\ known = "active" => grace \/ stopping \/ \A r \in Runners : ~Works(r)
        /\ known = "active" \/ stopping => quiesced
        /\ resume \in {"stopping", "jitter", "checking", "starting"} => quiesced

QuiesceInv ==
    "slow start" \notin Faults =>
        /\ TypeOK
        /\ KnownOnceBooted /\ WorkersHaveRunners /\ BootingIsEmpty
        /\ RunnersAreKnown /\ NoneAwaited /\ StopIsComplete
        /\ ResumeHasRunners /\ QuiescedUntilResumed
        /\ OneSchedule /\ NeverUnhealthy

(***************************************************************************)
(* What the migrations see of the worker: PausableWorker.                  *)
(***************************************************************************)

Mode ==
    CASE phase = "stopped"                       -> "stopped"
      [] phase = "draining" \/ (phase = "up" /\ dead) -> "ending"
      [] phase \in {"booting", "launching"}      -> "starting"
      [] phase = "up" /\ ~dead /\ known = "active" ->
            IF grace THEN "notified" ELSE IF stopping THEN "pausing" ELSE "paused"
      [] OTHER ->
            CASE resume = "stopping"                           -> "restarting"
              [] resume \in {"jitter", "checking", "starting"} -> "resuming"
              [] OTHER                                         -> "serving"

Jobs == {r \in Runners : phase # "stopped" /\ worker[r] = "busy"}

Pause == INSTANCE PausableWorker WITH mode <- Mode, jobs <- Jobs

\* With quick starts the worker is a PausableWorker: no step of a stop, of a
\* resume or of their overlap lets a job run or begin that must not.
ImplementsPause == Pause!Spec

=============================================================================
