----------------------- MODULE SchedulerQuiesceProofs -----------------------
(***************************************************************************)
(* Proofs about SchedulerQuiesce for any number of runners, any            *)
(* concurrency, any claims of the lease and failures of the probe.         *)
(***************************************************************************)
EXTENDS SchedulerQuiesce, TLAPS

\* The types, action by action.
LEMMA TypeStep == TypeOK /\ [Next]_vars => TypeOK'
<1>. SUFFICES ASSUME TypeOK, [Next]_vars PROVE TypeOK'
  OBVIOUS
<1>. USE QuiesceAssumption DEF TypeOK, QuiesceAssumption, Resuming, Starting,
         world, view, pool, stop
<1>1. ASSUME NEW A \in SUBSET Runners, HearActive(A)
      PROVE  /\ known' \in {"unknown", "active", "inactive"}
             /\ grace' \in BOOLEAN /\ quiesced' \in BOOLEAN /\ resume' \in Resuming
             /\ phase' \in {"booting", "launching", "up", "draining", "stopped"}
             /\ runner' \in [Runners -> {"none", "up", "draining"} \cup Starting]
             /\ worker' \in [Runners -> {"idle", "asking", "waiting", "permitted", "busy"}]
             /\ UNCHANGED <<kind, managed, main, stopping, snapshot>>
  BY <1>1 DEF HearActive, Overtake
<1>2. ASSUME NEW A \in SUBSET Runners, HearInactive(A)
      PROVE  /\ known' \in {"unknown", "active", "inactive"}
             /\ grace' \in BOOLEAN /\ quiesced' \in BOOLEAN /\ resume' \in Resuming
             /\ phase' \in {"booting", "launching", "up", "draining", "stopped"}
             /\ runner' \in [Runners -> {"none", "up", "draining"} \cup Starting]
             /\ kind' \in [Runners -> {"full", "resume", "ramp"}]
             /\ worker' \in [Runners -> {"idle", "asking", "waiting", "permitted", "busy"}]
             /\ stopping' \in BOOLEAN /\ snapshot' \subseteq Runners
             /\ UNCHANGED <<managed, main>>
  <2>1. worker' \in [Runners -> {"idle", "asking", "waiting", "permitted", "busy"}]
    BY <1>2 DEF HearInactive, Permit
  <2>2. CASE known = "unknown"
    BY <1>2, <2>1, <2>2 DEF HearInactive, StartRunner, Idle
  <2>3. CASE known = "active"
    BY <1>2, <2>1, <2>3 DEF HearInactive, LeaseCleared, StopForRetry
  <2>4. CASE known = "inactive"
    <3>1. resume' \in Resuming
      BY <1>2, <2>4 DEF HearInactive, ResumeGoesOn
    <3>2. /\ runner' \in [Runners -> {"none", "up", "draining"} \cup Starting]
          /\ kind' \in [Runners -> {"full", "resume", "ramp"}]
      BY <1>2, <2>4 DEF HearInactive, ResumeGoesOn, StartRunner, Idle
    <3>. QED
      BY <1>2, <2>1, <2>4, <3>1, <3>2 DEF HearInactive
  <2>. QED
    BY <2>2, <2>3, <2>4
<1>3. Asking \in SUBSET Runners /\ \A r \in Runners : {r} \in SUBSET Runners
  BY DEF Asking
<1>4. CASE Claim
  <2>1. /\ claims < MaxClaims /\ claims' = claims + 1 /\ lease' \in BOOLEAN
        /\ UNCHANGED <<failures, view, probe, cached, resume, phase, pool, stop, dead, worker>>
    BY <1>4, Zenon DEF Claim
  <2>2. claims' \in 0 .. MaxClaims
    BY <2>1
  <2>. QED
    BY <2>1, <2>2
<1>23. CASE Free
  <2>1. /\ lease' \in BOOLEAN
        /\ UNCHANGED <<claims, failures, view, probe, cached, resume, phase, pool, stop, dead, worker>>
    BY <1>23, Zenon DEF Free
  <2>. QED
    BY <2>1
<1>5. CASE ReadLease
  BY <1>5 DEF ReadLease
<1>6. CASE ProbeAnswers
  <2>1. /\ probe' = "idle" /\ cached' \in {"none", "active", "inactive"}
        /\ UNCHANGED <<lease, claims, failures, dead>>
    BY <1>6 DEF ProbeAnswers
  <2>. QED
    BY <1>1, <1>2, <1>3, <1>6, <2>1 DEF ProbeAnswers
<1>7. CASE ProbeFails
  <2>1. /\ probe' = "idle" /\ failures' \in 0 .. MaxFailures
        /\ UNCHANGED <<lease, claims, cached, dead>>
    BY <1>7 DEF ProbeFails
  <2>. QED
    BY <1>1, <1>3, <1>7, <2>1 DEF ProbeFails
<1>8. CASE Poll \/ CacheExpires
  BY <1>8 DEF Poll, CacheExpires, Refresh
<1>9. ASSUME NEW r \in Runners, Ask(r)
      PROVE  TypeOK'
  BY <1>9 DEF Ask, Refresh
<1>10. ASSUME NEW r \in Runners, AskCache(r)
       PROVE  TypeOK'
  <2>1. UNCHANGED <<lease, claims, failures, probe, cached, dead>>
    BY <1>10 DEF AskCache
  <2>. QED
    BY <1>1, <1>2, <1>3, <1>10, <2>1 DEF AskCache
<1>11. ASSUME NEW r \in Runners, Dequeue(r) \/ JobEnds(r)
       PROVE  TypeOK'
  BY <1>11 DEF Dequeue, JobEnds
<1>12. CASE GraceExpires
  <2>1. /\ worker' \in [Runners -> {"idle", "asking", "waiting", "permitted", "busy"}]
        /\ stopping' \in BOOLEAN /\ snapshot' \subseteq Runners
    BY <1>12 DEF GraceExpires, CancelWaiters, StopForRetry
  <2>2. /\ grace' \in BOOLEAN
        /\ UNCHANGED <<world, known, quiesced, probe, cached, resume, phase, pool, dead>>
    BY <1>12, Zenon DEF GraceExpires
  <2>. QED
    BY <2>1, <2>2
<1>13. CASE RunnersStopped
  BY <1>13 DEF RunnersStopped, DrainAnswered
<1>14. CASE Delay
  BY <1>14 DEF Delay, Refresh
<1>15. ASSUME NEW r \in Runners, RunnerUp(r)
       PROVE  TypeOK'
  <2>1. /\ runner' \in [Runners -> {"none", "up", "draining"} \cup Starting]
        /\ managed' \subseteq Runners /\ main' \in Runners \cup {NoRunner}
        /\ phase' \in {"booting", "launching", "up", "draining", "stopped"}
        /\ resume' \in Resuming
    BY <1>15 DEF RunnerUp
  <2>2. quiesced' \in BOOLEAN
    BY <1>15 DEF RunnerUp
  <2>3. UNCHANGED <<world, known, grace, probe, cached, kind, stop, dead, worker>>
    BY <1>15, Zenon DEF RunnerUp
  <2>. QED
    BY <2>1, <2>2, <2>3
<1>16. ASSUME NEW r \in Runners, StartFails(r)
       PROVE  TypeOK'
  <2>1. /\ runner' \in [Runners -> {"none", "up", "draining"} \cup Starting]
        /\ phase' \in {"booting", "launching", "up", "draining", "stopped"}
        /\ quiesced' \in BOOLEAN /\ dead' \in BOOLEAN /\ resume' \in Resuming
    BY <1>16 DEF StartFails
  <2>. QED
    BY <1>16, <2>1 DEF StartFails
<1>17. CASE StopFails
  BY <1>17 DEF StopFails, DrainAnswered
<1>18. ASSUME NEW r \in Runners, RunnerDies(r)
       PROVE  TypeOK'
  BY <1>18 DEF RunnerDies
<1>19. CASE Exit
  BY <1>19 DEF Exit
<1>20. CASE Shutdown
  <2>1. /\ grace' \in BOOLEAN /\ resume' = "none"
        /\ UNCHANGED <<world, known, probe, cached, kind, managed, main, dead>>
    BY <1>20, Zenon DEF Shutdown
  <2>2. /\ runner' \in [Runners -> {"none", "up", "draining"} \cup Starting]
        /\ phase' \in {"booting", "launching", "up", "draining", "stopped"}
        /\ quiesced' \in BOOLEAN
    <3>1. phase' \in {"stopped", "draining"} /\ (quiesced' \in BOOLEAN)
      BY <1>20 DEF Shutdown
    <3>2. \/ Overtake
          \/ runner' = [r \in Runners |->
                 CASE r \in managed                                -> "draining"
                   [] runner[r] = "starting" /\ kind[r] # "full" -> "overtaken"
                   [] OTHER                                        -> runner[r]]
      BY <1>20, Zenon DEF Shutdown
    <3>. QED
      BY <3>1, <3>2 DEF Overtake
  <2>3. /\ worker' \in [Runners -> {"idle", "asking", "waiting", "permitted", "busy"}]
        /\ stopping' \in BOOLEAN /\ snapshot' \subseteq Runners
    BY <1>20 DEF Shutdown, CancelWaiters, StopForRetry
  <2>. QED
    BY <2>1, <2>2, <2>3
<1>21. CASE DrainEnds
  <2>1. /\ quiesced' \in BOOLEAN /\ phase' = "stopped"
        /\ managed' = {} /\ main' = NoRunner
    BY <1>21, Zenon DEF DrainEnds
  <2>2. UNCHANGED <<world, known, grace, probe, cached, resume, runner, kind, stop, dead, worker>>
    BY <1>21, Zenon DEF DrainEnds
  <2>. QED
    BY <2>1, <2>2
<1>22. CASE UNCHANGED vars
  BY <1>22 DEF vars
<1>. QED
  BY <1>4, <1>5, <1>6, <1>7, <1>8, <1>9, <1>10, <1>11, <1>12, <1>13, <1>14,
     <1>15, <1>16, <1>17, <1>18, <1>19, <1>20, <1>21, <1>22, <1>23
     DEF Next, Process

(***************************************************************************)
(* What a step does to the runners and to what the process knows, without  *)
(* the probe, the cache and the jobs.                                      *)
(***************************************************************************)

NoStarts == \A r \in Runners : runner[r] \notin Starting

\* A worker that is no longer idle belongs to a runner that is up.
WorkersAreUp ==
    \A r \in Runners : worker'[r] # "idle" => worker[r] # "idle" \/ runner[r] = "up"

FewerWorkers == \A r \in Runners : worker'[r] # "idle" => worker[r] # "idle"

SamePool == UNCHANGED <<runner, kind, managed, main>>
SameFlags == (grace' <=> grace) /\ (quiesced' <=> quiesced)
SameStop == (stopping' <=> stopping) /\ snapshot' = snapshot
SameDead == dead' <=> dead

Starts(k) ==
    /\ \E i \in Runners :
          /\ runner[i] = "none"
          /\ runner' = [runner EXCEPT ![i] = "starting"]
          /\ kind' = [kind EXCEPT ![i] = k]
    /\ UNCHANGED <<managed, main>>

Stops ==
    /\ stopping'
    /\ \/ stopping /\ snapshot' = snapshot
       \/ ~stopping /\ snapshot' = managed

Quiet ==
    /\ WorkersAreUp /\ SamePool /\ SameFlags /\ SameStop /\ SameDead
    /\ UNCHANGED <<known, resume, phase>>

Hears == WorkersAreUp /\ SameDead /\ NoStarts /\ phase # "stopped"

HearsMigration ==
    /\ Hears /\ SamePool /\ SameStop
    /\ known' = "active"
    /\ phase' = IF phase = "booting" THEN "up" ELSE phase
    /\ \/ known = "active" /\ SameFlags /\ resume' = resume
       \/ known # "active" /\ grace' /\ quiesced' /\ resume' = "none"

HearsFirst ==
    /\ Hears /\ SameStop /\ Starts("full")
    /\ known = "unknown" /\ known' = "inactive"
    /\ phase' = "launching" /\ resume' = resume
    /\ (grace' <=> grace) /\ ~quiesced'

HearsEnd ==
    /\ Hears /\ SamePool /\ Stops
    /\ known = "active" /\ known' = "inactive"
    /\ phase' = phase /\ resume' = "stopping"
    /\ ~grace' /\ (quiesced' <=> quiesced)

HearsAgain ==
    /\ Hears /\ SameFlags /\ SameStop
    /\ known = "inactive" /\ known' = "inactive"
    /\ phase' = phase

\* No resume asked, or the one that did has no runners to add.
HearsNoNews ==
    /\ HearsAgain /\ SamePool
    /\ \/ resume \notin {"checking", "rechecking"} /\ resume' = resume
       \/ resume = "rechecking" /\ resume' = "none"

ResumeStarts ==
    HearsAgain /\ Starts("resume") /\ resume = "checking" /\ resume' = "starting"

ResumeRamps ==
    HearsAgain /\ Starts("ramp") /\ resume = "rechecking" /\ resume' = "finishing"

HearsSomething ==
    \/ HearsMigration \/ HearsFirst \/ HearsEnd
    \/ HearsNoNews \/ ResumeStarts \/ ResumeRamps

Expires ==
    /\ FewerWorkers /\ SamePool /\ SameDead /\ Stops
    /\ Alive /\ known = "active" /\ grace /\ ~grace' /\ (quiesced' <=> quiesced)
    /\ UNCHANGED <<known, resume, phase>>

PoolStops ==
    /\ stopping /\ ~stopping' /\ snapshot' = {}
    /\ SameFlags /\ SameDead
    /\ runner' = [r \in Runners |-> IF r \in snapshot THEN "none" ELSE runner[r]]
    /\ \A r \in Runners : worker'[r] # "idle" => worker[r] # "idle" /\ r \notin snapshot
    /\ managed' = {} /\ main' = NoRunner
    /\ phase' = phase \/ (phase = "draining" /\ phase' = "stopped")
    /\ \/ resume = "stopping" /\ Alive /\ resume' = "jitter"
       \/ resume = "stopping" /\ ~Alive /\ resume' = "none"
       \/ resume # "stopping" /\ resume' = resume
    /\ UNCHANGED <<known, kind>>

Delays ==
    /\ \/ resume = "jitter" /\ resume' = "checking"
       \/ resume = "ramping" /\ resume' = "rechecking"
    /\ SamePool /\ SameFlags /\ SameStop /\ SameDead
    /\ UNCHANGED <<known, phase, worker>>

Leaves ==
    /\ phase' = "stopped"
    /\ UNCHANGED <<known, resume, runner, kind, worker>>
    /\ (grace' <=> grace) /\ SameStop

StopIsLost ==
    /\ stopping /\ ~stopping' /\ snapshot' = {}
    /\ dead' /\ ~quiesced' /\ (grace' <=> grace)
    /\ \/ resume = "stopping" /\ resume' = "none"
       \/ resume # "stopping" /\ resume' = resume
    /\ phase' = phase \/ (phase = "draining" /\ phase' = "stopped")
    /\ SamePool /\ UNCHANGED <<known, worker>>

ShutsDown ==
    /\ phase = "up" /\ phase' \in {"stopped", "draining"}
    /\ ~grace' /\ resume' = "none"
    /\ FewerWorkers
    /\ \A r \in Runners :
          /\ runner'[r] # "none" => runner[r] # "none" \/ r \in managed
          /\ runner[r] \in {"up", "draining"} => runner'[r] \in {"up", "draining"}
          /\ runner'[r] = "starting" => runner[r] = "starting" /\ kind[r] = "full"
    /\ UNCHANGED <<known, kind, managed>>

ComesUp(r) ==
    /\ runner[r] \in Starting
    /\ runner' = [runner EXCEPT ![r] = "up"]
    /\ managed' = managed \cup {r}
    /\ main' = IF kind[r] = "ramp" THEN main ELSE r
    /\ IF runner[r] = "starting" /\ kind[r] # "ramp"
       THEN ~quiesced' ELSE quiesced' <=> quiesced
    /\ phase' = IF phase = "launching" /\ kind[r] = "full" THEN "up" ELSE phase
    /\ \/ runner[r] = "starting" /\ kind[r] = "resume" /\ resume' = "ramping"
       \/ runner[r] = "starting" /\ kind[r] = "ramp" /\ resume' = "none"
       \/ /\ ~(runner[r] = "starting" /\ kind[r] \in {"resume", "ramp"})
          /\ resume' = resume
    /\ (grace' <=> grace) /\ SameStop /\ SameDead
    /\ UNCHANGED <<known, kind, worker>>

\* The start of run(), or that of a resume.
FailsToStart(r) ==
    /\ runner[r] \in Starting
    /\ runner' = [runner EXCEPT ![r] = "none"]
    /\ \/ kind[r] = "full" /\ phase' = "stopped" /\ resume' = resume
       \/ /\ kind[r] # "full" /\ phase' = phase
          /\ dead' /\ ~quiesced'
          /\ resume' = IF runner[r] = "starting" THEN "none" ELSE resume
    /\ (grace' <=> grace) /\ SameStop
    /\ UNCHANGED <<known, kind, managed, main, worker>>

Dies(r) ==
    /\ runner[r] = "up" /\ r \notin snapshot
    /\ runner' = [runner EXCEPT ![r] = "none"]
    /\ \A s \in Runners : worker'[s] # "idle" => worker[s] # "idle" /\ s # r
    /\ managed' = managed \ {r}
    /\ Alive => dead'
    /\ SameFlags /\ SameStop
    /\ UNCHANGED <<known, resume, phase, kind, main>>

\* An answer of the probe has one of these effects.
LEMMA HearEffects ==
    ASSUME TypeOK, NEW A \in SUBSET Runners, NoStarts, phase # "stopped",
           \A r \in A : worker[r] # "idle" \/ runner[r] = "up",
           UNCHANGED dead, HearActive(A) \/ HearInactive(A)
    PROVE  HearsSomething
<1>1. SameDead
  BY Zenon DEF SameDead
<1>2. CASE HearActive(A)
  <2>1. WorkersAreUp
    BY <1>2 DEF HearActive, WorkersAreUp, TypeOK
  <2>2. Hears
    BY <1>1, <2>1 DEF Hears
  <2>3. /\ known' = "active" /\ UNCHANGED <<kind, managed, main>> /\ SameStop
        /\ phase' = IF phase = "booting" THEN "up" ELSE phase
    BY <1>2, Zenon DEF HearActive, SameStop, stop
  <2>4. CASE known = "active"
    <3>1. SameFlags /\ UNCHANGED <<runner, resume>>
      BY <1>2, <2>4, Zenon DEF HearActive, SameFlags
    <3>. QED
      BY <2>2, <2>3, <2>4, <3>1, Zenon DEF HearsMigration, HearsSomething, SamePool
  <2>5. CASE known # "active"
    <3>1. grace' /\ quiesced' /\ resume' = "none" /\ Overtake
      BY <1>2, <2>5, Zenon DEF HearActive
    <3>2. runner' = runner
      BY <3>1 DEF Overtake, NoStarts, Starting, TypeOK
    <3>. QED
      BY <2>2, <2>3, <2>5, <3>1, <3>2, Zenon DEF HearsMigration, HearsSomething, SamePool
  <2>. QED
    BY <2>4, <2>5
<1>3. CASE HearInactive(A)
  <2>1. WorkersAreUp
    BY <1>3 DEF HearInactive, Permit, WorkersAreUp, TypeOK
  <2>2. Hears
    BY <1>1, <2>1 DEF Hears
  <2>3. known' = "inactive" /\ UNCHANGED <<managed, main>>
    BY <1>3, Zenon DEF HearInactive
  <2>4. ASSUME NEW k, StartRunner(k)
        PROVE  Starts(k)
    BY <2>3, <2>4 DEF StartRunner, Idle, Starts
  <2>5. CASE known = "unknown"
    <3>1. /\ ~quiesced' /\ phase' = "launching" /\ StartRunner("full")
          /\ (grace' <=> grace) /\ resume' = resume /\ SameStop
      BY <1>3, <2>5 DEF HearInactive, SameStop, stop
    <3>. QED
      BY <2>2, <2>3, <2>4, <2>5, <3>1, Zenon DEF HearsFirst, HearsSomething
  <2>6. CASE known = "active"
    <3>1. /\ ~grace' /\ resume' = "stopping" /\ (quiesced' <=> quiesced)
          /\ UNCHANGED <<phase, runner, kind>> /\ StopForRetry
      BY <1>3, <2>6 DEF HearInactive, LeaseCleared
    <3>2. Stops
      BY <3>1, Zenon DEF StopForRetry, Stops
    <3>. QED
      BY <2>2, <2>3, <2>6, <3>1, <3>2, Zenon DEF HearsEnd, HearsSomething, SamePool
  <2>7. CASE known = "inactive"
    <3>1. ResumeGoesOn /\ SameFlags /\ SameStop /\ phase' = phase
      BY <1>3, <2>7 DEF HearInactive, SameFlags, SameStop, stop
    <3>2. HearsAgain
      BY <2>2, <2>3, <2>7, <3>1, Zenon DEF HearsAgain
    <3>3. CASE resume = "checking"
      <4>1. resume' = "starting" /\ StartRunner("resume")
        BY <3>1, <3>3 DEF ResumeGoesOn
      <4>. QED
        BY <2>4, <3>2, <3>3, <4>1, Zenon DEF ResumeStarts, HearsSomething
    <3>4. CASE resume = "rechecking"
      <4>1. \/ resume' = "finishing" /\ StartRunner("ramp")
            \/ resume' = "none" /\ UNCHANGED <<runner, kind>>
        BY <3>1, <3>4 DEF ResumeGoesOn
      <4>. QED
        BY <2>3, <2>4, <3>2, <3>4, <4>1, Zenon
           DEF ResumeRamps, HearsNoNews, HearsSomething, SamePool
    <3>5. CASE resume \notin {"checking", "rechecking"}
      <4>1. UNCHANGED <<resume, runner, kind>>
        BY <3>1, <3>5 DEF ResumeGoesOn
      <4>. QED
        BY <2>3, <3>2, <3>5, <4>1, Zenon DEF HearsNoNews, HearsSomething, SamePool
    <3>. QED
      BY <3>3, <3>4, <3>5
  <2>. QED
    BY <2>5, <2>6, <2>7 DEF TypeOK
<1>. QED
  BY <1>2, <1>3

\* The end of a stop.
LEMMA StopEffects ==
    ASSUME RunnersStopped
    PROVE  PoolStops
<1>1. \A r \in Runners : worker'[r] # "idle" => worker[r] # "idle" /\ r \notin snapshot
  BY DEF RunnersStopped
<1>2. /\ phase' = phase \/ (phase = "draining" /\ phase' = "stopped")
      /\ \/ resume = "stopping" /\ Alive /\ resume' = "jitter"
         \/ resume = "stopping" /\ ~Alive /\ resume' = "none"
         \/ resume # "stopping" /\ resume' = resume
  <2>1. /\ DrainAnswered
        /\ resume' = CASE resume = "stopping" /\ Alive  -> "jitter"
                       [] resume = "stopping" /\ ~Alive -> "none"
                       [] resume # "stopping"           -> resume
    BY Zenon DEF RunnersStopped
  <2>2. phase' = phase \/ (phase = "draining" /\ phase' = "stopped")
    BY <2>1 DEF DrainAnswered
  <2>. QED
    BY <2>1, <2>2 DEF Alive
<1>. QED
  BY <1>1, <1>2 DEF RunnersStopped, PoolStops, SameFlags, SameDead, view

\* Every step has one of these effects.
LEMMA StepEffects ==
    ASSUME TypeOK, "slow start" \notin Faults, [Next]_vars
    PROVE  \/ Quiet \/ HearsSomething
           \/ /\ phase # "stopped"
              /\ \/ Expires \/ PoolStops \/ Delays \/ Leaves \/ StopIsLost \/ ShutsDown
                 \/ \E r \in Runners : ComesUp(r) \/ FailsToStart(r) \/ Dies(r)
<1>1. CASE Claim \/ Free \/ ReadLease \/ Poll \/ CacheExpires \/ UNCHANGED vars
  <2>1. UNCHANGED <<view, resume, phase, pool, stop, dead, worker>>
    BY <1>1, Zenon DEF Claim, Free, ReadLease, Poll, CacheExpires, vars
  <2>2. WorkersAreUp
    BY <2>1 DEF WorkersAreUp
  <2>. QED
    BY <2>1, <2>2, Zenon DEF Quiet, SamePool, SameFlags, SameStop, SameDead, view, pool, stop
<1>2. ASSUME NEW r \in Runners, Ask(r) \/ Dequeue(r) \/ JobEnds(r)
      PROVE  Quiet
  <2>1. UNCHANGED <<view, resume, phase, pool, stop, dead>>
    BY <1>2, Zenon DEF Ask, Dequeue, JobEnds
  <2>2. WorkersAreUp
    BY <1>2 DEF Ask, CanAsk, Dequeue, JobEnds, TypeOK, WorkersAreUp
  <2>. QED
    BY <2>1, <2>2, Zenon DEF Quiet, SamePool, SameFlags, SameStop, SameDead, view, pool, stop
<1>3. CASE (ProbeAnswers \/ ProbeFails) /\ phase # "stopped"
  <2>1. Asking \in SUBSET Runners /\ \A r \in Asking : worker[r] # "idle"
    BY DEF Asking
  <2>2. /\ NoStarts /\ UNCHANGED dead
        /\ HearActive(Asking) \/ HearInactive(Asking)
    BY <1>3, Zenon DEF ProbeAnswers, ProbeFails, StartsAreQuick, NoStarts
  <2>. QED
    BY HearEffects, <1>3, <2>1, <2>2
<1>4. ASSUME NEW r \in Runners, AskCache(r), phase # "stopped"
      PROVE  HearsSomething
  <2>1. {r} \in SUBSET Runners /\ \A s \in {r} : runner[s] = "up"
    BY <1>4 DEF AskCache, CanAsk
  <2>2. /\ NoStarts /\ UNCHANGED dead
        /\ HearActive({r}) \/ HearInactive({r})
    BY <1>4, Zenon DEF AskCache, StartsAreQuick, NoStarts
  <2>. QED
    BY HearEffects, <1>4, <2>1, <2>2
<1>5. CASE GraceExpires /\ phase # "stopped"
  <2>1. FewerWorkers
    BY <1>5 DEF GraceExpires, CancelWaiters, FewerWorkers
  <2>2. Stops
    BY <1>5, Zenon DEF GraceExpires, StopForRetry, Stops
  <2>. QED
    BY <1>5, <2>1, <2>2 DEF GraceExpires, Expires, SamePool, SameDead, pool
<1>6. CASE RunnersStopped /\ phase # "stopped"
  BY <1>6, StopEffects
<1>7. CASE Delay /\ phase # "stopped"
  <2>1. \/ resume = "jitter" /\ resume' = "checking"
        \/ resume = "ramping" /\ resume' = "rechecking"
    BY <1>7 DEF Delay
  <2>. QED
    BY <1>7, <2>1, Zenon
       DEF Delay, Delays, SamePool, SameFlags, SameStop, SameDead, view, pool, stop
<1>8. CASE (Exit \/ DrainEnds) /\ phase # "stopped"
  BY <1>8, Zenon DEF Exit, DrainEnds, Leaves, SameStop, view, pool, stop
<1>9. CASE StopFails /\ phase # "stopped"
  <2>1. /\ phase' = phase \/ (phase = "draining" /\ phase' = "stopped")
        /\ \/ resume = "stopping" /\ resume' = "none"
           \/ resume # "stopping" /\ resume' = resume
    <3>1. DrainAnswered /\ resume' = IF resume = "stopping" THEN "none" ELSE resume
      BY <1>9, Zenon DEF StopFails
    <3>2. phase' = phase \/ (phase = "draining" /\ phase' = "stopped")
      BY <3>1 DEF DrainAnswered
    <3>. QED
      BY <3>1, <3>2
  <2>. QED
    BY <1>9, <2>1 DEF StopFails, StopIsLost, SamePool, pool
<1>10. CASE Shutdown /\ phase # "stopped"
  <2>1. /\ phase = "up" /\ phase' \in {"stopped", "draining"}
        /\ ~grace' /\ resume' = "none" /\ UNCHANGED <<known, kind, managed>>
    BY <1>10, Zenon DEF Shutdown
  <2>2. FewerWorkers
    BY <1>10 DEF Shutdown, CancelWaiters, FewerWorkers
  <2>3. \/ Overtake
        \/ runner' = [r \in Runners |->
                         CASE r \in managed                                -> "draining"
                           [] runner[r] = "starting" /\ kind[r] # "full" -> "overtaken"
                           [] OTHER                                        -> runner[r]]
    BY <1>10, Zenon DEF Shutdown
  <2>4. \A r \in Runners :
          /\ runner'[r] # "none" => runner[r] # "none" \/ r \in managed
          /\ runner[r] \in {"up", "draining"} => runner'[r] \in {"up", "draining"}
          /\ runner'[r] = "starting" => runner[r] = "starting" /\ kind[r] = "full"
    <3>1. CASE Overtake
      BY <3>1 DEF Overtake, TypeOK, Starting
    <3>2. CASE runner' = [r \in Runners |->
                             CASE r \in managed -> "draining"
                               [] runner[r] = "starting" /\ kind[r] # "full" -> "overtaken"
                               [] OTHER -> runner[r]]
      BY <3>2 DEF TypeOK, Starting
    <3>. QED
      BY <2>3, <3>1, <3>2
  <2>. QED
    BY <1>10, <2>1, <2>2, <2>4, Zenon DEF ShutsDown
<1>11. ASSUME NEW r \in Runners, RunnerUp(r)
       PROVE  ComesUp(r)
  <2>1. \/ runner[r] = "starting" /\ kind[r] = "resume" /\ resume' = "ramping"
        \/ runner[r] = "starting" /\ kind[r] = "ramp" /\ resume' = "none"
        \/ /\ ~(runner[r] = "starting" /\ kind[r] \in {"resume", "ramp"})
           /\ resume' = resume
    BY <1>11 DEF RunnerUp
  <2>2. IF runner[r] = "starting" /\ kind[r] # "ramp"
        THEN ~quiesced' ELSE quiesced' <=> quiesced
    <3>1. CASE runner[r] = "starting" /\ kind[r] # "ramp"
      BY <1>11, <3>1, Zenon DEF RunnerUp
    <3>2. CASE ~(runner[r] = "starting" /\ kind[r] # "ramp")
      <4>1. UNCHANGED quiesced
        BY <1>11, <3>2 DEF RunnerUp
      <4>. QED
        BY <3>2, <4>1, Zenon
    <3>. QED
      BY <3>1, <3>2
  <2>3. (grace' <=> grace) /\ SameStop /\ SameDead /\ UNCHANGED <<known, kind, worker>>
    BY <1>11, Zenon DEF RunnerUp, SameStop, SameDead, stop
  <2>. QED
    BY <1>11, <2>1, <2>2, <2>3, Zenon DEF RunnerUp, ComesUp
<1>12. ASSUME NEW r \in Runners, StartFails(r)
       PROVE  FailsToStart(r)
  <2>1. (grace' <=> grace) /\ SameStop /\ UNCHANGED <<known, kind, managed, main, worker>>
    BY <1>12, Zenon DEF StartFails, SameStop, stop
  <2>2. \/ kind[r] = "full" /\ phase' = "stopped" /\ resume' = resume
        \/ /\ kind[r] # "full" /\ phase' = phase
           /\ dead' /\ ~quiesced'
           /\ resume' = IF runner[r] = "starting" THEN "none" ELSE resume
    BY <1>12, Zenon DEF StartFails
  <2>. QED
    BY <1>12, <2>1, <2>2, Zenon DEF StartFails, FailsToStart
<1>13. ASSUME NEW r \in Runners, RunnerDies(r)
       PROVE  Dies(r)
  <2>1. \A s \in Runners : worker'[s] # "idle" => worker[s] # "idle" /\ s # r
    BY <1>13 DEF RunnerDies, TypeOK
  <2>. QED
    BY <1>13, <2>1, Zenon DEF RunnerDies, Dies, SameFlags, SameStop, view, stop
<1>. QED
  BY <1>1, <1>2, <1>3, <1>4, <1>5, <1>6, <1>7, <1>8, <1>9, <1>10, <1>11, <1>12,
     <1>13 DEF Next, Process

\* A worker is idle while its runner starts, and when the runner is gone.
LEMMA WorkersStep ==
    ASSUME TypeOK, WorkersHaveRunners, RunnersAreKnown,
           "slow start" \notin Faults, [Next]_vars
    PROVE  WorkersHaveRunners'
<1>. DEFINE Kinds == /\ runner \in [Runners -> {"none", "up", "draining", "starting", "overtaken"}]
                    /\ kind \in [Runners -> {"full", "resume", "ramp"}]
                    /\ managed \subseteq Runners /\ snapshot \subseteq Runners
<1>0. Kinds
  BY DEF TypeOK, Starting
<1>. USE <1>0 DEF WorkersHaveRunners, RunnersAreKnown, Works, Alive, Starting,
             SamePool, SameFlags, SameStop, SameDead
<1>1. CASE Quiet
  BY <1>1 DEF Quiet, WorkersAreUp
<1>2. CASE HearsMigration
  BY <1>2 DEF HearsMigration, Hears, WorkersAreUp, NoStarts
<1>3. CASE HearsFirst
  BY <1>3 DEF HearsFirst, Hears, Starts, WorkersAreUp, NoStarts
<1>4. CASE HearsEnd
  BY <1>4 DEF HearsEnd, Hears, Stops, WorkersAreUp, NoStarts
<1>5. CASE HearsNoNews
  BY <1>5 DEF HearsNoNews, HearsAgain, Hears, WorkersAreUp, NoStarts
<1>6. CASE ResumeStarts
  BY <1>6 DEF ResumeStarts, HearsAgain, Hears, Starts, WorkersAreUp, NoStarts
<1>7. CASE ResumeRamps
  BY <1>7 DEF ResumeRamps, HearsAgain, Hears, Starts, WorkersAreUp, NoStarts
<1>8. CASE Expires /\ phase # "stopped"
  BY <1>8 DEF Expires, Stops, FewerWorkers
<1>9. CASE PoolStops /\ phase # "stopped"
  BY <1>9 DEF PoolStops
<1>10. CASE Delays /\ phase # "stopped"
  BY <1>10 DEF Delays
<1>11. CASE Leaves /\ phase # "stopped"
  BY <1>11 DEF Leaves
<1>12. CASE StopIsLost /\ phase # "stopped"
  BY <1>12 DEF StopIsLost
<1>13. CASE ShutsDown /\ phase # "stopped"
  BY <1>13 DEF ShutsDown, FewerWorkers
<1>14. ASSUME NEW r \in Runners, ComesUp(r), phase # "stopped"
      PROVE  WorkersHaveRunners'
  BY <1>14 DEF ComesUp
<1>15. ASSUME NEW r \in Runners, FailsToStart(r), phase # "stopped"
      PROVE  WorkersHaveRunners'
  BY <1>15 DEF FailsToStart
<1>16. ASSUME NEW r \in Runners, Dies(r), phase # "stopped"
      PROVE  WorkersHaveRunners'
  BY <1>16 DEF Dies
<1>. QED
  BY StepEffects, <1>1, <1>2, <1>3, <1>4, <1>5, <1>6, <1>7, <1>8, <1>9, <1>10,
     <1>11, <1>12, <1>13, <1>14, <1>15, <1>16 DEF HearsSomething

\* OneSchedule, runner by runner.
OnePair ==
    \A r, s \in Runners :
        r # s /\ Works(r) /\ Works(s) =>
            \/ kind[r] = "resume" /\ kind[s] = "ramp"
            \/ kind[r] = "ramp" /\ kind[s] = "resume"

\* They say the same of starts that are quick.
LEMMA OnePairIsOneSchedule ==
    ASSUME "slow start" \notin Faults, kind \in [Runners -> {"full", "resume", "ramp"}]
    PROVE  OneSchedule <=> OnePair
  BY DEF OneSchedule, OnePair

\* A start keeps it that finds no runner, or one for which it is the ramp.
LEMMA StartPairs ==
    ASSUME OnePair, NEW k, NEW i \in Runners,
           runner \in [Runners -> {"none", "up", "draining", "starting", "overtaken"}],
           kind \in [Runners -> {"full", "resume", "ramp"}],
           runner[i] = "none",
           runner' = [runner EXCEPT ![i] = "starting"],
           kind' = [kind EXCEPT ![i] = k],
           \A s \in Runners : Works(s) => k = "ramp" /\ kind[s] = "resume"
    PROVE  OnePair'
<1>. SUFFICES ASSUME NEW a \in Runners, NEW b \in Runners, a # b,
                     runner'[a] # "none", runner'[b] # "none"
              PROVE  \/ kind'[a] = "resume" /\ kind'[b] = "ramp"
                     \/ kind'[a] = "ramp" /\ kind'[b] = "resume"
  BY DEF OnePair, Works
<1>1. CASE a = i
  BY <1>1 DEF Works
<1>2. CASE b = i
  BY <1>2 DEF Works
<1>3. CASE a # i /\ b # i
  BY <1>3 DEF Works, OnePair
<1>. QED
  BY <1>1, <1>2, <1>3

\* No runner is lost sight of.
LEMMA RunnersStep ==
    ASSUME TypeOK, KnownOnceBooted, BootingIsEmpty, RunnersAreKnown,
           StopIsComplete, ResumeHasRunners, OnePair,
           "slow start" \notin Faults, [Next]_vars
    PROVE  RunnersAreKnown'
<1>. DEFINE Kinds == /\ runner \in [Runners -> {"none", "up", "draining", "starting", "overtaken"}]
                    /\ kind \in [Runners -> {"full", "resume", "ramp"}]
                    /\ managed \subseteq Runners /\ snapshot \subseteq Runners
<1>0. Kinds
  BY DEF TypeOK, Starting
<1>. USE <1>0 DEF KnownOnceBooted, BootingIsEmpty, RunnersAreKnown,
             StopIsComplete, ResumeHasRunners, OnePair, Works, Alive, Starting,
             SamePool, SameFlags, SameStop, SameDead
<1>1. CASE Quiet
  BY <1>1 DEF Quiet, WorkersAreUp
<1>2. CASE HearsMigration
  BY <1>2 DEF HearsMigration, Hears, WorkersAreUp, NoStarts
<1>3. CASE HearsFirst
  <2>1. PICK i \in Runners : /\ runner[i] = "none"
                             /\ runner' = [runner EXCEPT ![i] = "starting"]
                             /\ kind' = [kind EXCEPT ![i] = "full"]
    BY <1>3 DEF HearsFirst, Hears, Starts, WorkersAreUp, NoStarts
  <2>2. /\ runner'[i] = "starting" /\ kind'[i] = "full"
        /\ \A s \in Runners \ {i} : runner'[s] = runner[s] /\ kind'[s] = kind[s]
    BY <2>1
  <2>3. /\ phase = "booting"
        /\ \A s \in Runners : ~Works(s)
    BY <1>3 DEF HearsFirst, Hears, Starts, WorkersAreUp, NoStarts
  <2>4. /\ known' = "inactive" /\ managed' = managed /\ snapshot' = snapshot
        /\ stopping' <=> stopping
        /\ phase' = "launching" /\ resume' = resume
    BY <1>3, Zenon DEF HearsFirst, Hears, Starts, WorkersAreUp, NoStarts
  <2>. QED
    BY <2>1, <2>2, <2>3, <2>4
<1>4. CASE HearsEnd
  BY <1>4 DEF HearsEnd, Hears, Stops, WorkersAreUp, NoStarts
<1>5. CASE HearsNoNews
  BY <1>5 DEF HearsNoNews, HearsAgain, Hears, WorkersAreUp, NoStarts
<1>6. CASE ResumeStarts
  <2>1. PICK i \in Runners : /\ runner[i] = "none"
                             /\ runner' = [runner EXCEPT ![i] = "starting"]
                             /\ kind' = [kind EXCEPT ![i] = "resume"]
    BY <1>6 DEF ResumeStarts, HearsAgain, Hears, Starts, WorkersAreUp, NoStarts
  <2>2. /\ runner'[i] = "starting" /\ kind'[i] = "resume"
        /\ \A s \in Runners \ {i} : runner'[s] = runner[s] /\ kind'[s] = kind[s]
    BY <2>1
  <2>3. /\ resume = "checking" /\ resume' = "starting" /\ phase # "stopped"
        /\ \A s \in Runners : ~Works(s)
    BY <1>6 DEF ResumeStarts, HearsAgain, Hears, Starts, WorkersAreUp, NoStarts
  <2>4. /\ known' = "inactive" /\ managed' = managed /\ snapshot' = snapshot
        /\ stopping' <=> stopping
        /\ phase' = phase
    BY <1>6, Zenon DEF ResumeStarts, HearsAgain, Hears, Starts, WorkersAreUp, NoStarts
  <2>5. Alive => \A s \in Runners : s \notin managed
    BY <2>3
  <2>6. \A s \in Runners : s = i \/ runner'[s] = "none"
    BY <2>2, <2>3
  <2>. QED
    BY <2>2, <2>3, <2>4, <2>5, <2>6
<1>7. CASE ResumeRamps
  <2>1. PICK i \in Runners : /\ runner[i] = "none"
                             /\ runner' = [runner EXCEPT ![i] = "starting"]
                             /\ kind' = [kind EXCEPT ![i] = "ramp"]
    BY <1>7 DEF ResumeRamps, HearsAgain, Hears, Starts, WorkersAreUp, NoStarts
  <2>2. /\ runner'[i] = "starting" /\ kind'[i] = "ramp"
        /\ \A s \in Runners \ {i} : runner'[s] = runner[s] /\ kind'[s] = kind[s]
    BY <2>1
  <2>3. /\ resume = "rechecking" /\ resume' = "finishing" /\ phase # "stopped"
        /\ \A s \in Runners : Works(s) =>
              runner[s] \notin {"starting", "overtaken"} /\ kind[s] = "resume"
    BY <1>7 DEF ResumeRamps, HearsAgain, Hears, Starts, WorkersAreUp, NoStarts
  <2>4. /\ known' = "inactive" /\ managed' = managed /\ snapshot' = snapshot
        /\ stopping' <=> stopping
        /\ phase' = phase
    BY <1>7, Zenon DEF ResumeRamps, HearsAgain, Hears, Starts, WorkersAreUp, NoStarts
  <2>. QED
    BY <2>1, <2>2, <2>3, <2>4
<1>8. CASE Expires /\ phase # "stopped"
  BY <1>8 DEF Expires, Stops, FewerWorkers
<1>9. CASE PoolStops /\ phase # "stopped"
  BY <1>9 DEF PoolStops
<1>10. CASE Delays /\ phase # "stopped"
  BY <1>10 DEF Delays
<1>11. CASE Leaves /\ phase # "stopped"
  BY <1>11 DEF Leaves
<1>12. CASE StopIsLost /\ phase # "stopped"
  BY <1>12 DEF StopIsLost
<1>13. CASE ShutsDown /\ phase # "stopped"
  BY <1>13 DEF ShutsDown, FewerWorkers
<1>14. ASSUME NEW r \in Runners, ComesUp(r), phase # "stopped"
      PROVE  RunnersAreKnown'
  BY <1>14 DEF ComesUp
<1>15. ASSUME NEW r \in Runners, FailsToStart(r), phase # "stopped"
      PROVE  RunnersAreKnown'
  BY <1>15 DEF FailsToStart
<1>16. ASSUME NEW r \in Runners, Dies(r), phase # "stopped"
      PROVE  RunnersAreKnown'
  BY <1>16 DEF Dies
<1>. QED
  BY StepEffects, <1>1, <1>2, <1>3, <1>4, <1>5, <1>6, <1>7, <1>8, <1>9, <1>10,
     <1>11, <1>12, <1>13, <1>14, <1>15, <1>16 DEF HearsSomething

\* No start is awaited once stop() was called.
LEMMA AwaitedStep ==
    ASSUME TypeOK, RunnersAreKnown, NoneAwaited, ResumeHasRunners,
           KnownOnceBooted, "slow start" \notin Faults, [Next]_vars
    PROVE  NoneAwaited'
<1>. DEFINE Kinds == /\ runner \in [Runners -> {"none", "up", "draining", "starting", "overtaken"}]
                    /\ kind \in [Runners -> {"full", "resume", "ramp"}]
                    /\ managed \subseteq Runners /\ snapshot \subseteq Runners
<1>0. Kinds
  BY DEF TypeOK, Starting
<1>. USE <1>0 DEF RunnersAreKnown, NoneAwaited, ResumeHasRunners,
             KnownOnceBooted, Works, Alive, Starting, SamePool, SameFlags,
             SameStop, SameDead
<1>1. CASE Quiet
  BY <1>1 DEF Quiet, WorkersAreUp
<1>2. CASE HearsMigration
  BY <1>2 DEF HearsMigration, Hears, WorkersAreUp, NoStarts
<1>3. CASE HearsFirst
  BY <1>3 DEF HearsFirst, Hears, Starts, WorkersAreUp, NoStarts
<1>4. CASE HearsEnd
  BY <1>4 DEF HearsEnd, Hears, Stops, WorkersAreUp, NoStarts
<1>5. CASE HearsNoNews
  BY <1>5 DEF HearsNoNews, HearsAgain, Hears, WorkersAreUp, NoStarts
<1>6. CASE ResumeStarts
  BY <1>6 DEF ResumeStarts, HearsAgain, Hears, Starts, WorkersAreUp, NoStarts
<1>7. CASE ResumeRamps
  BY <1>7 DEF ResumeRamps, HearsAgain, Hears, Starts, WorkersAreUp, NoStarts
<1>8. CASE Expires /\ phase # "stopped"
  BY <1>8 DEF Expires, Stops, FewerWorkers
<1>9. CASE PoolStops /\ phase # "stopped"
  BY <1>9 DEF PoolStops
<1>10. CASE Delays /\ phase # "stopped"
  BY <1>10 DEF Delays
<1>11. CASE Leaves /\ phase # "stopped"
  BY <1>11 DEF Leaves
<1>12. CASE StopIsLost /\ phase # "stopped"
  BY <1>12 DEF StopIsLost
<1>13. CASE ShutsDown /\ phase # "stopped"
  BY <1>13 DEF ShutsDown, FewerWorkers
<1>14. ASSUME NEW r \in Runners, ComesUp(r), phase # "stopped"
      PROVE  NoneAwaited'
  BY <1>14 DEF ComesUp
<1>15. ASSUME NEW r \in Runners, FailsToStart(r), phase # "stopped"
      PROVE  NoneAwaited'
  BY <1>15 DEF FailsToStart
<1>16. ASSUME NEW r \in Runners, Dies(r), phase # "stopped"
      PROVE  NoneAwaited'
  BY <1>16 DEF Dies
<1>. QED
  BY StepEffects, <1>1, <1>2, <1>3, <1>4, <1>5, <1>6, <1>7, <1>8, <1>9, <1>10,
     <1>11, <1>12, <1>13, <1>14, <1>15, <1>16 DEF HearsSomething

\* A stop covers every runner there is.
LEMMA StopStep ==
    ASSUME TypeOK, KnownOnceBooted, BootingIsEmpty, RunnersAreKnown,
           StopIsComplete, ResumeHasRunners, "slow start" \notin Faults,
           [Next]_vars
    PROVE  StopIsComplete'
<1>. DEFINE Kinds == /\ runner \in [Runners -> {"none", "up", "draining", "starting", "overtaken"}]
                    /\ kind \in [Runners -> {"full", "resume", "ramp"}]
                    /\ managed \subseteq Runners /\ snapshot \subseteq Runners
<1>0. Kinds
  BY DEF TypeOK, Starting
<1>. USE <1>0 DEF KnownOnceBooted, BootingIsEmpty, RunnersAreKnown,
             StopIsComplete, ResumeHasRunners, Works, Alive, Starting,
             SamePool, SameFlags, SameStop, SameDead
<1>1. CASE Quiet
  BY <1>1 DEF Quiet, WorkersAreUp
<1>2. CASE HearsMigration
  BY <1>2 DEF HearsMigration, Hears, WorkersAreUp, NoStarts
<1>3. CASE HearsFirst
  BY <1>3 DEF HearsFirst, Hears, Starts, WorkersAreUp, NoStarts
<1>4. CASE HearsEnd
  BY <1>4 DEF HearsEnd, Hears, Stops, WorkersAreUp, NoStarts
<1>5. CASE HearsNoNews
  BY <1>5 DEF HearsNoNews, HearsAgain, Hears, WorkersAreUp, NoStarts
<1>6. CASE ResumeStarts
  BY <1>6 DEF ResumeStarts, HearsAgain, Hears, Starts, WorkersAreUp, NoStarts
<1>7. CASE ResumeRamps
  BY <1>7 DEF ResumeRamps, HearsAgain, Hears, Starts, WorkersAreUp, NoStarts
<1>8. CASE Expires /\ phase # "stopped"
  BY <1>8 DEF Expires, Stops, FewerWorkers
<1>9. CASE PoolStops /\ phase # "stopped"
  BY <1>9 DEF PoolStops
<1>10. CASE Delays /\ phase # "stopped"
  BY <1>10 DEF Delays
<1>11. CASE Leaves /\ phase # "stopped"
  BY <1>11 DEF Leaves
<1>12. CASE StopIsLost /\ phase # "stopped"
  BY <1>12 DEF StopIsLost
<1>13. CASE ShutsDown /\ phase # "stopped"
  BY <1>13 DEF ShutsDown, FewerWorkers
<1>14. ASSUME NEW r \in Runners, ComesUp(r), phase # "stopped"
      PROVE  StopIsComplete'
  BY <1>14 DEF ComesUp
<1>15. ASSUME NEW r \in Runners, FailsToStart(r), phase # "stopped"
      PROVE  StopIsComplete'
  BY <1>15 DEF FailsToStart
<1>16. ASSUME NEW r \in Runners, Dies(r), phase # "stopped"
      PROVE  StopIsComplete'
  BY <1>16 DEF Dies
<1>. QED
  BY StepEffects, <1>1, <1>2, <1>3, <1>4, <1>5, <1>6, <1>7, <1>8, <1>9, <1>10,
     <1>11, <1>12, <1>13, <1>14, <1>15, <1>16 DEF HearsSomething

\* Nothing happens before the probe has answered.
LEMMA BootStep ==
    ASSUME TypeOK, KnownOnceBooted, BootingIsEmpty, RunnersAreKnown,
           ResumeHasRunners, "slow start" \notin Faults, [Next]_vars
    PROVE  BootingIsEmpty' /\ KnownOnceBooted'
<1>. DEFINE Kinds == /\ runner \in [Runners -> {"none", "up", "draining", "starting", "overtaken"}]
                    /\ kind \in [Runners -> {"full", "resume", "ramp"}]
                    /\ managed \subseteq Runners /\ snapshot \subseteq Runners
<1>0. Kinds
  BY DEF TypeOK, Starting
<1>. USE <1>0 DEF KnownOnceBooted, BootingIsEmpty, RunnersAreKnown,
             ResumeHasRunners, Works, Alive, Starting, SamePool, SameFlags,
             SameStop, SameDead
<1>1. CASE Quiet
  BY <1>1 DEF Quiet, WorkersAreUp
<1>2. CASE HearsMigration
  BY <1>2 DEF HearsMigration, Hears, WorkersAreUp, NoStarts
<1>3. CASE HearsFirst
  BY <1>3 DEF HearsFirst, Hears, Starts, WorkersAreUp, NoStarts
<1>4. CASE HearsEnd
  BY <1>4 DEF HearsEnd, Hears, Stops, WorkersAreUp, NoStarts
<1>5. CASE HearsNoNews
  BY <1>5 DEF HearsNoNews, HearsAgain, Hears, WorkersAreUp, NoStarts
<1>6. CASE ResumeStarts
  BY <1>6 DEF ResumeStarts, HearsAgain, Hears, Starts, WorkersAreUp, NoStarts
<1>7. CASE ResumeRamps
  BY <1>7 DEF ResumeRamps, HearsAgain, Hears, Starts, WorkersAreUp, NoStarts
<1>8. CASE Expires /\ phase # "stopped"
  BY <1>8 DEF Expires, Stops, FewerWorkers
<1>9. CASE PoolStops /\ phase # "stopped"
  BY <1>9 DEF PoolStops
<1>10. CASE Delays /\ phase # "stopped"
  BY <1>10 DEF Delays
<1>11. CASE Leaves /\ phase # "stopped"
  BY <1>11 DEF Leaves
<1>12. CASE StopIsLost /\ phase # "stopped"
  BY <1>12 DEF StopIsLost
<1>13. CASE ShutsDown /\ phase # "stopped"
  BY <1>13 DEF ShutsDown, FewerWorkers
<1>14. ASSUME NEW r \in Runners, ComesUp(r), phase # "stopped"
      PROVE  BootingIsEmpty' /\ KnownOnceBooted'
  BY <1>14 DEF ComesUp
<1>15. ASSUME NEW r \in Runners, FailsToStart(r), phase # "stopped"
      PROVE  BootingIsEmpty' /\ KnownOnceBooted'
  BY <1>15 DEF FailsToStart
<1>16. ASSUME NEW r \in Runners, Dies(r), phase # "stopped"
      PROVE  BootingIsEmpty' /\ KnownOnceBooted'
  BY <1>16 DEF Dies
<1>. QED
  BY StepEffects, <1>1, <1>2, <1>3, <1>4, <1>5, <1>6, <1>7, <1>8, <1>9, <1>10,
     <1>11, <1>12, <1>13, <1>14, <1>15, <1>16 DEF HearsSomething

\* A resume starts its runners when no others are left.
LEMMA ResumeStep ==
    ASSUME TypeOK, KnownOnceBooted, BootingIsEmpty, RunnersAreKnown,
           NoneAwaited, StopIsComplete, ResumeHasRunners,
           "slow start" \notin Faults, [Next]_vars
    PROVE  ResumeHasRunners'
<1>. DEFINE Kinds == /\ runner \in [Runners -> {"none", "up", "draining", "starting", "overtaken"}]
                    /\ kind \in [Runners -> {"full", "resume", "ramp"}]
                    /\ managed \subseteq Runners /\ snapshot \subseteq Runners
<1>0. Kinds
  BY DEF TypeOK, Starting
<1>. USE <1>0 DEF KnownOnceBooted, BootingIsEmpty, RunnersAreKnown,
             NoneAwaited, StopIsComplete, ResumeHasRunners, Works, Alive,
             Starting, SamePool, SameFlags, SameStop, SameDead
<1>1. CASE Quiet
  BY <1>1 DEF Quiet, WorkersAreUp
<1>2. CASE HearsMigration
  BY <1>2 DEF HearsMigration, Hears, WorkersAreUp, NoStarts
<1>3. CASE HearsFirst
  <2>1. PICK i \in Runners : /\ runner[i] = "none"
                             /\ runner' = [runner EXCEPT ![i] = "starting"]
                             /\ kind' = [kind EXCEPT ![i] = "full"]
    BY <1>3 DEF HearsFirst, Hears, Starts, WorkersAreUp, NoStarts
  <2>2. /\ runner'[i] = "starting" /\ kind'[i] = "full"
        /\ \A s \in Runners \ {i} : runner'[s] = runner[s] /\ kind'[s] = kind[s]
    BY <2>1
  <2>3. /\ phase = "booting"
        /\ \A s \in Runners : ~Works(s)
    BY <1>3 DEF HearsFirst, Hears, Starts, WorkersAreUp, NoStarts
  <2>4. /\ known' = "inactive" /\ managed' = managed /\ snapshot' = snapshot
        /\ stopping' <=> stopping
        /\ phase' = "launching" /\ resume' = resume
    BY <1>3, Zenon DEF HearsFirst, Hears, Starts, WorkersAreUp, NoStarts
  <2>. QED
    BY <2>1, <2>2, <2>3, <2>4
<1>4. CASE HearsEnd
  BY <1>4 DEF HearsEnd, Hears, Stops, WorkersAreUp, NoStarts
<1>5. CASE HearsNoNews
  BY <1>5 DEF HearsNoNews, HearsAgain, Hears, WorkersAreUp, NoStarts
<1>6. CASE ResumeStarts
  <2>1. PICK i \in Runners : /\ runner[i] = "none"
                             /\ runner' = [runner EXCEPT ![i] = "starting"]
                             /\ kind' = [kind EXCEPT ![i] = "resume"]
    BY <1>6 DEF ResumeStarts, HearsAgain, Hears, Starts, WorkersAreUp, NoStarts
  <2>2. /\ runner'[i] = "starting" /\ kind'[i] = "resume"
        /\ \A s \in Runners \ {i} : runner'[s] = runner[s] /\ kind'[s] = kind[s]
    BY <2>1
  <2>3. /\ resume = "checking" /\ resume' = "starting" /\ phase # "stopped"
        /\ \A s \in Runners : ~Works(s)
    BY <1>6 DEF ResumeStarts, HearsAgain, Hears, Starts, WorkersAreUp, NoStarts
  <2>5. phase \in {"launching", "up"} /\ ~stopping
    BY <1>6, <2>3 DEF ResumeStarts, HearsAgain, Hears, Starts, WorkersAreUp, NoStarts, TypeOK
  <2>4. /\ known' = "inactive" /\ managed' = managed /\ snapshot' = snapshot
        /\ stopping' <=> stopping
        /\ phase' = phase
    BY <1>6, Zenon DEF ResumeStarts, HearsAgain, Hears, Starts, WorkersAreUp, NoStarts
  <2>. QED
    BY <2>1, <2>2, <2>3, <2>4, <2>5
<1>7. CASE ResumeRamps
  <2>1. PICK i \in Runners : /\ runner[i] = "none"
                             /\ runner' = [runner EXCEPT ![i] = "starting"]
                             /\ kind' = [kind EXCEPT ![i] = "ramp"]
    BY <1>7 DEF ResumeRamps, HearsAgain, Hears, Starts, WorkersAreUp, NoStarts
  <2>2. /\ runner'[i] = "starting" /\ kind'[i] = "ramp"
        /\ \A s \in Runners \ {i} : runner'[s] = runner[s] /\ kind'[s] = kind[s]
    BY <2>1
  <2>3. /\ resume = "rechecking" /\ resume' = "finishing" /\ phase # "stopped"
        /\ \A s \in Runners : Works(s) =>
              runner[s] \notin {"starting", "overtaken"} /\ kind[s] = "resume"
    BY <1>7 DEF ResumeRamps, HearsAgain, Hears, Starts, WorkersAreUp, NoStarts
  <2>4. /\ known' = "inactive" /\ managed' = managed /\ snapshot' = snapshot
        /\ stopping' <=> stopping
        /\ phase' = phase
    BY <1>7, Zenon DEF ResumeRamps, HearsAgain, Hears, Starts, WorkersAreUp, NoStarts
  <2>. QED
    BY <2>1, <2>2, <2>3, <2>4
<1>8. CASE Expires /\ phase # "stopped"
  BY <1>8 DEF Expires, Stops, FewerWorkers
<1>9. CASE PoolStops /\ phase # "stopped"
  BY <1>9 DEF PoolStops
<1>10. CASE Delays /\ phase # "stopped"
  BY <1>10 DEF Delays
<1>11. CASE Leaves /\ phase # "stopped"
  BY <1>11 DEF Leaves
<1>12. CASE StopIsLost /\ phase # "stopped"
  BY <1>12 DEF StopIsLost
<1>13. CASE ShutsDown /\ phase # "stopped"
  BY <1>13 DEF ShutsDown, FewerWorkers
<1>14. ASSUME NEW r \in Runners, ComesUp(r), phase # "stopped"
      PROVE  ResumeHasRunners'
  <2>1. CASE runner[r] = "overtaken"
    <3>1. phase = "draining" /\ resume' = resume /\ phase' = phase
      BY <1>14, <2>1 DEF ComesUp, TypeOK
    <3>. QED
      BY <1>14, <2>1, <3>1 DEF ComesUp
  <2>2. CASE runner[r] = "starting" /\ kind[r] = "full"
    <3>1. phase = "launching" /\ resume = "none" /\ resume' = "none"
      BY <1>14, <2>2 DEF ComesUp, TypeOK
    <3>. QED
      BY <1>14, <2>2, <3>1 DEF ComesUp
  <2>3. CASE runner[r] = "starting" /\ kind[r] = "resume"
    <3>1. /\ phase' = phase /\ phase # "draining"
          /\ resume = "starting" /\ resume' = "ramping"
      BY <1>14, <2>3 DEF ComesUp, TypeOK
    <3>2. \A s \in Runners : runner'[s] # "none" => runner[s] # "none"
      BY <1>14 DEF ComesUp
    <3>. QED
      BY <1>14, <3>1, <3>2 DEF ComesUp
  <2>4. CASE runner[r] = "starting" /\ kind[r] = "ramp"
    BY <1>14, <2>4 DEF ComesUp
  <2>. QED
    BY <1>14, <2>1, <2>2, <2>3, <2>4 DEF ComesUp
<1>15. ASSUME NEW r \in Runners, FailsToStart(r), phase # "stopped"
      PROVE  ResumeHasRunners'
  BY <1>15 DEF FailsToStart
<1>16. ASSUME NEW r \in Runners, Dies(r), phase # "stopped"
      PROVE  ResumeHasRunners'
  BY <1>16 DEF Dies
<1>. QED
  BY StepEffects, <1>1, <1>2, <1>3, <1>4, <1>5, <1>6, <1>7, <1>8, <1>9, <1>10,
     <1>11, <1>12, <1>13, <1>14, <1>15, <1>16 DEF HearsSomething

\* Next to a runner of a resume there is at most the one of its ramp.
LEMMA PairStep ==
    ASSUME TypeOK, KnownOnceBooted, BootingIsEmpty, RunnersAreKnown,
           ResumeHasRunners, OnePair, "slow start" \notin Faults, [Next]_vars
    PROVE  OnePair'
<1>. DEFINE Kinds == /\ runner \in [Runners -> {"none", "up", "draining", "starting", "overtaken"}]
                    /\ kind \in [Runners -> {"full", "resume", "ramp"}]
                    /\ managed \subseteq Runners /\ snapshot \subseteq Runners
<1>0. Kinds
  BY DEF TypeOK, Starting
<1>. USE <1>0 DEF KnownOnceBooted, BootingIsEmpty, RunnersAreKnown,
             ResumeHasRunners, OnePair, Works, Alive, Starting, SamePool,
             SameFlags, SameStop, SameDead
<1>1. CASE Quiet
  BY <1>1 DEF Quiet, WorkersAreUp
<1>2. CASE HearsMigration
  BY <1>2 DEF HearsMigration, Hears, WorkersAreUp, NoStarts
<1>3. CASE HearsFirst
  <2>1. PICK i \in Runners : /\ runner[i] = "none"
                             /\ runner' = [runner EXCEPT ![i] = "starting"]
                             /\ kind' = [kind EXCEPT ![i] = "full"]
    BY <1>3 DEF HearsFirst, Hears, Starts, WorkersAreUp, NoStarts
  <2>2. /\ phase = "booting"
        /\ \A s \in Runners : ~Works(s)
    BY <1>3 DEF HearsFirst, Hears, Starts, WorkersAreUp, NoStarts
  <2>3. \A s \in Runners : Works(s) => "full" = "ramp" /\ kind[s] = "resume"
    BY <2>2
  <2>. QED
    BY <2>1, <2>3, StartPairs, Zenon
<1>4. CASE HearsEnd
  BY <1>4 DEF HearsEnd, Hears, Stops, WorkersAreUp, NoStarts
<1>5. CASE HearsNoNews
  BY <1>5 DEF HearsNoNews, HearsAgain, Hears, WorkersAreUp, NoStarts
<1>6. CASE ResumeStarts
  <2>1. PICK i \in Runners : /\ runner[i] = "none"
                             /\ runner' = [runner EXCEPT ![i] = "starting"]
                             /\ kind' = [kind EXCEPT ![i] = "resume"]
    BY <1>6 DEF ResumeStarts, HearsAgain, Hears, Starts, WorkersAreUp, NoStarts
  <2>2. /\ resume = "checking" /\ resume' = "starting" /\ phase # "stopped"
        /\ \A s \in Runners : ~Works(s)
    BY <1>6 DEF ResumeStarts, HearsAgain, Hears, Starts, WorkersAreUp, NoStarts
  <2>3. \A s \in Runners : Works(s) => "resume" = "ramp" /\ kind[s] = "resume"
    BY <2>2
  <2>. QED
    BY <2>1, <2>3, StartPairs, Zenon
<1>7. CASE ResumeRamps
  <2>1. PICK i \in Runners : /\ runner[i] = "none"
                             /\ runner' = [runner EXCEPT ![i] = "starting"]
                             /\ kind' = [kind EXCEPT ![i] = "ramp"]
    BY <1>7 DEF ResumeRamps, HearsAgain, Hears, Starts, WorkersAreUp, NoStarts
  <2>2. /\ resume = "rechecking" /\ resume' = "finishing" /\ phase # "stopped"
        /\ \A s \in Runners : Works(s) =>
              runner[s] \notin {"starting", "overtaken"} /\ kind[s] = "resume"
    BY <1>7 DEF ResumeRamps, HearsAgain, Hears, Starts, WorkersAreUp, NoStarts
  <2>3. \A s \in Runners : Works(s) => "ramp" = "ramp" /\ kind[s] = "resume"
    BY <2>2
  <2>. QED
    BY <2>1, <2>3, StartPairs, Zenon
<1>8. CASE Expires /\ phase # "stopped"
  BY <1>8 DEF Expires, Stops, FewerWorkers
<1>9. CASE PoolStops /\ phase # "stopped"
  BY <1>9 DEF PoolStops
<1>10. CASE Delays /\ phase # "stopped"
  BY <1>10 DEF Delays
<1>11. CASE Leaves /\ phase # "stopped"
  BY <1>11 DEF Leaves
<1>12. CASE StopIsLost /\ phase # "stopped"
  BY <1>12 DEF StopIsLost
<1>13. CASE ShutsDown /\ phase # "stopped"
  <2>1. phase = "up" /\ kind' = kind
    BY <1>13, Zenon DEF ShutsDown
  <2>2. \A s \in Runners : s \in managed => runner[s] = "up"
    BY <2>1
  <2>3. \A s \in Runners : runner'[s] # "none" => runner[s] # "none"
    BY <1>13, <2>2 DEF ShutsDown
  <2>. QED
    BY <2>1, <2>3
<1>14. ASSUME NEW r \in Runners, ComesUp(r), phase # "stopped"
      PROVE  OnePair'
  BY <1>14 DEF ComesUp
<1>15. ASSUME NEW r \in Runners, FailsToStart(r), phase # "stopped"
      PROVE  OnePair'
  BY <1>15 DEF FailsToStart
<1>16. ASSUME NEW r \in Runners, Dies(r), phase # "stopped"
      PROVE  OnePair'
  <2>1. \A s \in Runners : runner'[s] # "none" => runner[s] # "none"
    BY <1>16 DEF Dies
  <2>2. kind' = kind
    BY <1>16 DEF Dies
  <2>. QED
    BY <2>1, <2>2 DEF OnePair
<1>. QED
  BY StepEffects, <1>1, <1>2, <1>3, <1>4, <1>5, <1>6, <1>7, <1>8, <1>9, <1>10,
     <1>11, <1>12, <1>13, <1>14, <1>15, <1>16 DEF HearsSomething

\* The worker is quiesced until a resume has its first runner.
LEMMA QuiescedStep ==
    ASSUME TypeOK, KnownOnceBooted, BootingIsEmpty, RunnersAreKnown,
           StopIsComplete, ResumeHasRunners, QuiescedUntilResumed,
           "slow start" \notin Faults, [Next]_vars
    PROVE  QuiescedUntilResumed'
<1>. DEFINE Kinds == /\ runner \in [Runners -> {"none", "up", "draining", "starting", "overtaken"}]
                    /\ kind \in [Runners -> {"full", "resume", "ramp"}]
                    /\ managed \subseteq Runners /\ snapshot \subseteq Runners
<1>0. Kinds
  BY DEF TypeOK, Starting
<1>. USE <1>0 DEF KnownOnceBooted, BootingIsEmpty, RunnersAreKnown,
             StopIsComplete, ResumeHasRunners, QuiescedUntilResumed, Works,
             Alive, Starting, SamePool, SameFlags, SameStop, SameDead
<1>1. CASE Quiet
  BY <1>1 DEF Quiet, WorkersAreUp
<1>2. CASE HearsMigration
  <2>1. CASE known = "active"
    BY <1>2, <2>1 DEF HearsMigration, Hears, WorkersAreUp, NoStarts
  <2>2. CASE known # "active"
    BY <1>2, <2>2 DEF HearsMigration, Hears, WorkersAreUp, NoStarts
  <2>. QED
    BY <2>1, <2>2
<1>3. CASE HearsFirst
  BY <1>3 DEF HearsFirst, Hears, Starts, WorkersAreUp, NoStarts
<1>4. CASE HearsEnd
  BY <1>4 DEF HearsEnd, Hears, Stops, WorkersAreUp, NoStarts
<1>5. CASE HearsNoNews
  BY <1>5 DEF HearsNoNews, HearsAgain, Hears, WorkersAreUp, NoStarts
<1>6. CASE ResumeStarts
  BY <1>6 DEF ResumeStarts, HearsAgain, Hears, Starts, WorkersAreUp, NoStarts
<1>7. CASE ResumeRamps
  BY <1>7 DEF ResumeRamps, HearsAgain, Hears, Starts, WorkersAreUp, NoStarts
<1>8. CASE Expires /\ phase # "stopped"
  BY <1>8 DEF Expires, Stops, FewerWorkers
<1>9. CASE PoolStops /\ phase # "stopped"
  BY <1>9 DEF PoolStops
<1>10. CASE Delays /\ phase # "stopped"
  BY <1>10 DEF Delays
<1>11. CASE Leaves /\ phase # "stopped"
  BY <1>11 DEF Leaves
<1>12. CASE StopIsLost /\ phase # "stopped"
  BY <1>12 DEF StopIsLost
<1>13. CASE ShutsDown /\ phase # "stopped"
  BY <1>13 DEF ShutsDown, FewerWorkers
<1>14. ASSUME NEW r \in Runners, ComesUp(r), phase # "stopped"
      PROVE  QuiescedUntilResumed'
  BY <1>14 DEF ComesUp
<1>15. ASSUME NEW r \in Runners, FailsToStart(r), phase # "stopped"
      PROVE  QuiescedUntilResumed'
  BY <1>15 DEF FailsToStart
<1>16. ASSUME NEW r \in Runners, Dies(r), phase # "stopped"
      PROVE  QuiescedUntilResumed'
  BY <1>16 DEF Dies
<1>. QED
  BY StepEffects, <1>1, <1>2, <1>3, <1>4, <1>5, <1>6, <1>7, <1>8, <1>9, <1>10,
     <1>11, <1>12, <1>13, <1>14, <1>15, <1>16 DEF HearsSomething

\* A worker that is not quiesced has its main runner.
LEMMA HealthStep ==
    ASSUME TypeOK, KnownOnceBooted, BootingIsEmpty, RunnersAreKnown,
           ResumeHasRunners, StopIsComplete, QuiescedUntilResumed,
           NeverUnhealthy, "slow start" \notin Faults, [Next]_vars
    PROVE  NeverUnhealthy'
<1>. DEFINE Kinds == /\ runner \in [Runners -> {"none", "up", "draining", "starting", "overtaken"}]
                    /\ kind \in [Runners -> {"full", "resume", "ramp"}]
                    /\ managed \subseteq Runners /\ snapshot \subseteq Runners
<1>0. Kinds
  BY DEF TypeOK, Starting
<1>. USE <1>0 DEF KnownOnceBooted, BootingIsEmpty, RunnersAreKnown,
             ResumeHasRunners, StopIsComplete, QuiescedUntilResumed,
             NeverUnhealthy, Works, Alive, Starting, SamePool, SameFlags,
             SameStop, SameDead
<1>1. CASE Quiet
  BY <1>1 DEF Quiet, WorkersAreUp
<1>2. CASE HearsMigration
  <2>1. CASE known = "active"
    BY <1>2, <2>1 DEF HearsMigration, Hears, WorkersAreUp, NoStarts
  <2>2. CASE known # "active"
    BY <1>2, <2>2 DEF HearsMigration, Hears, WorkersAreUp, NoStarts
  <2>. QED
    BY <2>1, <2>2
<1>3. CASE HearsFirst
  BY <1>3 DEF HearsFirst, Hears, Starts, WorkersAreUp, NoStarts
<1>4. CASE HearsEnd
  BY <1>4 DEF HearsEnd, Hears, Stops, WorkersAreUp, NoStarts
<1>5. CASE HearsNoNews
  BY <1>5 DEF HearsNoNews, HearsAgain, Hears, WorkersAreUp, NoStarts
<1>6. CASE ResumeStarts
  BY <1>6 DEF ResumeStarts, HearsAgain, Hears, Starts, WorkersAreUp, NoStarts
<1>7. CASE ResumeRamps
  BY <1>7 DEF ResumeRamps, HearsAgain, Hears, Starts, WorkersAreUp, NoStarts
<1>8. CASE Expires /\ phase # "stopped"
  BY <1>8 DEF Expires, Stops, FewerWorkers
<1>9. CASE PoolStops /\ phase # "stopped"
  BY <1>9 DEF PoolStops
<1>10. CASE Delays /\ phase # "stopped"
  BY <1>10 DEF Delays
<1>11. CASE Leaves /\ phase # "stopped"
  BY <1>11 DEF Leaves
<1>12. CASE StopIsLost /\ phase # "stopped"
  BY <1>12 DEF StopIsLost
<1>13. CASE ShutsDown /\ phase # "stopped"
  BY <1>13 DEF ShutsDown, FewerWorkers
<1>14. ASSUME NEW r \in Runners, ComesUp(r), phase # "stopped"
      PROVE  NeverUnhealthy'
  BY <1>14 DEF ComesUp
<1>15. ASSUME NEW r \in Runners, FailsToStart(r), phase # "stopped"
      PROVE  NeverUnhealthy'
  BY <1>15 DEF FailsToStart
<1>16. ASSUME NEW r \in Runners, Dies(r), phase # "stopped"
      PROVE  NeverUnhealthy'
  BY <1>16 DEF Dies
<1>. QED
  BY StepEffects, <1>1, <1>2, <1>3, <1>4, <1>5, <1>6, <1>7, <1>8, <1>9, <1>10,
     <1>11, <1>12, <1>13, <1>14, <1>15, <1>16 DEF HearsSomething

\* The types of the start.
LEMMA InitTypes == Init => TypeOK
<1>. SUFFICES ASSUME Init PROVE TypeOK
  OBVIOUS
<1>1. lease \in BOOLEAN /\ grace \in BOOLEAN /\ quiesced \in BOOLEAN
  BY Zenon DEF Init
<1>2. stopping \in BOOLEAN /\ dead \in BOOLEAN
  BY Zenon DEF Init
<1>3. claims \in 0 .. MaxClaims /\ failures \in 0 .. MaxFailures
  BY QuiesceAssumption DEF QuiesceAssumption, Init
<1>4. /\ known = "unknown" /\ probe = "asked" /\ cached = "none" /\ resume = "none"
      /\ phase = "booting" /\ managed = {} /\ main = NoRunner /\ snapshot = {}
  BY Zenon DEF Init
<1>5. /\ runner \in [Runners -> {"none", "up", "draining"} \cup Starting]
      /\ kind \in [Runners -> {"full", "resume", "ramp"}]
      /\ worker \in [Runners -> {"idle", "asking", "waiting", "permitted", "busy"}]
  BY DEF Init
<1>. QED
  BY <1>1, <1>2, <1>3, <1>4, <1>5 DEF TypeOK, Resuming

(***************************************************************************)
(* Nobody is forgotten, however slow a start is.                           *)
(***************************************************************************)

\* A step tells whoever waits.
LEMMA ForgottenStep ==
    ASSUME ForgottenInv, [Next]_vars
    PROVE  ForgottenInv'
<1>. USE DEF ForgottenInv
<1>. DEFINE Told == /\ KnownOnceBooted
                    /\ known = "unknown" => \A r \in Runners : worker[r] # "waiting"
                    /\ NobodyForgotten
<1>0. TypeOK'
  BY TypeStep
<1>1. ASSUME NEW A \in SUBSET Runners, HearActive(A)
      PROVE  Told'
  <2>1. known' = "active"
    BY <1>1 DEF HearActive
  <2>. QED
    BY <2>1 DEF KnownOnceBooted, NobodyForgotten
<1>2. ASSUME NEW A \in SUBSET Runners, HearInactive(A), phase # "stopped"
      PROVE  Told'
  <2>1. known' = "inactive"
    BY <1>2 DEF HearInactive
  <2>2. \A r \in Runners : worker'[r] = "waiting" => worker[r] = "waiting" /\ known # "active"
    BY <1>2 DEF HearInactive, Permit, TypeOK
  <2>3. known = "inactive" => phase' = phase
    BY <1>2 DEF HearInactive
  <2>. QED
    BY <2>1, <2>2, <2>3 DEF KnownOnceBooted, NobodyForgotten, Alive, TypeOK
<1>3. ASSUME \A r \in Runners : worker'[r] = "waiting" => worker[r] = "waiting",
             known' = known,
             \/ phase' = phase
             \/ phase' = "stopped"
             \/ phase = "launching" /\ phase' = "up"
             \/ phase = "up" /\ phase' = "draining"
      PROVE  Told'
  BY <1>3 DEF KnownOnceBooted, NobodyForgotten, Alive
<1>. HIDE DEF Told
<1>4. ASSUME Claim \/ Free \/ ReadLease \/ Poll \/ CacheExpires \/ Delay \/ UNCHANGED vars
      PROVE  Told'
  <2>1. UNCHANGED <<known, phase, worker>>
    BY <1>4, Zenon DEF Claim, Free, ReadLease, Poll, CacheExpires, Delay, vars, view
  <2>. QED
    BY <1>3, <2>1
<1>5. ASSUME (ProbeAnswers \/ ProbeFails) /\ phase # "stopped"
      PROVE  Told'
  <2>1. Asking \in SUBSET Runners
    BY DEF Asking
  <2>2. HearActive(Asking) \/ HearInactive(Asking)
    BY <1>5, Zenon DEF ProbeAnswers, ProbeFails
  <2>. QED
    BY <1>1, <1>2, <1>5, <2>1, <2>2
<1>6. ASSUME NEW r \in Runners, AskCache(r), phase # "stopped"
      PROVE  Told'
  <2>1. {r} \in SUBSET Runners
    OBVIOUS
  <2>2. HearActive({r}) \/ HearInactive({r})
    BY <1>6, Zenon DEF AskCache
  <2>. QED
    BY <1>1, <1>2, <1>6, <2>1, <2>2
<1>7. ASSUME NEW r \in Runners, Ask(r) \/ Dequeue(r) \/ JobEnds(r)
      PROVE  Told'
  <2>1. UNCHANGED <<known, phase>>
    BY <1>7, Zenon DEF Ask, Dequeue, JobEnds, view
  <2>2. \A s \in Runners : worker'[s] = "waiting" => worker[s] = "waiting"
    BY <1>7 DEF Ask, Dequeue, JobEnds, TypeOK
  <2>. QED
    BY <1>3, <2>1, <2>2
<1>8. ASSUME GraceExpires \/ Shutdown
      PROVE  Told'
  <2>1. \A s \in Runners : worker'[s] = "waiting" => worker[s] = "waiting"
    BY <1>8 DEF GraceExpires, Shutdown, CancelWaiters
  <2>2. /\ known' = known
        /\ \/ phase' = phase
           \/ phase = "up" /\ phase' \in {"stopped", "draining"}
    BY <1>8, Zenon DEF GraceExpires, Shutdown
  <2>. QED
    BY <1>3, <2>1, <2>2
<1>9. ASSUME RunnersStopped
      PROVE  Told'
  <2>1. \A s \in Runners : worker'[s] = "waiting" => worker[s] = "waiting"
    BY <1>9 DEF RunnersStopped
  <2>2. known' = known /\ (phase' = phase \/ phase' = "stopped")
    BY <1>9 DEF RunnersStopped, DrainAnswered, view
  <2>. QED
    BY <1>3, <2>1, <2>2
<1>10. ASSUME StopFails \/ Exit \/ DrainEnds
       PROVE  Told'
  <2>1. UNCHANGED <<known, worker>> /\ (phase' = phase \/ phase' = "stopped")
    BY <1>10 DEF StopFails, Exit, DrainEnds, DrainAnswered, view
  <2>. QED
    BY <1>3, <2>1
<1>11. ASSUME NEW r \in Runners, RunnerUp(r)
       PROVE  Told'
  <2>1. /\ UNCHANGED <<known, worker>>
        /\ phase' = phase \/ (phase = "launching" /\ phase' = "up")
    BY <1>11 DEF RunnerUp
  <2>. QED
    BY <1>3, <2>1
<1>12. ASSUME NEW r \in Runners, StartFails(r)
       PROVE  Told'
  <2>1. UNCHANGED <<known, worker>> /\ (phase' = phase \/ phase' = "stopped")
    BY <1>12 DEF StartFails
  <2>. QED
    BY <1>3, <2>1
<1>13. ASSUME NEW r \in Runners, RunnerDies(r)
       PROVE  Told'
  <2>1. UNCHANGED <<known, phase>>
    BY <1>13, Zenon DEF RunnerDies, view
  <2>2. \A s \in Runners : worker'[s] = "waiting" => worker[s] = "waiting"
    BY <1>13 DEF RunnerDies, TypeOK
  <2>. QED
    BY <1>3, <2>1, <2>2
<1>14. Told'
  BY <1>4, <1>5, <1>6, <1>7, <1>8, <1>9, <1>10, <1>11, <1>12, <1>13 DEF Next, Process
<1>. QED
  BY <1>0, <1>14 DEF Told

\* A worker that waits for the end of the migration when the probe reads that
\* it has ended is woken: cancelDequeueWaiters of applyLeaseState misses none
\* of those that began to wait with the answers before, also when the answer
\* comes from the cache or a start is slow.
THEOREM NobodyIsForgotten == Spec => []NobodyForgotten
<1>1. Init => ForgottenInv
  BY InitTypes DEF Init, ForgottenInv, KnownOnceBooted, NobodyForgotten
<1>2. ForgottenInv /\ [Next]_vars => ForgottenInv'
  BY ForgottenStep
<1>3. ForgottenInv => NobodyForgotten
  BY DEF ForgottenInv
<1>. QED
  BY <1>1, <1>2, <1>3, PTL DEF Spec

\* The types hold whatever fails.
THEOREM TypeCorrect == Spec => []TypeOK
  BY InitTypes, TypeStep, PTL DEF Spec

(***************************************************************************)
(* The invariant.                                                          *)
(***************************************************************************)

\* It holds before the first answer.
LEMMA InitInv == Init => QuiesceInv
<1>. SUFFICES ASSUME Init PROVE QuiesceInv
  OBVIOUS
<1>1. TypeOK
  BY InitTypes
<1>2. KnownOnceBooted /\ WorkersHaveRunners /\ BootingIsEmpty
  BY DEF Init, KnownOnceBooted, WorkersHaveRunners, BootingIsEmpty, Works
<1>3. RunnersAreKnown /\ NoneAwaited /\ StopIsComplete /\ ResumeHasRunners
  BY DEF Init, RunnersAreKnown, NoneAwaited, StopIsComplete, ResumeHasRunners, Works, Alive
<1>4. QuiescedUntilResumed /\ OneSchedule /\ NeverUnhealthy
  BY DEF Init, QuiescedUntilResumed, OneSchedule, NeverUnhealthy, Works
<1>. QED
  BY <1>1, <1>2, <1>3, <1>4 DEF QuiesceInv

\* Every step keeps it, one lemma for each part.
LEMMA InvStep == QuiesceInv /\ [Next]_vars => QuiesceInv'
<1>. SUFFICES ASSUME QuiesceInv, [Next]_vars, "slow start" \notin Faults
              PROVE  QuiesceInv'
  BY DEF QuiesceInv
<1>1. /\ TypeOK
      /\ KnownOnceBooted /\ WorkersHaveRunners /\ BootingIsEmpty
      /\ RunnersAreKnown /\ NoneAwaited /\ StopIsComplete
      /\ ResumeHasRunners /\ QuiescedUntilResumed
      /\ OneSchedule /\ NeverUnhealthy
  BY DEF QuiesceInv
<1>2. TypeOK'
  BY <1>1, TypeStep
<1>3. OnePair
  BY <1>1, OnePairIsOneSchedule DEF TypeOK
<1>4. OnePair'
  BY <1>1, <1>3, PairStep
<1>5. OneSchedule'
  BY <1>4 DEF OnePair, OneSchedule, Works
<1>6. WorkersHaveRunners' /\ RunnersAreKnown' /\ NoneAwaited'
  BY <1>1, <1>3, WorkersStep, RunnersStep, AwaitedStep
<1>7. StopIsComplete' /\ BootingIsEmpty' /\ KnownOnceBooted'
  BY <1>1, StopStep, BootStep
<1>8. ResumeHasRunners'
  BY <1>1, ResumeStep
<1>9. QuiescedUntilResumed' /\ NeverUnhealthy'
  BY <1>1, QuiescedStep, HealthStep
<1>. QED
  BY <1>2, <1>5, <1>6, <1>7, <1>8, <1>9, Zenon DEF QuiesceInv

\* Who knows which runners exist, what a stop covers and how far a resume is
\* agree with each other in every state.
THEOREM QuiesceInvariance == Spec => []QuiesceInv
  BY InitInv, InvStep, PTL DEF Spec

\* Two runners exist at a time only as the runner of a resume and the one of
\* its ramp, however many migrations begin and end.
THEOREM RunnersShareOneSchedule == Spec => []OneSchedule
<1>1. QuiesceInv => OneSchedule
  BY DEF QuiesceInv, OneSchedule
<1>. QED
  BY <1>1, QuiesceInvariance, PTL

\* No job runs after the grace period and the stop that ends it.
THEOREM NoJobOutlivesTheGrace == Spec => []GraceIsTheEnd
<1>1. QuiesceInv => GraceIsTheEnd
  BY DEF QuiesceInv, GraceIsTheEnd, QuiescedUntilResumed, WorkersHaveRunners, Works
<1>. QED
  BY <1>1, QuiesceInvariance, PTL

\* The health check finds the worker quiesced or with its main runner.
THEOREM HealthIsTold == Spec => []NeverUnhealthy
<1>1. QuiesceInv => NeverUnhealthy
  BY DEF QuiesceInv, NeverUnhealthy
<1>. QED
  BY <1>1, QuiesceInvariance, PTL

(***************************************************************************)
(* The worker implements PausableWorker.                                   *)
(***************************************************************************)

SameJobs == \A r \in Runners : worker'[r] = "busy" <=> worker[r] = "busy"

\* Besides the jobs themselves only a stop and a pool that dies end jobs, and
\* only a worker that has its permit begins one.
LEMMA JobsKept ==
    ASSUME TypeOK, [Next]_vars
    PROVE  \/ SameJobs
           \/ /\ phase # "stopped"
              /\ \/ \E r \in Runners : Dequeue(r) \/ JobEnds(r) \/ RunnerDies(r)
                 \/ RunnersStopped
<1>1. ASSUME NEW A \in SUBSET Runners, \A r \in A : worker[r] # "busy",
             HearActive(A) \/ HearInactive(A)
      PROVE  SameJobs
  BY <1>1 DEF HearActive, HearInactive, Permit, SameJobs, TypeOK
<1>2. CASE ProbeAnswers \/ ProbeFails
  <2>1. Asking \in SUBSET Runners /\ \A r \in Asking : worker[r] # "busy"
    BY DEF Asking
  <2>2. HearActive(Asking) \/ HearInactive(Asking)
    BY <1>2, Zenon DEF ProbeAnswers, ProbeFails
  <2>. QED
    BY <1>1, <2>1, <2>2
<1>3. ASSUME NEW r \in Runners, Ask(r) \/ AskCache(r)
      PROVE  SameJobs
  <2>1. worker[r] = "idle"
    BY <1>3, Zenon DEF Ask, AskCache, CanAsk
  <2>2. CASE Ask(r)
    BY <2>1, <2>2 DEF Ask, SameJobs, TypeOK
  <2>3. CASE AskCache(r)
    <3>1. {r} \in SUBSET Runners /\ \A s \in {r} : worker[s] # "busy"
      BY <2>1
    <3>2. HearActive({r}) \/ HearInactive({r})
      BY <2>3, Zenon DEF AskCache
    <3>. QED
      BY <1>1, <3>1, <3>2
  <2>. QED
    BY <1>3, <2>2, <2>3
<1>4. CASE GraceExpires \/ Shutdown
  <2>1. CancelWaiters
    BY <1>4, Zenon DEF GraceExpires, Shutdown
  <2>. QED
    BY <2>1 DEF CancelWaiters, SameJobs, TypeOK
<1>5. ASSUME \/ Claim \/ Free \/ ReadLease \/ Poll \/ CacheExpires \/ Delay
             \/ StopFails \/ Exit \/ DrainEnds \/ UNCHANGED vars
             \/ \E r \in Runners : RunnerUp(r) \/ StartFails(r)
      PROVE  SameJobs
  <2>1. worker' = worker
    BY <1>5, Zenon DEF Claim, Free, ReadLease, Poll, CacheExpires, Delay,
       StopFails, Exit, DrainEnds, RunnerUp, StartFails, vars
  <2>. QED
    BY <2>1 DEF SameJobs
<1>. QED
  BY <1>2, <1>3, <1>4, <1>5 DEF Next, Process

\* How a step may turn the worker, its jobs apart.
Turns ==
    \/ Mode' = Mode
    \/ Mode \in {"starting", "serving", "restarting", "resuming"} /\ Mode' = "notified"
    \/ Mode = "notified" /\ Mode' = "pausing"
    \/ Mode \in {"notified", "pausing", "paused"} /\ Mode' = "restarting"
    \/ Mode \in {"starting", "resuming"} /\ Mode' = "serving"
    \/ Mode # "stopped" /\ Mode' \in {"ending", "stopped"}

PauseInv ==
    /\ TypeOK
    /\ KnownOnceBooted /\ WorkersHaveRunners /\ BootingIsEmpty
    /\ RunnersAreKnown /\ NoneAwaited /\ StopIsComplete
    /\ ResumeHasRunners /\ QuiescedUntilResumed /\ OneSchedule

\* The mode of a process that is up.
LEMMA UpMode ==
    /\ Mode = "stopped" <=> phase = "stopped"
    /\ phase = "draining" => Mode = "ending"
    /\ phase = "up" /\ dead => Mode = "ending"
    /\ phase \in {"booting", "launching"} => Mode = "starting"
    /\ phase = "up" /\ ~dead /\ known = "active" /\ grace => Mode = "notified"
    /\ phase = "up" /\ ~dead /\ known = "active" /\ ~grace /\ stopping => Mode = "pausing"
    /\ phase = "up" /\ ~dead /\ known = "active" /\ ~grace /\ ~stopping => Mode = "paused"
    /\ phase = "up" /\ ~dead /\ known # "active" =>
          /\ resume = "stopping" => Mode = "restarting"
          /\ resume \in {"jitter", "checking", "starting"} => Mode = "resuming"
          /\ resume \notin {"stopping", "jitter", "checking", "starting"} => Mode = "serving"
  BY Zenon DEF Mode

\* The same in the next state.
LEMMA UpModeNext ==
    /\ Mode' = "stopped" <=> phase' = "stopped"
    /\ phase' = "draining" => Mode' = "ending"
    /\ phase' = "up" /\ dead' => Mode' = "ending"
    /\ phase' \in {"booting", "launching"} => Mode' = "starting"
    /\ phase' = "up" /\ ~dead' /\ known' = "active" /\ grace' => Mode' = "notified"
    /\ phase' = "up" /\ ~dead' /\ known' = "active" /\ ~grace' /\ stopping' => Mode' = "pausing"
    /\ phase' = "up" /\ ~dead' /\ known' = "active" /\ ~grace' /\ ~stopping' => Mode' = "paused"
    /\ phase' = "up" /\ ~dead' /\ known' # "active" =>
          /\ resume' = "stopping" => Mode' = "restarting"
          /\ resume' \in {"jitter", "checking", "starting"} => Mode' = "resuming"
          /\ resume' \notin {"stopping", "jitter", "checking", "starting"} => Mode' = "serving"
  BY Zenon DEF Mode

\* Every step that is not the end of a stop turns the worker so.
LEMMA TurnsStep ==
    ASSUME PauseInv, "slow start" \notin Faults, [Next]_vars
    PROVE  Turns \/ (PoolStops /\ phase # "stopped")
<1>. DEFINE Kinds == /\ runner \in [Runners -> {"none", "up", "draining", "starting", "overtaken"}]
                     /\ kind \in [Runners -> {"full", "resume", "ramp"}]
                     /\ known \in {"unknown", "active", "inactive"}
                     /\ phase \in {"booting", "launching", "up", "draining", "stopped"}
            Facts == /\ KnownOnceBooted /\ BootingIsEmpty /\ RunnersAreKnown
                     /\ NoneAwaited /\ StopIsComplete /\ ResumeHasRunners
<1>0. TypeOK /\ Kinds /\ Facts
  BY DEF PauseInv, TypeOK, Starting
<1>. USE <1>0, UpMode, UpModeNext
     DEF KnownOnceBooted, BootingIsEmpty, RunnersAreKnown, NoneAwaited,
         StopIsComplete, ResumeHasRunners, Works, Alive, Starting, SamePool,
         SameFlags, SameStop, SameDead, Turns
<1>. HIDE DEF Mode
<1>1. CASE Quiet
  BY <1>1 DEF Quiet
<1>2. CASE HearsMigration
  BY <1>2 DEF HearsMigration, Hears
<1>3. CASE HearsFirst
  BY <1>3 DEF HearsFirst, Hears
<1>4. CASE HearsEnd
  BY <1>4 DEF HearsEnd, Hears, Stops
<1>5. CASE HearsNoNews
  BY <1>5 DEF HearsNoNews, HearsAgain, Hears
<1>6. CASE ResumeStarts
  BY <1>6 DEF ResumeStarts, HearsAgain, Hears
<1>7. CASE ResumeRamps
  BY <1>7 DEF ResumeRamps, HearsAgain, Hears
<1>8. CASE Expires /\ phase # "stopped"
  BY <1>8 DEF Expires, Stops
<1>10. CASE Delays /\ phase # "stopped"
  BY <1>10 DEF Delays
<1>11. CASE Leaves /\ phase # "stopped"
  BY <1>11 DEF Leaves
<1>12. CASE StopIsLost /\ phase # "stopped"
  BY <1>12 DEF StopIsLost
<1>13. CASE ShutsDown /\ phase # "stopped"
  BY <1>13 DEF ShutsDown
<1>14. ASSUME NEW r \in Runners, ComesUp(r), phase # "stopped"
       PROVE  Turns
  BY <1>14 DEF ComesUp
<1>15. ASSUME NEW r \in Runners, FailsToStart(r), phase # "stopped"
       PROVE  Turns
  BY <1>15 DEF FailsToStart
<1>16. ASSUME NEW r \in Runners, Dies(r), phase # "stopped"
       PROVE  Turns
  BY <1>16 DEF Dies
<1>. QED
  BY StepEffects, <1>1, <1>2, <1>3, <1>4, <1>5, <1>6, <1>7, <1>8, <1>10,
     <1>11, <1>12, <1>13, <1>14, <1>15, <1>16 DEF HearsSomething

\* While the worker starts, is paused or resumes, none works or is about to.
LEMMA PausedIsIdle ==
    ASSUME PauseInv, "slow start" \notin Faults,
           Mode \in {"starting", "paused", "resuming"}, NEW r \in Runners
    PROVE  worker[r] \notin {"permitted", "busy"}
<1>. SUFFICES ASSUME runner[r] \in {"up", "draining"} PROVE FALSE
  BY DEF PauseInv, WorkersHaveRunners
<1>. USE UpMode DEF PauseInv
<1>1. phase \in {"booting", "launching", "up"} /\ known \in {"unknown", "active", "inactive"}
  BY DEF TypeOK
<1>2. Works(r)
  BY DEF Works
<1>3. CASE phase = "booting"
  BY <1>2, <1>3 DEF BootingIsEmpty
<1>4. CASE phase = "launching"
  <2>1. PICK s \in Runners : runner[s] = "starting"
    BY <1>4 DEF BootingIsEmpty
  <2>2. kind[s] = "full" /\ Works(s) /\ s # r
    BY <1>4, <2>1 DEF RunnersAreKnown, BootingIsEmpty, Works, Alive
  <2>. QED
    BY <1>2, <2>2 DEF OneSchedule
<1>5. CASE phase = "up" /\ known = "active"
  BY <1>2, <1>5 DEF QuiescedUntilResumed
<1>6. CASE phase = "up" /\ known # "active"
  <2>1. resume \in {"jitter", "checking", "starting"}
    BY <1>6
  <2>. QED
    BY <1>2, <2>1 DEF ResumeHasRunners
<1>. QED
  BY <1>1, <1>3, <1>4, <1>5, <1>6

\* Every step of the worker is one of a PausableWorker, or none.
LEMMA PauseStep ==
    ASSUME PauseInv, "slow start" \notin Faults, [Next]_vars
    PROVE  [Pause!Next]_<<Mode, Jobs>>
<1>. USE UpMode, UpModeNext
<1>0. TypeOK
  BY DEF PauseInv
<1>1. CASE SameJobs /\ Turns
  <2>1. CASE Mode' = Mode
    <3>1. Jobs' = Jobs
      BY <1>1, <2>1 DEF SameJobs, Jobs
    <3>. QED
      BY <2>1, <3>1
  <2>2. CASE Mode' = "stopped"
    <3>1. Jobs' = {}
      BY <2>2 DEF Jobs
    <3>. QED
      BY <2>2, <3>1 DEF Pause!Next, Pause!Exit
  <2>3. CASE Mode' # "stopped" /\ Mode # "stopped"
    <3>1. Jobs' = Jobs
      BY <1>1, <2>3 DEF SameJobs, Jobs
    <3>. QED
      BY <1>1, <2>3, <3>1
         DEF Turns, Pause!Next, Pause!Hear, Pause!EndGrace, Pause!Clear,
             Pause!Serve, Pause!Turn, Pause!Fail
  <2>. QED
    BY <1>1, <2>1, <2>2, <2>3 DEF Turns
<1>2. CASE PoolStops /\ phase # "stopped" /\ (SameJobs \/ RunnersStopped)
  <2>0. Jobs' \subseteq Jobs
    <3>1. \A r \in Runners : worker'[r] = "busy" => worker[r] = "busy"
      BY <1>2 DEF SameJobs, RunnersStopped
    <3>. QED
      BY <1>2, <3>1 DEF Jobs
  <2>1. CASE phase' = "stopped"
    <3>1. Jobs' = {}
      BY <2>1 DEF Jobs
    <3>. QED
      BY <2>1, <3>1 DEF Pause!Next, Pause!Exit
  <2>2. CASE phase' # "stopped" /\ phase = "draining"
    <3>1. Mode' = Mode
      BY <1>2, <2>2 DEF PoolStops
    <3>. QED
      BY <2>0, <3>1 DEF Pause!Next, Pause!EndJobs
  <2>3. CASE phase = "up"
    <3>1. phase' = phase /\ stopping /\ Alive
      BY <1>2, <2>3 DEF PoolStops, Alive
    <3>2. \A r \in Runners : worker'[r] = "idle"
      <4>1. \A r \in Runners : Works(r) => r \in snapshot
        BY <3>1 DEF PauseInv, StopIsComplete
      <4>2. \A r \in Runners : worker[r] # "idle" => Works(r)
        BY DEF PauseInv, WorkersHaveRunners, Works
      <4>. QED
        BY <1>2, <4>1, <4>2 DEF PoolStops
    <3>3. Jobs' = {}
      BY <3>2 DEF Jobs
    <3>4. \/ Mode' = Mode
          \/ Mode = "pausing" /\ Mode' = "paused"
          \/ Mode = "restarting" /\ Mode' = "resuming"
      <4>1. CASE dead
        BY <1>2, <2>3, <3>1, <4>1 DEF PoolStops, SameDead
      <4>2. CASE ~dead /\ known = "active"
        BY <1>2, <2>3, <3>1, <4>2 DEF PoolStops, SameDead, SameFlags
      <4>3. CASE ~dead /\ known # "active"
        <5>1. resume = "stopping" /\ resume' = "jitter"
          BY <1>2, <3>1, <4>3 DEF PoolStops, PauseInv, StopIsComplete
        <5>. QED
          BY <1>2, <2>3, <3>1, <4>3, <5>1 DEF PoolStops, SameDead
      <4>. QED
        BY <4>1, <4>2, <4>3
    <3>. QED
      BY <2>0, <3>3, <3>4 DEF Pause!Next, Pause!StopRunners, Pause!EndJobs
  <2>. QED
    BY <1>0, <1>2, <2>1, <2>2, <2>3 DEF PauseInv, BootingIsEmpty, PoolStops, TypeOK
<1>3. ASSUME NEW r \in Runners, Dequeue(r) \/ JobEnds(r), phase # "stopped"
      PROVE  [Pause!Next]_<<Mode, Jobs>>
  <2>1. /\ UNCHANGED <<known, grace, resume, phase, stopping, dead>>
        /\ \E w \in {"busy", "idle"} : worker' = [worker EXCEPT ![r] = w]
    BY <1>3, Zenon DEF Dequeue, JobEnds, view, stop
  <2>2. Mode' = Mode
    BY <2>1 DEF Mode
  <2>3. CASE worker' = [worker EXCEPT ![r] = "idle"]
    <3>1. Jobs' \subseteq Jobs
      BY <1>0, <2>1, <2>3 DEF Jobs, TypeOK
    <3>. QED
      BY <2>2, <3>1 DEF Pause!Next, Pause!EndJobs
  <2>4. CASE worker' = [worker EXCEPT ![r] = "busy"]
    <3>1. worker[r] \in {"permitted", "busy"}
      BY <1>3, Zenon DEF Dequeue, JobEnds
    <3>2. Mode \notin {"starting", "paused", "resuming", "stopped"}
      BY <1>3, <3>1, PausedIsIdle
    <3>3. Jobs' = Jobs \cup {r}
      <4>1. \A s \in Runners : worker'[s] = IF s = r THEN "busy" ELSE worker[s]
        BY <1>0, <2>4 DEF TypeOK
      <4>. QED
        BY <1>3, <2>1, <4>1 DEF Jobs
    <3>. QED
      BY <2>2, <3>2, <3>3 DEF Pause!Next, Pause!BeginJob
  <2>. QED
    BY <2>1, <2>3, <2>4
<1>4. ASSUME NEW r \in Runners, RunnerDies(r), phase # "stopped"
      PROVE  [Pause!Next]_<<Mode, Jobs>>
  <2>1. phase' = phase /\ dead' = (Alive \/ dead) /\ worker' = [worker EXCEPT ![r] = "idle"]
    BY <1>4, Zenon DEF RunnerDies
  <2>2. Jobs' \subseteq Jobs
    BY <1>0, <2>1 DEF Jobs, TypeOK
  <2>3. Mode' = Mode \/ Mode' = "ending"
    BY <1>0, <1>4, <2>1 DEF Alive, TypeOK
  <2>. QED
    BY <1>4, <2>2, <2>3 DEF Pause!Next, Pause!EndJobs, Pause!Fail
<1>5. (Turns /\ SameJobs) \/ (PoolStops /\ phase # "stopped" /\ (SameJobs \/ RunnersStopped))
         \/ (phase # "stopped" /\ \E r \in Runners : Dequeue(r) \/ JobEnds(r) \/ RunnerDies(r))
  BY <1>0, JobsKept, TurnsStep, StopEffects
<1>. QED
  BY <1>1, <1>2, <1>3, <1>4, <1>5

\* The worker is a PausableWorker whatever fails, as long as a start ends
\* before the next answer of the probe: no job begins or runs between the stop
\* that ends a grace period and the runner of the resume, also when the lease
\* is claimed again during the resume, the stop is joined, or the pool dies.
THEOREM MigrationsHaveTheirPause ==
    ASSUME "slow start" \notin Faults
    PROVE  Spec => ImplementsPause
<1>1. Init => Pause!Init
  BY UpMode DEF Init, Pause!Init, Jobs
<1>2. QuiesceInv => PauseInv
  BY DEF QuiesceInv, PauseInv
<1>3. PauseInv /\ [Next]_vars => [Pause!Next]_<<Mode, Jobs>>
  BY PauseStep
<1>. QED
  BY <1>1, <1>2, <1>3, QuiesceInvariance, PTL DEF Spec, ImplementsPause, Pause!Spec

=============================================================================
