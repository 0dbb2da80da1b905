--------------------------- MODULE PausableWorker ---------------------------
(***************************************************************************)
(* What a scheduler worker promises to the migrations, with the probe, the *)
(* runners and the stages of a resume left out: jobs begin until it hears  *)
(* of a migration and get a grace period and a stop to end in; then none   *)
(* runs or begins until, the migration over, everything has been stopped   *)
(* and started anew.                                                       *)
(***************************************************************************)
CONSTANT Runners

VARIABLES
    mode,  \* of the process
    jobs   \* runners that work on a job

\* In "pausing" the runners are stopped for a migration, in "restarting"
\* after one.
Modes == {"starting", "serving", "notified", "pausing", "paused",
          "restarting", "resuming", "ending", "stopped"}

Init == mode = "starting" /\ jobs = {}

Turn(from, to) == mode \in from /\ mode' = to /\ UNCHANGED jobs

Hear == Turn({"starting", "serving", "restarting", "resuming"}, "notified")

EndGrace == Turn({"notified"}, "pausing")

\* The migration is over, in whatever state it finds the worker.
Clear == Turn({"notified", "pausing", "paused"}, "restarting")

Serve == Turn({"starting", "resuming"}, "serving")

\* No job survives a stop.
StopRunners ==
    /\ \/ mode = "pausing" /\ mode' = "paused"
       \/ mode = "restarting" /\ mode' = "resuming"
    /\ jobs' = {}

BeginJob(r) ==
    /\ mode \notin {"starting", "paused", "resuming", "stopped"}
    /\ jobs' = jobs \cup {r}
    /\ UNCHANGED mode

EndJobs == jobs' \subseteq jobs /\ UNCHANGED mode

\* A shutdown, or a failure.
Fail == mode # "stopped" /\ mode' = "ending" /\ jobs' \subseteq jobs

Exit == mode' = "stopped" /\ jobs' = {}

Next ==
    \/ Hear \/ EndGrace \/ Clear \/ Serve \/ StopRunners
    \/ \E r \in Runners : BeginJob(r)
    \/ EndJobs \/ Fail \/ Exit

Spec == Init /\ [][Next]_<<mode, jobs>>
=============================================================================
