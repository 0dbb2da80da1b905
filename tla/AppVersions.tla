---------------------------- MODULE AppVersions ----------------------------
(***************************************************************************)
(* What a data app promises to those who look at its versions, with jobs,  *)
(* their retries, sandboxes and snapshots left out: a version begins when  *)
(* the one before it has ended, ends once, and is published with a package *)
(* that nobody changes from then on, and in which nothing is of a version  *)
(* after it.                                                               *)
(***************************************************************************)
EXTENDS Naturals

CONSTANT MaxTurns

VARIABLES
    version,  \* of each version: none, building, ready or error
    package,  \* the turns whose work is in a version that is ready
    deleted   \* the app is deleted

Turns == 1 .. MaxTurns

Init ==
    /\ version = [t \in Turns |-> "none"]
    /\ package = [t \in Turns |-> {}]
    /\ deleted = FALSE

Begin(t) ==
    /\ version[t] = "none" /\ ~deleted
    /\ t > 1 => version[t - 1] \in {"ready", "error"}
    /\ version' = [version EXCEPT ![t] = "building"]
    /\ UNCHANGED <<package, deleted>>

End(t, s) ==
    /\ version[t] = "building"
    /\ version' = [version EXCEPT ![t] = s]
    /\ UNCHANGED deleted

Publish(t) ==
    /\ End(t, "ready")
    /\ \E w \in SUBSET (1 .. t) : package' = [package EXCEPT ![t] = w]

\* The build fails, or is cancelled.
Fail(t) == End(t, "error") /\ UNCHANGED package

\* A version that is being built may be published after a soft deletion.
Delete ==
    /\ ~deleted /\ deleted'
    /\ \/ UNCHANGED <<version, package>>
       \/ /\ version' = [t \in Turns |-> "none"]
          /\ package' = [t \in Turns |-> {}]

Next == Delete \/ \E t \in Turns : Begin(t) \/ Publish(t) \/ Fail(t)

Spec == Init /\ [][Next]_<<version, package, deleted>>
=============================================================================
