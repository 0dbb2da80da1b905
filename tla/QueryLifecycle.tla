--------------------------- MODULE QueryLifecycle ---------------------------
(***************************************************************************)
(* What the asynchronous query API promises whoever polls a query, with    *)
(* the queue, the workers and the cache left out: a query is open, then it *)
(* lands on results that are in storage or it fails.  A failure is final   *)
(* as a failure; results, once named, are never exchanged for others.      *)
(***************************************************************************)
CONSTANTS Queries, Files, NoFile

VARIABLES phase, result, stored

Phases == {"none", "open", "ready", "failed"}

Init ==
    /\ phase = [q \in Queries |-> "none"]
    /\ result = [q \in Queries |-> NoFile]
    /\ stored = {}

Submit(q) ==
    /\ phase[q] = "none"
    /\ phase' = [phase EXCEPT ![q] = "open"]
    /\ UNCHANGED <<result, stored>>

Store(f) ==
    /\ stored' = stored \cup {f}
    /\ UNCHANGED <<phase, result>>

Land(q) ==
    /\ phase[q] = "open"
    /\ phase' = [phase EXCEPT ![q] = "ready"]
    /\ \E f \in stored : result' = [result EXCEPT ![q] = f]
    /\ UNCHANGED stored

\* An error, an expiry or a cancellation, of a landed query too.
Fail(q) ==
    /\ phase[q] # "none"
    /\ phase' = [phase EXCEPT ![q] = "failed"]
    /\ UNCHANGED <<result, stored>>

Next ==
    \/ \E q \in Queries : Submit(q) \/ Land(q) \/ Fail(q)
    \/ \E f \in Files : Store(f)

Spec == Init /\ [][Next]_<<phase, result, stored>>
=============================================================================
