----------------------- MODULE MaterializationSwitch -----------------------
(***************************************************************************)
(* What the materializations of a pre-aggregate promise to those whose     *)
(* queries it serves, with jobs, polls, transactions and row locks left    *)
(* out: the active materialization is exchanged for another in one step,   *)
(* and for one that is complete.  Unless the database loses the answer of  *)
(* a COMMIT, or the definition is dropped, nothing else takes it away.     *)
(***************************************************************************)
CONSTANTS Jobs, Storage, Faults

VARIABLES
    definition,  \* the definition exists
    phase,       \* of each row: none, pending, active or ended
    stored       \* rows whose file is in object storage

Init ==
    /\ definition = TRUE
    /\ phase = [j \in Jobs |-> "none"]
    /\ stored = {}

Move(j, from, to) ==
    /\ phase[j] = from
    /\ phase' = [phase EXCEPT ![j] = to]

Begin(j) ==
    /\ definition
    /\ Move(j, "none", "pending")
    /\ UNCHANGED <<definition, stored>>

Store(j) ==
    /\ stored' = stored \cup {j}
    /\ UNCHANGED <<definition, phase>>

IsComplete(j) == Storage # "parquet" => j \in stored

\* The active row, if there is one, ends as the other becomes active.
Promote(j) ==
    /\ phase[j] = "pending"
    /\ IsComplete(j)
    /\ phase' = [k \in Jobs |-> IF k = j THEN "active" ELSE
                                IF phase[k] = "active" THEN "ended" ELSE phase[k]]
    /\ UNCHANGED <<definition, stored>>

\* An error, or a newer materialization.
End(j) ==
    /\ Move(j, "pending", "ended")
    /\ UNCHANGED <<definition, stored>>

Lose(j) ==
    /\ "database" \in Faults
    /\ Move(j, "active", "ended")
    /\ UNCHANGED <<definition, stored>>

Drop ==
    /\ definition' = FALSE
    /\ phase' = [j \in Jobs |-> "none"]
    /\ UNCHANGED stored

Next ==
    \/ \E j \in Jobs : Begin(j) \/ Store(j) \/ Promote(j) \/ End(j) \/ Lose(j)
    \/ Drop

Spec == Init /\ [][Next]_<<definition, phase, stored>>
=============================================================================
