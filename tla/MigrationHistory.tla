-------------------------- MODULE MigrationHistory --------------------------
(***************************************************************************)
(* What migrating promises about the database and the reports, with the    *)
(* lease, its heartbeats, the Knex lock, attempts and operators left out:  *)
(* migrations are applied one by one, each as the next one that is missing *)
(* of some release that is being run; a runner reports success only when   *)
(* its release is complete, and the ledger also when Graphile Worker's     *)
(* migrations ran, which is never before.  Reports are not taken back.     *)
(***************************************************************************)
EXTENDS Naturals, Sequences

CONSTANTS Runners, Files, Version

VARIABLES
    history,   \* the migrations that were applied, in their order
    upgraded,  \* Graphile Worker's migrations ran
    told,      \* how each runner ended, "open" until then
    recorded   \* the runners whose success the ledger has

Applied == {history[i] : i \in 1..Len(history)}
Missing(r) == Files[Version[r]] \ Applied
IsComplete(r) == Missing(r) = {}

Init ==
    /\ history = <<>> /\ upgraded = FALSE
    /\ told = [r \in Runners |-> "open"]
    /\ recorded = {}

End(r, e) ==
    /\ told[r] = "open"
    /\ told' = [told EXCEPT ![r] = e]

ApplyNext(r) ==
    /\ \E m \in Missing(r) :
          /\ \A n \in Missing(r) : m <= n
          /\ history' = Append(history, m)
    /\ UNCHANGED upgraded

UpgradeGraphile(r) ==
    /\ IsComplete(r)
    /\ upgraded' = TRUE
    /\ UNCHANGED history

\* A step of the database for a runner that goes on.
Migrate(r) ==
    /\ told[r] = "open"
    /\ ApplyNext(r) \/ UpgradeGraphile(r)
    /\ UNCHANGED <<told, recorded>>

\* It saw others finish.
Report(r) ==
    /\ IsComplete(r)
    /\ End(r, "done")
    /\ UNCHANGED <<history, upgraded, recorded>>

\* It finished; whether it is told so is another matter.
Record(r) ==
    /\ IsComplete(r) /\ upgraded
    /\ recorded' = recorded \cup {r}
    /\ \E e \in {"done", "exited"} : End(r, e)
    /\ UNCHANGED <<history, upgraded>>

\* It fails or dies, maybe with a last step of the database under way.
Exit(r) ==
    /\ End(r, "exited")
    /\ UNCHANGED <<history, upgraded>> \/ ApplyNext(r) \/ UpgradeGraphile(r)
    /\ UNCHANGED recorded

Next == \E r \in Runners : Migrate(r) \/ Report(r) \/ Record(r) \/ Exit(r)

Spec == Init /\ [][Next]_<<history, upgraded, told, recorded>>
=============================================================================
