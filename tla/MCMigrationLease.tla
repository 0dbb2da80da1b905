-------------------------- MODULE MCMigrationLease --------------------------
(***************************************************************************)
(* Instances of MigrationLease.  Two releases of which each has a          *)
(* migration of its own: v1 may run after v2, because its own is the older *)
(* one, but not the other way round.                                       *)
(***************************************************************************)
EXTENDS MigrationLease, TLC

CONSTANTS r1, r2, r3, v1, v2

ReleaseFiles == (v1 :> {1, 2}) @@ (v2 :> {1, 3})

\* Two servers of one release, and one of the other.
OldTwice == (r1 :> v1) @@ (r2 :> v1) @@ (r3 :> v2)
NewTwice == (r1 :> v2) @@ (r2 :> v2) @@ (r3 :> v1)

AllUp == [r \in Runners |-> "up"]
OneWaits == [AllUp EXCEPT ![r2] = "wait"]
OneForces == [AllUp EXCEPT ![r3] = "up --force"]

\* For OldTwice with AllUp or OneForces.
ServerSymmetry == Permutations({r1, r2})
=============================================================================
