-------------------------- MODULE MCComposedQueries --------------------------
(* TLC instances of ComposedQueries: a pre-aggregate leg that rides on the  *)
(* stream of the joins, a leg that runs elsewhere, and two joins.           *)
EXTENDS ComposedQueries

CONSTANTS l1, l2, j1, j2

MCLegs  == {l1, l2}
MCJoins == {j1, j2}

\* One reference, or two.
OnePlace  == {1}
TwoPlaces == {1, 2}
=============================================================================
