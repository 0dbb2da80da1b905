---------------------------- MODULE MCAsyncQuery ----------------------------
(* TLC instances of AsyncQuery.                                            *)
EXTENDS AsyncQuery, TLC

CONSTANTS q1, q2, w1, k1

MCQueries == {q1, q2}
MCWorkers == {w1}
MCKeys    == {k1}

\* Queries are interchangeable for safety.
MCSymmetry == Permutations(MCQueries)

MCNone == {}

\* Every failure outside the code.
MCAllFaults == {"crash", "nats_loss", "rebuild", "database", "cleanup"}
=============================================================================
