--------------------------- MODULE MCPreAggregate ---------------------------
(***************************************************************************)
(* Instances of PreAggregate, with model values for the jobs.              *)
(***************************************************************************)
EXTENDS PreAggregate

CONSTANTS j1, j2
=============================================================================
