------------------------- MODULE MCSchedulerQuiesce -------------------------
(***************************************************************************)
(* Instances of SchedulerQuiesce.                                          *)
(***************************************************************************)
EXTENDS SchedulerQuiesce, TLC

RunnerSymmetry == Permutations(Runners)
=============================================================================
