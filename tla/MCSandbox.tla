----------------------------- MODULE MCSandbox -----------------------------
(***************************************************************************)
(* Instances of Sandbox.                                                   *)
(***************************************************************************)
EXTENDS Sandbox, TLC
=============================================================================
