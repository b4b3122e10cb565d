-------------------------- MODULE MCControlledRestart --------------------------
(* ControlledRestart as TLC runs it.  Its liveness property rules out a       *)
(* symmetry set, so there is nothing to define.                               *)
EXTENDS ControlledRestart
=============================================================================
