---------------------------- MODULE MCDispatcher ----------------------------
(***************************************************************************)
(* Model checking of CommandDispatcher.  The workers are model values; they *)
(* differ only by identity.                                                *)
(***************************************************************************)
EXTENDS CommandDispatcher, TLC

WorkerSymmetry == Permutations(Workers)
=============================================================================
