-------------------------- MODULE MCCoreLifecycle --------------------------
(***************************************************************************)
(* Instances of CoreLifecycle for TLC.  The callers are interchangeable.   *)
(***************************************************************************)
EXTENDS CoreLifecycle, TLC

CallerSymmetry == Permutations(Caller)
=============================================================================
