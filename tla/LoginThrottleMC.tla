---------------------------- MODULE LoginThrottleMC ----------------------------
(* LoginThrottle on small instances. *)
EXTENDS LoginThrottle, TLC

Symmetry == Permutations(Worker)
=============================================================================
