----------------------------- MODULE BrowserFlowMC -----------------------------
(* BrowserFlow on small instances. *)
EXTENDS BrowserFlow, TLC

Symmetry == Permutations(Worker) \cup Permutations(User)
=============================================================================
