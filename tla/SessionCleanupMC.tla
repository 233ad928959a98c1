--------------------------- MODULE SessionCleanupMC ---------------------------
(* SessionCleanup on small instances. *)
EXTENDS SessionCleanup, TLC

Symmetry == Permutations(Session) \cup Permutations(Code)
            \cup Permutations(Token) \cup Permutations(Worker)
=============================================================================
