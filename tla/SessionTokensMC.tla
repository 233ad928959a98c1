--------------------------- MODULE SessionTokensMC ---------------------------
(* SessionTokens on small instances. *)
EXTENDS SessionTokens, TLC

Symmetry == Permutations(Session) \cup Permutations(Code)
            \cup Permutations(Token) \cup Permutations(Worker)
=============================================================================
