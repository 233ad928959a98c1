-------------------------- MODULE SchemaMigrationsMC --------------------------
(* SchemaMigrations on small instances. *)
EXTENDS SchemaMigrations, TLC

\* Two spellings of one name, and another name.
Lower(n) == IF n = "Acme" THEN "acme" ELSE n
Symmetry == Permutations(Key) \cup Permutations(Job) \cup Permutations(Scope)
=============================================================================
