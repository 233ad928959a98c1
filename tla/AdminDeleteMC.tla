----------------------------- MODULE AdminDeleteMC -----------------------------
(* AdminDelete on small instances. *)
EXTENDS AdminDelete, TLC

Symmetry == Permutations(Client) \cup Permutations(Token)

\* Two deletions overlap only while a token is still to be issued.
OverlapBound ==
    (\A w \in Worker : req[w].kind \in Deletion) => \E t \in Token : grants[t].st = "absent"
=============================================================================
