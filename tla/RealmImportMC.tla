--------------------------- MODULE RealmImportMC ---------------------------
(* RealmImport on small instances. *)
EXTENDS RealmImport, TLC

NoEntries == [x \in {} |-> None]

Doc(u, c) == [fields |-> FALSE, flowKnown |-> TRUE, users |-> u, clients |-> c]

Users(u) == Doc(u, NoEntries)
Given(email) == [email |-> email, present |-> TRUE]

Confidential == [public |-> FALSE, present |-> TRUE, secret |-> TRUE]
TypeOnly     == [public |-> FALSE, present |-> TRUE, secret |-> FALSE]
Unchanged    == [public |-> TRUE, present |-> FALSE, secret |-> FALSE]

\* Two spellings of a, one of b.
MCSpelling == {"a", "A", "b"}
MCAddress == {"a*", "b*"}
MCFold == [s \in MCSpelling |-> IF s = "b" THEN "b*" ELSE "a*"]

\* Two users exchange addresses, one respelt, beside a client that changes its type and
\* fields of the realm; a flow is not there; a client gets its secret.
ImportDocs ==
    {Doc(1 :> Given("a") @@ 2 :> Given("b"), 1 :> Unchanged),
     [Doc(1 :> Given("b") @@ 2 :> Given("A"), 1 :> TypeOnly) EXCEPT !.fields = TRUE],
     [Users(2 :> Given(None)) EXCEPT !.flowKnown = FALSE],
     Doc(NoEntries, 1 :> Confidential)}

\* A user moves, another takes the address, a third document respells it.
Renaming ==
    {Users(1 :> Given("a")), Users(1 :> Given("A")), Users(1 :> Given("b")),
     Users(2 :> Given("a"))}

Symmetry == Permutations(Worker)
=============================================================================
