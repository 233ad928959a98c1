------------------------------ MODULE RealmKeysMC ------------------------------
(* RealmKeys on small instances.  No symmetry: TransactionsEnd is a liveness  *)
(* property.                                                                  *)
EXTENDS RealmKeys, TLC
=============================================================================
