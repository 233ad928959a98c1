------------------------------- MODULE KeyRing -------------------------------
(***************************************************************************)
(* What a realm promises of its signing keys to those who verify its       *)
(* tokens.  Every change is one step: there is no lock, no waiting, and no *)
(* moment between the old active key and the new one.                      *)
(***************************************************************************)
CONSTANT Key

VARIABLES
    realm,   \* the realm's row
    keys,    \* its keys
    signed   \* the keys of the tokens that were handed out

ring == <<realm, keys, signed>>

Open   == realm \in {"enabled", "disabled"}
Active == {k \in Key : keys[k] = "active"}
Stored == {k \in Key : keys[k] \in {"active", "retained"}}

Init ==
    /\ realm \in {"absent", "enabled", "disabled"}
    /\ keys = [k \in Key |-> "absent"]
    /\ signed = {}

\* A realm starts with one key.
Create(k) ==
    /\ realm = "absent" /\ keys[k] = "absent"
    /\ realm' = "enabled"
    /\ keys' = [keys EXCEPT ![k] = "active"]
    /\ UNCHANGED signed

\* The first key of a realm that is older than the key table, and of no other.
Provision(k) ==
    /\ Open /\ Stored = {} /\ keys[k] = "absent"
    /\ keys' = [keys EXCEPT ![k] = "active"]
    /\ UNCHANGED <<realm, signed>>

\* A new key takes the place of the active one, which still verifies.
Rotate(k) ==
    /\ realm = "enabled" /\ keys[k] = "absent"
    /\ keys' = [i \in Key |-> IF i = k THEN "active"
                              ELSE IF i \in Active THEN "retained" ELSE keys[i]]
    /\ UNCHANGED <<realm, signed>>

\* A token is handed out under a key that verifies it.
Issue(k) ==
    /\ Open /\ k \in Stored
    /\ signed' = signed \cup {k}
    /\ UNCHANGED <<realm, keys>>

\* The realm goes with all its keys.
Delete ==
    /\ Open
    /\ realm' = "deleted"
    /\ keys' = [k \in Key |-> IF k \in Stored THEN "deleted" ELSE keys[k]]
    /\ UNCHANGED signed

SetEnabled ==
    /\ Open
    /\ realm' = IF realm = "enabled" THEN "disabled" ELSE "enabled"
    /\ UNCHANGED <<keys, signed>>

Next ==
    \/ \E k \in Key : Create(k) \/ Provision(k) \/ Rotate(k) \/ Issue(k)
    \/ Delete \/ SetEnabled

Spec == Init /\ [][Next]_ring
=============================================================================
