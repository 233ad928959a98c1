------------------------------- MODULE RealmKeys -------------------------------
(***************************************************************************)
(* Signing keys of one realm: token signing, provisioning by imports,      *)
(* rotation from the command line and deletion of the realm, as concurrent *)
(* transactions (PostgreSQL READ COMMITTED).                               *)
(*                                                                         *)
(* realm and keys hold committed rows; what a transaction has written but  *)
(* not committed is implied by the statement it has reached.               *)
(***************************************************************************)
EXTENDS Naturals, FiniteSets

CONSTANTS
    Key,      \* primary keys of realm_keys; kid is random and as unique
    Worker,   \* transactions of web workers and of the command line
    None      \* a field a transaction does not use

ASSUME NoneAssumption == None \notin Key

VARIABLES
    realm,    \* the row of realms
    keys,     \* table realm_keys
    req,      \* the transaction each worker runs
    signed    \* kids of the refresh tokens committed so far

vars == <<realm, keys, req, signed>>

-----------------------------------------------------------------------------
RealmStatus == {"absent", "enabled", "disabled", "deleted"}
KeyStatus   == {"absent", "active", "retained", "deleted"}

InFlight == {"ensure.lock", "ensure.check", "ensure.commit",
             "rotate.lock", "rotate.deactivate", "rotate.commit",
             "delete.keys", "delete.realm", "sign.commit"}

\* `seen`: the rows the running UPDATE or DELETE has in its snapshot.
Request == [pc : InFlight \cup {"idle"}, seen : SUBSET Key, key : Key \cup {None}]

At(pc, seen, key) == [pc |-> pc, seen |-> seen, key |-> key]
NoRequest == At("idle", {}, None)

Goto(w, r) == req' = [req EXCEPT ![w] = r]
Finish(w)  == Goto(w, NoRequest)

Present == realm \in {"enabled", "disabled"}
Stored  == {k \in Key : keys[k] \in {"active", "retained"}}
Active  == {k \in Key : keys[k] = "active"}

\* Row locks: SELECT ... FOR UPDATE of the realm, the UPDATE and the DELETE of
\* keys.  Each is held to the end of its transaction.
RealmHolder == {"ensure.check", "ensure.commit", "rotate.deactivate", "rotate.commit"}

RealmFree(w) == \A v \in Worker \ {w} : req[v].pc \notin RealmHolder

KeysFree(w) ==
    \A v \in Worker \ {w} : req[v].pc \in {"rotate.commit", "delete.realm"}
                               => req[v].seen \cap req[w].seen = {}

-----------------------------------------------------------------------------
\* A realm is created with its first key in one transaction.  One that is older
\* than the key table has none until an import provisions it.
Init ==
    /\ realm \in {"absent", "enabled", "disabled"}
    /\ keys = [k \in Key |-> "absent"]
    /\ req = [w \in Worker |-> NoRequest]
    /\ signed = {}

\* RealmImportService.import_realm of a new realm.
CreateRealm(k) ==
    /\ realm = "absent" /\ keys[k] = "absent"
    /\ realm' = "enabled"
    /\ keys' = [keys EXCEPT ![k] = "active"]
    /\ UNCHANGED <<req, signed>>

-----------------------------------------------------------------------------
(* RealmKeyService.ensure_active_key, inside the import of a known realm.   *)

EnsureStart(w) ==
    /\ req[w].pc = "idle" /\ Present
    /\ Goto(w, At("ensure.lock", {}, None))
    /\ UNCHANGED <<realm, keys, signed>>

\* scalar_one of a realm that is gone fails the import.
EnsureLock(w) ==
    /\ req[w].pc = "ensure.lock"
    /\ RealmFree(w)
    /\ IF Present THEN Goto(w, At("ensure.check", {}, None)) ELSE Finish(w)
    /\ UNCHANGED <<realm, keys, signed>>

\* Mutant: the existing key is not looked for.
EnsureCheck_Always(w) ==
    /\ req[w].pc = "ensure.check"
    /\ Goto(w, At("ensure.commit", {}, None))
    /\ UNCHANGED <<realm, keys, signed>>

\* get_active: nothing to add when there is a key.
EnsureCheck(w) ==
    /\ req[w].pc = "ensure.check"
    /\ IF Active = {} THEN Goto(w, At("ensure.commit", {}, None)) ELSE Finish(w)
    /\ UNCHANGED <<realm, keys, signed>>

\* Mutant: the key is added in a transaction of its own, whose foreign key
\* check waits for the realm lock of the import.
EnsureCommit_OwnTransaction(w) ==
    /\ req[w].pc = "ensure.commit"
    /\ \A v \in Worker : req[v].pc \notin RealmHolder
    /\ \E k \in Key : keys[k] = "absent" /\ keys' = [keys EXCEPT ![k] = "active"]
    /\ Finish(w)
    /\ UNCHANGED <<realm, signed>>

EnsureCommit(w) ==
    /\ req[w].pc = "ensure.commit"
    /\ \E k \in Key : keys[k] = "absent" /\ keys' = [keys EXCEPT ![k] = "active"]
    /\ Finish(w)
    /\ UNCHANGED <<realm, signed>>

-----------------------------------------------------------------------------
(* RealmKeyService.rotate_active_key, from the command line.                *)

RotateStart(w) ==
    /\ req[w].pc = "idle" /\ realm = "enabled"
    /\ Goto(w, At("rotate.lock", {}, None))
    /\ UNCHANGED <<realm, keys, signed>>

\* A realm disabled or deleted during the wait is RealmKeyRealmUnavailable.
\* Otherwise the UPDATE of deactivate_active starts, under the lock.
RotateLock(w) ==
    /\ req[w].pc = "rotate.lock"
    /\ RealmFree(w)
    /\ IF realm = "enabled" THEN Goto(w, At("rotate.deactivate", Active, None))
                            ELSE Finish(w)
    /\ UNCHANGED <<realm, keys, signed>>

\* It waits for rows that are being deleted.
RotateDeactivate(w) ==
    /\ req[w].pc = "rotate.deactivate"
    /\ KeysFree(w)
    /\ Goto(w, At("rotate.commit", req[w].seen \cap Active, None))
    /\ UNCHANGED <<realm, keys, signed>>

\* Mutant: the replaced key is deleted, not retained.
RotateCommit_Deletes(w) ==
    /\ req[w].pc = "rotate.commit"
    /\ \E k \in Key :
         /\ keys[k] = "absent"
         /\ keys' = [i \in Key |-> IF i = k THEN "active"
                                   ELSE IF i \in req[w].seen THEN "deleted" ELSE keys[i]]
    /\ Finish(w)
    /\ UNCHANGED <<realm, signed>>

RotateCommit(w) ==
    /\ req[w].pc = "rotate.commit"
    /\ \E k \in Key :
         /\ keys[k] = "absent"
         /\ keys' = [i \in Key |-> IF i = k THEN "active"
                                   ELSE IF i \in req[w].seen THEN "retained" ELSE keys[i]]
    /\ Finish(w)
    /\ UNCHANGED <<realm, signed>>

-----------------------------------------------------------------------------
(* admin_management.delete_realm: the two statements that meet the others.  *)

\* DELETE FROM realm_keys takes its snapshot ...
DeleteStart(w) ==
    /\ req[w].pc = "idle" /\ Present
    /\ Goto(w, At("delete.keys", Stored, None))
    /\ UNCHANGED <<realm, keys, signed>>

\* ... waits for the rows in it, and does not see keys added meanwhile.
DeleteKeys(w) ==
    /\ req[w].pc = "delete.keys"
    /\ KeysFree(w)
    /\ Goto(w, [req[w] EXCEPT !.pc = "delete.realm"])
    /\ UNCHANGED <<realm, keys, signed>>

\* The realm row and the commit; the foreign key refuses it when a key is left.
DeleteRealm(w) ==
    /\ req[w].pc = "delete.realm"
    /\ RealmFree(w)
    /\ IF Present /\ Stored \subseteq req[w].seen
       THEN /\ realm' = "deleted"
            /\ keys' = [k \in Key |-> IF k \in Stored THEN "deleted" ELSE keys[k]]
       ELSE UNCHANGED <<realm, keys>>
    /\ Finish(w)
    /\ UNCHANGED signed

-----------------------------------------------------------------------------
(* TokenService.issue                                                       *)

\* get_active: one statement, no lock; no token without a key.
Sign(w) ==
    /\ req[w].pc = "idle" /\ realm = "enabled"
    /\ \E k \in Active : Goto(w, At("sign.commit", {}, k))
    /\ UNCHANGED <<realm, keys, signed>>

\* The insert of the refresh token: its foreign key waits for FOR UPDATE of the
\* realm, and fails when the realm is gone.
SignCommit(w) ==
    /\ req[w].pc = "sign.commit"
    /\ RealmFree(w)
    /\ signed' = IF Present THEN signed \cup {req[w].key} ELSE signed
    /\ Finish(w)
    /\ UNCHANGED <<realm, keys>>

-----------------------------------------------------------------------------
\* Rotation holds the realm and waits for a key, deletion holds the key and
\* waits for the realm: the database aborts one of them.
Deadlocked(v, w) ==
    /\ req[v].pc = "rotate.deactivate" /\ req[w].pc = "delete.realm"
    /\ req[v].seen \cap req[w].seen # {}

DeadlockAbort(w) ==
    /\ \E v \in Worker : Deadlocked(v, w) \/ Deadlocked(w, v)
    /\ Finish(w)
    /\ UNCHANGED <<realm, keys, signed>>

\* A lost connection, a killed process: rollback.
Fail(w) ==
    /\ req[w].pc \in InFlight
    /\ Finish(w)
    /\ UNCHANGED <<realm, keys, signed>>

\* An import that changes the enabled field of the realm.
SetEnabled ==
    /\ Present
    /\ \A v \in Worker : req[v].pc \notin RealmHolder
    /\ realm' = IF realm = "enabled" THEN "disabled" ELSE "enabled"
    /\ UNCHANGED <<keys, req, signed>>

Proceed(w) ==
    \/ EnsureLock(w) \/ EnsureCheck(w) \/ EnsureCommit(w)
    \/ RotateLock(w) \/ RotateDeactivate(w) \/ RotateCommit(w)
    \/ DeleteKeys(w) \/ DeleteRealm(w) \/ SignCommit(w) \/ DeadlockAbort(w)

Start(w) == EnsureStart(w) \/ RotateStart(w) \/ DeleteStart(w) \/ Sign(w)

Next ==
    \/ \E k \in Key : CreateRealm(k)
    \/ \E w \in Worker : Start(w) \/ Proceed(w) \/ Fail(w)
    \/ SetEnabled

Spec == Init /\ [][Next]_vars

\* Statements execute and lock queues are served in order.
FairSpec == Spec /\ \A w \in Worker : SF_vars(Proceed(w))

-----------------------------------------------------------------------------
(* Properties.                                                              *)

\* Every variable is well formed.
TypeOK ==
    /\ realm \in RealmStatus
    /\ keys \in [Key -> KeyStatus]
    /\ req \in [Worker -> Request]
    /\ signed \subseteq Key

\* A realm with keys has exactly one active key, whatever rotations, imports
\* and deletions are under way: get_active never finds two rows, signing and the
\* readiness probe never find none (lock_realm before every change of active).
OneActiveKey ==
    Present /\ Stored # {} => \E k \in Active : Active = {k}

\* A token keeps verifying after its key was rotated away: the key of every
\* committed token is stored as long as the realm is (rows are retained).
SignedKeysStored == Present => signed \subseteq Stored

\* Every transaction ends: a rotation and a deletion that wait for each other
\* are resolved, and nobody else waits in a circle.
TransactionsEnd ==
    \A w \in Worker : req[w].pc \in InFlight ~>
        (req[w].pc = "idle" \/ \A k \in Key : keys[k] # "absent")

-----------------------------------------------------------------------------
(* The inductive invariant.                                                 *)

\* The realm lock has one holder, and the realm it locked is still there.
LockExclusive ==
    /\ \A v, w \in Worker :
         req[v].pc \in RealmHolder /\ req[w].pc \in RealmHolder => v = w
    /\ \A w \in Worker : req[w].pc \in RealmHolder => Present

\* What was read under the lock still holds: no key to preserve, or the active
\* key in the snapshot of the UPDATE.
LockedReads ==
    \A w \in Worker :
        /\ req[w].pc = "ensure.commit" => Active = {}
        /\ req[w].pc \in {"rotate.deactivate", "rotate.commit"} => req[w].seen = Active

\* A token being issued uses a key that is stored while the realm is.
SigningKeysStored ==
    \A w \in Worker : req[w].pc = "sign.commit" /\ Present => req[w].key \in Stored

\* Keys do not outlive the realm, and none is older than it.
KeysNeedRealm == ~Present => Stored = {}

\* Nothing is done for a realm before it is created.
NothingBefore ==
    realm = "absent" => signed = {} /\ \A w \in Worker : req[w].pc = "idle"

IInv ==
    /\ LockExclusive
    /\ LockedReads
    /\ SigningKeysStored
    /\ KeysNeedRealm
    /\ NothingBefore
    /\ OneActiveKey
    /\ SignedKeysStored
=============================================================================
