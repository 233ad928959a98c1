--------------------------- MODULE RealmKeys_proofs ---------------------------
(* Proofs about RealmKeys, for any number of keys and of transactions. *)
EXTENDS RealmKeys, TLAPS

\* Every action leaves every request but one alone and writes a well-formed one.
LEMMA GotoType ==
    ASSUME TypeOK, NEW w \in Worker, NEW r \in Request, Goto(w, r)
    PROVE  /\ req' \in [Worker -> Request]
           /\ req'[w] = r
           /\ \A v \in Worker \ {w} : req'[v] = req[v]
BY DEF TypeOK, Goto

LEMMA AtType ==
    /\ \A pc \in InFlight, seen \in SUBSET Key, key \in Key \cup {None} :
         At(pc, seen, key) \in Request
    /\ NoRequest \in Request
BY DEF At, NoRequest, Request

\* Rotation and provisioning add one key that was absent.
Rotates(w, k) ==
    /\ keys[k] = "absent"
    /\ keys' = [i \in Key |-> IF i = k THEN "active"
                              ELSE IF i \in req[w].seen THEN "retained" ELSE keys[i]]

LEMMA TypeStep == TypeOK /\ SigningKeysStored /\ [Next]_vars => TypeOK'
<1>. SUFFICES ASSUME TypeOK, SigningKeysStored, [Next]_vars PROVE TypeOK'
  OBVIOUS
<1>. USE AtType, GotoType DEF InFlight, Finish
<1>1. CASE UNCHANGED vars
  BY <1>1 DEF TypeOK, vars
<1>2. ASSUME NEW k \in Key, CreateRealm(k) PROVE TypeOK'
  BY <1>2 DEF TypeOK, CreateRealm, RealmStatus, KeyStatus
<1>3. ASSUME NEW w \in Worker, Start(w) PROVE TypeOK'
  BY <1>3 DEF TypeOK, Start, EnsureStart, RotateStart, DeleteStart, Sign, Stored, Active
<1>4. ASSUME NEW w \in Worker, Fail(w) \/ DeadlockAbort(w) PROVE TypeOK'
  BY <1>4 DEF TypeOK, Fail, DeadlockAbort
<1>5. ASSUME NEW w \in Worker, EnsureLock(w) \/ EnsureCheck(w) PROVE TypeOK'
  BY <1>5 DEF TypeOK, EnsureLock, EnsureCheck
<1>6. ASSUME NEW w \in Worker, EnsureCommit(w) PROVE TypeOK'
  BY <1>6 DEF TypeOK, EnsureCommit, KeyStatus
<1>7. ASSUME NEW w \in Worker, RotateLock(w) \/ RotateDeactivate(w) PROVE TypeOK'
  BY <1>7 DEF TypeOK, RotateLock, RotateDeactivate, Active
<1>8. ASSUME NEW w \in Worker, RotateCommit(w) PROVE TypeOK'
  <2>1. PICK k \in Key : Rotates(w, k)
    BY <1>8 DEF RotateCommit, Rotates
  <2>2. keys' \in [Key -> KeyStatus]
    BY <2>1 DEF Rotates, TypeOK, KeyStatus
  <2>. QED BY <1>8, <2>2 DEF TypeOK, RotateCommit
<1>9. ASSUME NEW w \in Worker, DeleteKeys(w) PROVE TypeOK'
  <2>1. [req[w] EXCEPT !.pc = "delete.realm"] \in Request
    BY DEF TypeOK, Request
  <2>. QED BY <1>9, <2>1 DEF TypeOK, DeleteKeys
<1>10. ASSUME NEW w \in Worker, DeleteRealm(w) PROVE TypeOK'
  BY <1>10 DEF TypeOK, DeleteRealm, RealmStatus, KeyStatus
<1>11. ASSUME NEW w \in Worker, SignCommit(w) PROVE TypeOK'
  <2>1. signed' \subseteq Key
    BY <1>11 DEF SignCommit, TypeOK, SigningKeysStored, Stored
  <2>. QED BY <1>11, <2>1 DEF TypeOK, SignCommit
<1>12. CASE SetEnabled
  BY <1>12 DEF TypeOK, SetEnabled, RealmStatus
<1>. QED BY <1>1, <1>2, <1>3, <1>4, <1>5, <1>6, <1>7, <1>8, <1>9, <1>10, <1>11, <1>12
     DEF Next, Proceed

-----------------------------------------------------------------------------
(* The inductive invariant.                                                 *)

LEMMA InitInv == Init => TypeOK /\ IInv
BY AtType DEF Init, TypeOK, IInv, LockExclusive, LockedReads, SigningKeysStored,
              KeysNeedRealm, NothingBefore, OneActiveKey, SignedKeysStored, Stored, Active,
              RealmStatus, KeyStatus, Request, Present, RealmHolder, NoRequest, At

\* The realm lock is granted when nobody holds it, to one transaction.
LEMMA NextLockExclusive ==
    TypeOK /\ IInv /\ [Next]_vars => LockExclusive'
<1>. SUFFICES ASSUME TypeOK, IInv, [Next]_vars PROVE LockExclusive'
  OBVIOUS
<1>. USE DEF IInv, LockExclusive, RealmHolder, TypeOK, Finish, Goto, NoRequest, At, Present
<1>1. CASE UNCHANGED vars
  BY <1>1 DEF vars
<1>2. ASSUME NEW k \in Key, CreateRealm(k) PROVE LockExclusive'
  BY <1>2 DEF CreateRealm
<1>3. ASSUME NEW w \in Worker, Start(w) PROVE LockExclusive'
  BY <1>3 DEF Start, EnsureStart, RotateStart, DeleteStart, Sign
<1>4. ASSUME NEW w \in Worker, Fail(w) \/ DeadlockAbort(w) PROVE LockExclusive'
  BY <1>4 DEF Fail, DeadlockAbort
<1>5. ASSUME NEW w \in Worker, EnsureLock(w) \/ RotateLock(w) PROVE LockExclusive'
  BY <1>5 DEF EnsureLock, RotateLock, RealmFree
<1>6. ASSUME NEW w \in Worker, EnsureCheck(w) \/ EnsureCommit(w) PROVE LockExclusive'
  BY <1>6 DEF EnsureCheck, EnsureCommit
<1>7. ASSUME NEW w \in Worker, RotateDeactivate(w) \/ RotateCommit(w) PROVE LockExclusive'
  BY <1>7 DEF RotateDeactivate, RotateCommit
<1>8. ASSUME NEW w \in Worker, DeleteKeys(w) \/ DeleteRealm(w) PROVE LockExclusive'
  BY <1>8 DEF DeleteKeys, DeleteRealm, RealmFree, Request
<1>9. ASSUME NEW w \in Worker, SignCommit(w) PROVE LockExclusive'
  BY <1>9 DEF SignCommit
<1>10. CASE SetEnabled
  BY <1>10 DEF SetEnabled
<1>. QED BY <1>1, <1>2, <1>3, <1>4, <1>5, <1>6, <1>7, <1>8, <1>9, <1>10 DEF Next, Proceed

\* The key table changes in four ways.
LEMMA KeyChanges ==
    ASSUME TypeOK, IInv, [Next]_vars
    PROVE  \/ keys' = keys
           \/ \E k \in Key : CreateRealm(k)
           \/ \E w \in Worker : EnsureCommit(w) \/ RotateCommit(w) \/ DeleteRealm(w)
BY DEF Next, Start, Proceed, vars, Fail, DeadlockAbort, EnsureStart, RotateStart, DeleteStart,
       Sign, EnsureLock, EnsureCheck, RotateLock, RotateDeactivate, DeleteKeys, SignCommit,
       SetEnabled

\* What each does to the active and to the stored keys.
LEMMA CreateEffect ==
    ASSUME TypeOK, IInv, NEW k \in Key, CreateRealm(k)
    PROVE  Active' = {k} /\ Stored \subseteq Stored' /\ Active' \subseteq Stored'
BY DEF TypeOK, IInv, KeysNeedRealm, CreateRealm, Active, Stored, Present

LEMMA EnsureEffect ==
    ASSUME TypeOK, IInv, NEW w \in Worker, EnsureCommit(w)
    PROVE  /\ \E k \in Key : Active' = {k}
           /\ Stored \subseteq Stored' /\ realm' = realm /\ Present
<1>1. PICK k \in Key : keys[k] = "absent" /\ keys' = [keys EXCEPT ![k] = "active"]
  BY DEF EnsureCommit
<1>2. Active = {}
  BY DEF IInv, LockedReads, EnsureCommit
<1>3. Active' = {k} /\ Stored \subseteq Stored'
  BY <1>1, <1>2 DEF Active, Stored, TypeOK
<1>. QED BY <1>3 DEF EnsureCommit, IInv, LockExclusive, RealmHolder

LEMMA RotateEffect ==
    ASSUME TypeOK, IInv, NEW w \in Worker, RotateCommit(w)
    PROVE  /\ \E k \in Key : Active' = {k}
           /\ Stored \subseteq Stored' /\ realm' = realm /\ Present
<1>1. PICK k \in Key : Rotates(w, k)
  BY DEF RotateCommit, Rotates
<1>2. req[w].seen = Active
  BY DEF IInv, LockedReads, RotateCommit
<1>3. Active' = {k} /\ Stored \subseteq Stored'
  BY <1>1, <1>2 DEF Rotates, Active, Stored, TypeOK
<1>. QED BY <1>3 DEF RotateCommit, IInv, LockExclusive, RealmHolder

LEMMA DeleteEffect ==
    ASSUME TypeOK, IInv, NEW w \in Worker, DeleteRealm(w)
    PROVE  \/ ~Present' /\ Stored' = {}
           \/ keys' = keys /\ realm' = realm
BY DEF DeleteRealm, Present, Stored, TypeOK

\* Stored keys stay while the realm does.
LEMMA StoredKept ==
    ASSUME TypeOK, IInv, [Next]_vars, Present'
    PROVE  Stored \subseteq Stored'
BY KeyChanges, CreateEffect, EnsureEffect, RotateEffect, DeleteEffect DEF Stored

\* A realm does not come back.
LEMMA PresentBefore ==
    ASSUME TypeOK, [Next]_vars, Present', ~(\E k \in Key : CreateRealm(k))
    PROVE  Present
BY DEF Next, Start, Proceed, vars, Fail, DeadlockAbort, EnsureStart, RotateStart, DeleteStart,
       Sign, EnsureLock, EnsureCheck, EnsureCommit, RotateLock, RotateDeactivate, RotateCommit,
       DeleteKeys, DeleteRealm, SignCommit, SetEnabled, Present

LEMMA NextKeysNeedRealm == TypeOK /\ IInv /\ [Next]_vars => KeysNeedRealm'
<1>. SUFFICES ASSUME TypeOK, IInv, [Next]_vars, ~Present' PROVE Stored' = {}
  BY DEF KeysNeedRealm
<1>1. ASSUME keys' = keys PROVE Stored' = {}
  BY <1>1 DEF Next, Start, Proceed, vars, Fail, DeadlockAbort, EnsureStart, RotateStart,
       DeleteStart, Sign, EnsureLock, EnsureCheck, EnsureCommit, RotateLock, RotateDeactivate,
       RotateCommit, DeleteKeys, DeleteRealm, SignCommit, SetEnabled, Present, CreateRealm,
       IInv, KeysNeedRealm, Stored, TypeOK
<1>2. ASSUME NEW k \in Key, CreateRealm(k) PROVE FALSE
  BY <1>2 DEF CreateRealm, Present
<1>3. ASSUME NEW w \in Worker, EnsureCommit(w) \/ RotateCommit(w) PROVE FALSE
  BY <1>3, EnsureEffect, RotateEffect DEF Present
<1>4. ASSUME NEW w \in Worker, DeleteRealm(w) PROVE Stored' = {}
  BY <1>4, <1>1, DeleteEffect
<1>. QED BY <1>1, <1>2, <1>3, <1>4, KeyChanges

LEMMA NextOneActiveKey == TypeOK /\ IInv /\ [Next]_vars => OneActiveKey'
<1>. SUFFICES ASSUME TypeOK, IInv, [Next]_vars, Present', Stored' # {}
              PROVE  \E k \in Active' : Active' = {k}
  BY DEF OneActiveKey
<1>1. ASSUME keys' = keys PROVE \E k \in Active' : Active' = {k}
  <2>1. Active' = Active /\ Stored' = Stored
    BY <1>1 DEF Active, Stored
  <2>2. Present
    BY <2>1 DEF IInv, KeysNeedRealm
  <2>. QED BY <2>1, <2>2 DEF IInv, OneActiveKey
<1>. QED BY <1>1, KeyChanges, CreateEffect, EnsureEffect, RotateEffect, DeleteEffect

\* Only a holder of the realm lock adds keys, so what was read under it holds.
LEMMA NextLockedReads == TypeOK /\ IInv /\ [Next]_vars => LockedReads'
<1>. SUFFICES ASSUME TypeOK, IInv, [Next]_vars PROVE LockedReads'
  OBVIOUS
<1>. USE DEF RealmHolder, Goto, Finish, NoRequest, At
<1>1. ASSUME keys' = keys PROVE LockedReads'
  <2>1. Active' = Active
    BY <1>1 DEF Active
  <2>2. ASSUME NEW v \in Worker, req'[v] = req[v]
        PROVE  /\ req'[v].pc = "ensure.commit" => Active' = {}
               /\ req'[v].pc \in {"rotate.deactivate", "rotate.commit"}
                    => req'[v].seen = Active'
    BY <2>1, <2>2 DEF IInv, LockedReads
  <2>3. ASSUME NEW w \in Worker, Start(w) \/ Proceed(w) \/ Fail(w)
        PROVE  /\ \A v \in Worker \ {w} : req'[v] = req[v]
               /\ req'[w].pc = "ensure.commit" => Active' = {}
               /\ req'[w].pc \in {"rotate.deactivate", "rotate.commit"}
                    => req'[w].seen = Active'
    <3>1. CASE Start(w) \/ Fail(w) \/ DeadlockAbort(w)
      BY <3>1 DEF Start, EnsureStart, RotateStart, DeleteStart, Sign, Fail, DeadlockAbort, TypeOK
    <3>2. CASE EnsureLock(w) \/ EnsureCheck(w) \/ EnsureCommit(w)
      BY <3>2, <2>1 DEF EnsureLock, EnsureCheck, EnsureCommit, TypeOK
    <3>3. CASE RotateLock(w) \/ RotateDeactivate(w) \/ RotateCommit(w)
      <4>1. req[w].pc = "rotate.deactivate" => req[w].seen \cap Active = Active
        BY DEF IInv, LockedReads
      <4>. QED BY <3>3, <4>1, <2>1 DEF RotateLock, RotateDeactivate, RotateCommit, TypeOK
    <3>4. CASE DeleteKeys(w) \/ DeleteRealm(w) \/ SignCommit(w)
      BY <3>4 DEF DeleteKeys, DeleteRealm, SignCommit, TypeOK, Request
    <3>. QED BY <2>3, <3>1, <3>2, <3>3, <3>4 DEF Proceed
  <2>4. ASSUME NEW k \in Key, CreateRealm(k) \/ SetEnabled \/ UNCHANGED vars
        PROVE  LockedReads'
    BY <2>4, <2>2 DEF CreateRealm, SetEnabled, vars, LockedReads
  <2>5. CASE SetEnabled \/ UNCHANGED vars
    BY <2>5, <2>2 DEF SetEnabled, vars, LockedReads
  <2>. QED BY <2>2, <2>3, <2>4, <2>5 DEF Next, LockedReads
<1>2. ASSUME NEW k \in Key, CreateRealm(k) PROVE LockedReads'
  BY <1>2 DEF CreateRealm, LockedReads, IInv, LockExclusive, Present
<1>3. ASSUME NEW w \in Worker, EnsureCommit(w) \/ RotateCommit(w) PROVE LockedReads'
  <2>1. \A v \in Worker \ {w} : req'[v] = req[v] /\ req[v].pc \notin RealmHolder
    BY <1>3 DEF EnsureCommit, RotateCommit, TypeOK, IInv, LockExclusive
  <2>2. req'[w].pc = "idle"
    BY <1>3 DEF EnsureCommit, RotateCommit, TypeOK
  <2>. QED BY <2>1, <2>2 DEF LockedReads
<1>4. ASSUME NEW w \in Worker, DeleteRealm(w) PROVE LockedReads'
  <2>1. \A v \in Worker \ {w} : req'[v] = req[v] /\ req[v].pc \notin RealmHolder
    BY <1>4 DEF DeleteRealm, RealmFree, TypeOK
  <2>2. req'[w].pc = "idle"
    BY <1>4 DEF DeleteRealm, TypeOK
  <2>. QED BY <2>1, <2>2 DEF LockedReads
<1>. QED BY <1>1, <1>2, <1>3, <1>4, KeyChanges

LEMMA NextNothingBefore == TypeOK /\ IInv /\ [Next]_vars => NothingBefore'
<1>. SUFFICES ASSUME TypeOK, IInv, [Next]_vars, realm' = "absent"
              PROVE  signed' = {} /\ \A w \in Worker : req'[w].pc = "idle"
  BY DEF NothingBefore
<1>. USE DEF IInv, NothingBefore, InFlight
<1>1. CASE UNCHANGED vars
  BY <1>1 DEF vars
<1>2. ASSUME NEW k \in Key, CreateRealm(k) PROVE FALSE
  BY <1>2 DEF CreateRealm
<1>3. ASSUME NEW w \in Worker, Start(w) PROVE FALSE
  BY <1>3 DEF Start, EnsureStart, RotateStart, DeleteStart, Sign, Present
<1>4. ASSUME NEW w \in Worker, Proceed(w) \/ Fail(w) PROVE FALSE
  <2>1. req[w].pc # "idle"
    BY <1>4 DEF Proceed, EnsureLock, EnsureCheck, EnsureCommit, RotateLock, RotateDeactivate,
           RotateCommit, DeleteKeys, DeleteRealm, SignCommit, DeadlockAbort, Deadlocked, Fail
  <2>2. realm = "absent"
    BY <1>4 DEF Proceed, EnsureLock, EnsureCheck, EnsureCommit, RotateLock, RotateDeactivate,
           RotateCommit, DeleteKeys, DeleteRealm, SignCommit, DeadlockAbort, Fail
  <2>. QED BY <2>1, <2>2
<1>5. CASE SetEnabled
  BY <1>5 DEF SetEnabled
<1>. QED BY <1>1, <1>2, <1>3, <1>4, <1>5 DEF Next

\* A key that signs was active, and active keys are only ever retained.
LEMMA NextSigned ==
    TypeOK /\ IInv /\ [Next]_vars => SigningKeysStored' /\ SignedKeysStored'
<1>. SUFFICES ASSUME TypeOK, IInv, [Next]_vars, Present'
              PROVE  /\ \A w \in Worker : req'[w].pc = "sign.commit" => req'[w].key \in Stored'
                     /\ signed' \subseteq Stored'
  BY DEF SigningKeysStored, SignedKeysStored
<1>0. Stored \subseteq Stored'
  BY StoredKept
<1>1. ASSUME NEW k \in Key, CreateRealm(k)
      PROVE  req' = req /\ signed' = {} /\ \A w \in Worker : req'[w].pc = "idle"
  BY <1>1 DEF CreateRealm, IInv, NothingBefore
<1>2. CASE Present
  <2>1. signed \subseteq Stored' /\ \A w \in Worker :
            req[w].pc = "sign.commit" => req[w].key \in Stored'
    BY <1>0, <1>2 DEF IInv, SigningKeysStored, SignedKeysStored
  <2>2. signed' \subseteq Stored'
    <3>1. ASSUME NEW w \in Worker, SignCommit(w) PROVE signed' \subseteq Stored'
      BY <3>1, <2>1 DEF SignCommit
    <3>. QED BY <3>1, <2>1, <1>1
         DEF Next, Start, Proceed, vars, Fail, DeadlockAbort, EnsureStart, RotateStart,
             DeleteStart, Sign, EnsureLock, EnsureCheck, EnsureCommit, RotateLock,
             RotateDeactivate, RotateCommit, DeleteKeys, DeleteRealm, SetEnabled
  <2>3. ASSUME NEW v \in Worker, req'[v].pc = "sign.commit"
        PROVE  req'[v] = req[v] \/ req'[v].key \in Active
    <3>. USE DEF Goto, Finish, NoRequest, At, TypeOK
    <3>1. ASSUME NEW w \in Worker, Start(w) PROVE req'[v] = req[v] \/ req'[v].key \in Active
      BY <2>3, <3>1 DEF Start, EnsureStart, RotateStart, DeleteStart, Sign
    <3>2. ASSUME NEW w \in Worker, Proceed(w) \/ Fail(w) PROVE req'[v] = req[v]
      BY <2>3, <3>2 DEF Proceed, EnsureLock, EnsureCheck, EnsureCommit, RotateLock,
             RotateDeactivate, RotateCommit, DeleteKeys, DeleteRealm, SignCommit,
             DeadlockAbort, Fail, Request
    <3>. QED BY <3>1, <3>2 DEF Next, CreateRealm, SetEnabled, vars
  <2>. QED BY <1>0, <2>1, <2>2, <2>3 DEF Active, Stored
<1>3. CASE ~Present
  BY <1>1, <1>3, PresentBefore
<1>. QED BY <1>2, <1>3

-----------------------------------------------------------------------------
(* The theorems.                                                            *)

\* The realm lock and what is read under it keep the keys consistent: the
\* inductive invariant of lock_realm, ensure_active_key, rotate_active_key and
\* delete_realm.
THEOREM Invariance == Spec => [](TypeOK /\ IInv)
<1>1. TypeOK /\ IInv /\ [Next]_vars => TypeOK' /\ IInv'
  BY TypeStep, NextLockExclusive, NextLockedReads, NextKeysNeedRealm, NextNothingBefore,
     NextOneActiveKey, NextSigned DEF IInv
<1>. QED BY <1>1, InitInv, PTL DEF Spec

\* The key table and the transactions stay well formed (models/identity.py RealmKey).
THEOREM TypeCorrect == Spec => []TypeOK
BY Invariance, PTL

\* For any number of concurrent rotations, imports and deletions a realm with
\* keys has exactly one active key (repositories/keys.py get_active).
THEOREM OneActiveKeyAlways == Spec => []OneActiveKey
<1>1. IInv => OneActiveKey
  BY DEF IInv
<1>. QED BY <1>1, Invariance, PTL

\* Rotation never makes a committed token unverifiable (list_verification_keys).
THEOREM TokensKeepVerifying == Spec => []SignedKeysStored
<1>1. IInv => SignedKeysStored
  BY DEF IInv
<1>. QED BY <1>1, Invariance, PTL

-----------------------------------------------------------------------------
(* The promise behind the locks.                                            *)

Ring == INSTANCE KeyRing

\* A realm is neither disabled nor deleted while its key is rotated.
RotatesEnabled ==
    \A w \in Worker :
        req[w].pc \in {"rotate.deactivate", "rotate.commit"} => realm = "enabled"

LEMMA NextRotatesEnabled ==
    TypeOK /\ IInv /\ RotatesEnabled /\ [Next]_vars => RotatesEnabled'
<1>. SUFFICES ASSUME TypeOK, IInv, RotatesEnabled, [Next]_vars PROVE RotatesEnabled'
  OBVIOUS
<1>. USE DEF RotatesEnabled
<1>1. CASE UNCHANGED vars
  BY <1>1 DEF vars
<1>2. ASSUME NEW k \in Key, CreateRealm(k) PROVE RotatesEnabled'
  BY <1>2 DEF CreateRealm
<1>3. ASSUME NEW w \in Worker, UNCHANGED realm,
             req'[w].pc \in {"rotate.deactivate", "rotate.commit"} => realm = "enabled",
             \A v \in Worker \ {w} : req'[v] = req[v]
      PROVE  RotatesEnabled'
  BY <1>3
<1>4. ASSUME NEW w \in Worker, NEW r, Goto(w, r)
      PROVE  req'[w] = r /\ \A v \in Worker \ {w} : req'[v] = req[v]
  BY <1>4 DEF Goto, TypeOK
<1>5. ASSUME NEW w \in Worker, Start(w) \/ Fail(w) PROVE RotatesEnabled'
  BY <1>3, <1>4, <1>5 DEF Start, EnsureStart, RotateStart, DeleteStart, Sign, Fail, Finish, At,
                          NoRequest
<1>6. ASSUME NEW w \in Worker,
             EnsureLock(w) \/ EnsureCheck(w) \/ EnsureCommit(w) \/ SignCommit(w) \/ DeadlockAbort(w)
      PROVE  RotatesEnabled'
  BY <1>3, <1>4, <1>6 DEF EnsureLock, EnsureCheck, EnsureCommit, SignCommit, DeadlockAbort, Finish,
                          At, NoRequest
<1>7. ASSUME NEW w \in Worker, RotateLock(w) \/ RotateDeactivate(w) \/ RotateCommit(w)
      PROVE  RotatesEnabled'
  BY <1>3, <1>4, <1>7 DEF RotateLock, RotateDeactivate, RotateCommit, Finish, At, NoRequest
<1>8. ASSUME NEW w \in Worker, DeleteKeys(w) PROVE RotatesEnabled'
  BY <1>3, <1>4, <1>8 DEF DeleteKeys, TypeOK, Request
<1>9. ASSUME NEW w \in Worker, DeleteRealm(w) PROVE RotatesEnabled'
  <2>1. \A v \in Worker : req'[v] = req[v] \/ req'[v] = NoRequest
    BY <1>4, <1>9 DEF DeleteRealm, Finish
  <2>2. \A v \in Worker : req[v].pc \notin {"rotate.deactivate", "rotate.commit"}
    BY <1>9 DEF DeleteRealm, RealmFree, RealmHolder
  <2>. QED BY <2>1, <2>2 DEF NoRequest, At
<1>10. CASE SetEnabled
  BY <1>10 DEF SetEnabled, RealmHolder
<1>. QED BY <1>1, <1>2, <1>5, <1>6, <1>7, <1>8, <1>9, <1>10 DEF Next, Proceed

LEMMA SameSets == Ring!Active = Active /\ Ring!Stored = Stored /\ (Ring!Open <=> Present)
BY DEF Ring!Active, Active, Ring!Stored, Stored, Ring!Open, Present

\* Every commit is one change of the ring, and nothing else of a transaction shows.
LEMMA RingStep ==
    TypeOK /\ IInv /\ RotatesEnabled /\ [Next]_vars => [Ring!Next]_(Ring!ring)
<1>. SUFFICES ASSUME TypeOK, IInv, RotatesEnabled, [Next]_vars
              PROVE  Ring!Next \/ UNCHANGED <<realm, keys, signed>>
  BY DEF Ring!ring
<1>1. ASSUME NEW k \in Key, CreateRealm(k) PROVE Ring!Create(k)
  BY <1>1 DEF CreateRealm, Ring!Create
<1>2. ASSUME NEW w \in Worker, EnsureCommit(w) PROVE \E k \in Key : Ring!Provision(k)
  <2>1. Present /\ Stored = {}
    BY <1>2 DEF EnsureCommit, IInv, LockExclusive, RealmHolder, LockedReads, OneActiveKey
  <2>2. PICK k \in Key : keys[k] = "absent" /\ keys' = [keys EXCEPT ![k] = "active"]
    BY <1>2 DEF EnsureCommit
  <2>. QED BY <1>2, <2>1, <2>2, SameSets DEF EnsureCommit, Ring!Provision
<1>3. ASSUME NEW w \in Worker, RotateCommit(w) PROVE \E k \in Key : Ring!Rotate(k)
  <2>1. realm = "enabled" /\ req[w].seen = Active
    BY <1>3 DEF RotateCommit, RotatesEnabled, IInv, LockedReads
  <2>2. PICK k \in Key : Rotates(w, k)
    BY <1>3 DEF RotateCommit, Rotates
  <2>. QED BY <1>3, <2>1, <2>2, SameSets DEF RotateCommit, Rotates, Ring!Rotate
<1>4. ASSUME NEW w \in Worker, DeleteRealm(w)
      PROVE  Ring!Delete \/ UNCHANGED <<realm, keys, signed>>
  BY <1>4, SameSets DEF DeleteRealm, Ring!Delete
<1>5. ASSUME NEW w \in Worker, SignCommit(w)
      PROVE  (\E k \in Key : Ring!Issue(k)) \/ UNCHANGED <<realm, keys, signed>>
  <2>1. CASE Present
    <3>1. req[w].key \in Stored /\ signed' = signed \cup {req[w].key}
      BY <1>5, <2>1 DEF SignCommit, IInv, SigningKeysStored
    <3>2. req[w].key \in Key
      BY <3>1 DEF Stored
    <3>. QED BY <1>5, <2>1, <3>1, <3>2, SameSets DEF SignCommit, Ring!Issue
  <2>2. CASE ~Present
    BY <1>5, <2>2 DEF SignCommit
  <2>. QED BY <2>1, <2>2
<1>6. CASE SetEnabled
  BY <1>6, SameSets DEF SetEnabled, Ring!SetEnabled, Ring!Next
<1>7. ASSUME NEW w \in Worker,
             \/ Start(w) \/ Fail(w) \/ EnsureLock(w) \/ EnsureCheck(w) \/ RotateLock(w)
             \/ RotateDeactivate(w) \/ DeleteKeys(w) \/ DeadlockAbort(w)
      PROVE  UNCHANGED <<realm, keys, signed>>
  BY <1>7 DEF Start, EnsureStart, RotateStart, DeleteStart, Sign, Fail, EnsureLock, EnsureCheck,
              RotateLock, RotateDeactivate, DeleteKeys, DeadlockAbort
<1>8. CASE UNCHANGED vars
  BY <1>8 DEF vars
<1>. QED BY <1>1, <1>2, <1>3, <1>4, <1>5, <1>6, <1>7, <1>8 DEF Next, Proceed, Ring!Next

\* The committed rows are a key ring: whatever transactions interleave, wait and are
\* rolled back, each commit is one whole change that finds the ring as it was left, or
\* does not show (lock_realm, and the foreign keys of realm_keys and refresh_tokens).
THEOREM TablesAreAKeyRing == Spec => Ring!Spec
<1>1. Init => Ring!Init /\ RotatesEnabled
  BY DEF Init, Ring!Init, RotatesEnabled, NoRequest, At
<1>2. Spec => []RotatesEnabled
  BY <1>1, NextRotatesEnabled, Invariance, PTL DEF Spec
<1>. QED BY <1>1, <1>2, RingStep, Invariance, PTL DEF Spec, Ring!Spec

-----------------------------------------------------------------------------
(* Who waits for whom.                                                      *)

\* Transactions that hold a lock which the next statement of w needs.
Blockers(w) ==
    {v \in Worker \ {w} :
        \/ /\ req[w].pc \in {"ensure.lock", "rotate.lock", "delete.realm", "sign.commit"}
           /\ req[v].pc \in RealmHolder
        \/ /\ req[w].pc \in {"rotate.deactivate", "delete.keys"}
           /\ req[v].pc \in {"rotate.commit", "delete.realm"}
           /\ req[v].seen \cap req[w].seen # {}}

\* The guards of the statements wait for exactly these.
LEMMA BlockersAreGuards ==
    ASSUME NEW w \in Worker
    PROVE  /\ req[w].pc \in {"ensure.lock", "rotate.lock", "delete.realm", "sign.commit"}
                => (RealmFree(w) <=> Blockers(w) = {})
           /\ req[w].pc \in {"rotate.deactivate", "delete.keys"}
                => (KeysFree(w) <=> Blockers(w) = {})
BY DEF Blockers, RealmFree, KeysFree

\* How far a transaction is from letting go of its locks.
Distance(pc) ==
    IF pc \in {"ensure.lock", "rotate.lock", "delete.keys", "sign.commit"} THEN 3
    ELSE IF pc = "delete.realm" THEN 2
    ELSE IF pc = "rotate.deactivate" THEN 1
    ELSE 0

\* Everybody waits for somebody nearer to the end, but for a rotation that waits for a
\* deletion of its key.
WaitsInOrder ==
    \A w \in Worker : \A v \in Blockers(w) :
        Distance(req[v].pc) < Distance(req[w].pc) \/ Deadlocked(w, v)

\* lock_realm, deactivate_active and delete_realm: along a chain of waiting transactions,
\* of whatever kinds and however long, the distance falls until it meets a pair that
\* Deadlocked names, so the detector is needed for no other circle.
THEOREM OnlyNamedPairsDeadlock == Spec => []WaitsInOrder
<1>1. TypeOK /\ IInv => WaitsInOrder
  <2>. SUFFICES ASSUME TypeOK, IInv, NEW w \in Worker, NEW v \in Blockers(w)
                PROVE  Distance(req[v].pc) < Distance(req[w].pc) \/ Deadlocked(w, v)
    BY DEF WaitsInOrder
  <2>1. v \in Worker /\ v # w
    BY DEF Blockers
  <2>2. CASE /\ req[w].pc \in {"ensure.lock", "rotate.lock", "delete.realm", "sign.commit"}
             /\ req[v].pc \in RealmHolder
    BY <2>2 DEF Distance, RealmHolder
  <2>3. CASE /\ req[w].pc \in {"rotate.deactivate", "delete.keys"}
             /\ req[v].pc \in {"rotate.commit", "delete.realm"}
             /\ req[v].seen \cap req[w].seen # {}
    <3>1. CASE req[w].pc = "delete.keys"
      BY <2>3, <3>1 DEF Distance
    <3>2. CASE req[w].pc = "rotate.deactivate" /\ req[v].pc = "delete.realm"
      BY <2>3, <3>2 DEF Deadlocked
    <3>3. CASE req[w].pc = "rotate.deactivate" /\ req[v].pc = "rotate.commit"
      BY <2>1, <3>3 DEF IInv, LockExclusive, RealmHolder
    <3>. QED BY <2>3, <3>1, <3>2, <3>3
  <2>. QED BY <2>2, <2>3 DEF Blockers
<1>. QED BY <1>1, Invariance, PTL

\* As long as transactions are under way, one of them can execute its next statement, or
\* two of them are such a pair.
SomeoneGoesOn ==
    (\E w \in Worker : req[w].pc \in InFlight) =>
        \E w \in Worker :
            /\ req[w].pc \in InFlight
            /\ Blockers(w) = {} \/ \E v \in Worker : Deadlocked(w, v)

\* Rotations, imports, deletions and token requests together never come to a standstill
\* that the database cannot see.
THEOREM TransactionsGoOn == Spec => []SomeoneGoesOn
<1>1. TypeOK /\ IInv => SomeoneGoesOn
  <2>. SUFFICES ASSUME TypeOK, IInv, NEW w \in Worker, req[w].pc \in InFlight
                PROVE  \E u \in Worker :
                         /\ req[u].pc \in InFlight
                         /\ Blockers(u) = {} \/ \E v \in Worker : Deadlocked(u, v)
    BY DEF SomeoneGoesOn
  <2>1. CASE \E h \in Worker : req[h].pc \in RealmHolder
    <3>1. PICK h \in Worker : req[h].pc \in RealmHolder
      BY <2>1
    <3>2. CASE req[h].pc # "rotate.deactivate"
      BY <3>1, <3>2 DEF Blockers, RealmHolder, InFlight
    <3>3. CASE req[h].pc = "rotate.deactivate"
      <4>1. \A v \in Worker \ {h} : req[v].pc # "rotate.commit"
        BY <3>3 DEF IInv, LockExclusive, RealmHolder
      <4>2. Blockers(h) = {} \/ \E v \in Worker : Deadlocked(h, v)
        BY <3>3, <4>1 DEF Blockers, Deadlocked
      <4>. QED BY <3>3, <4>2 DEF InFlight
    <3>. QED BY <3>2, <3>3
  <2>2. CASE \A h \in Worker : req[h].pc \notin RealmHolder
    <3>1. \A u \in Worker : req[u].pc # "delete.keys" => Blockers(u) = {}
      BY <2>2 DEF Blockers, RealmHolder
    <3>2. \A v \in Blockers(w) : v \in Worker /\ req[v].pc = "delete.realm"
      BY <2>2 DEF Blockers, RealmHolder
    <3>. QED BY <3>1, <3>2 DEF InFlight
  <2>. QED BY <2>1, <2>2
<1>. QED BY <1>1, Invariance, PTL
=============================================================================
