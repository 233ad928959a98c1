-------------------------- MODULE LoginThrottle_proofs --------------------------
(***************************************************************************)
(* Proofs about LoginThrottle for every number of requests, threshold,     *)
(* window, lock and length of time: a block appears exactly at the         *)
(* threshold, nobody but a success that was checked earlier ends it, and a *)
(* request checks at most one password while it is in force.               *)
(***************************************************************************)
EXTENDS LoginThrottle, TLAPS

\* What every row written by record_failure has in common.
LEMMA CountedFacts ==
    ASSUME NEW count \in Nat, NEW first \in Time, NEW now \in Time
    PROVE  /\ Counted(count, first, now) \in Row
           /\ Counted(count, first, now) # NoRow
           /\ Counted(count, first, now).count = count
           /\ Counted(count, first, now).blocked =
                IF count >= Threshold THEN now + Lock ELSE None
           /\ Counted(count, first, now).expires \in Nat
           /\ Counted(count, first, now).expires >= now + Lock
  <1> DEFINE e == now + Greater(Window, Lock)
  <1>1. e \in Nat /\ e >= now + Lock
    BY ConfigAssumption DEF Greater, Time
  <1>2. (IF count >= Threshold THEN now + Lock ELSE None) \in Time \cup {None}
    BY ConfigAssumption DEF Time
  <1>3. Counted(count, first, now) \in Row
    BY <1>1, <1>2 DEF Counted, Row, Time
  <1>4. Counted(count, first, now) # NoRow
    BY <1>3, NoneAssumption DEF NoRow
  <1> QED
    BY <1>1, <1>3, <1>4 DEF Counted

\* A row is as the count says when it is counted once, or once more than a row
\* that has no block.
LEMMA CountedShape ==
    ASSUME NEW count \in 1 .. Threshold, NEW first \in Time, NEW now \in Time,
           NEW b, b = Counted(count, first, now)
    PROVE  /\ b \in Row /\ b # NoRow
           /\ b.count \in 1 .. Threshold
           /\ b.blocked # None <=> b.count = Threshold
           /\ b.blocked # None => b.blocked <= b.expires
  <1>1. count \in Nat /\ Threshold \in Nat /\ count <= Threshold
    BY ConfigAssumption
  <1>2. now + Lock \in Time
    BY ConfigAssumption DEF Time
  <1>3. now + Lock # None
    BY <1>2, NoneAssumption
  <1>4. b \in Row /\ b # NoRow /\ b.count = count /\ b.expires >= now + Lock /\ b.expires \in Nat
    BY <1>1, CountedFacts
  <1>5. b.blocked = IF count >= Threshold THEN now + Lock ELSE None
    BY <1>1, CountedFacts
  <1>6. CASE count = Threshold
    BY <1>1, <1>2, <1>3, <1>4, <1>5, <1>6 DEF Time
  <1>7. CASE count # Threshold
    <2>1. b.blocked = None
      BY <1>1, <1>5, <1>7
    <2> QED BY <1>1, <1>4, <1>7, <2>1
  <1> QED BY <1>6, <1>7

\* record_failure returns to a bucket the shape the invariant asks for.
LEMMA UpsertShape ==
    ASSUME TypeOK, BlockAtThreshold, BlockWithinExpiry,
           NEW now \in Time, NEW b, b = Upsert(now)
    PROVE  /\ b \in Row /\ b # NoRow
           /\ b.count \in 1 .. Threshold
           /\ b.blocked # None <=> b.count = Threshold
           /\ b.blocked # None => b.blocked <= b.expires
  <1>1. 1 \in 1 .. Threshold
    BY ConfigAssumption
  <1>2. CASE bucket = NoRow
    <2>1. b = Counted(1, now, now)
      BY <1>2 DEF Upsert
    <2> QED BY <1>1, <2>1, CountedShape
  <1>3. CASE bucket # NoRow
    <2>1. bucket \in Row
      BY <1>3 DEF TypeOK
    <2>2. CASE bucket.blocked # None /\ bucket.blocked > now
      <3>1. b = bucket
        BY <1>3, <2>2 DEF Upsert
      <3> QED BY <1>3, <2>1, <3>1 DEF BlockAtThreshold, BlockWithinExpiry
    <2>3. CASE ~(bucket.blocked # None /\ bucket.blocked > now) /\ StartsOver(now)
      <3>1. b = Counted(1, now, now)
        BY <1>3, <2>3 DEF Upsert
      <3> QED BY <1>1, <3>1, CountedShape
    <2>4. CASE ~(bucket.blocked # None /\ bucket.blocked > now) /\ ~StartsOver(now)
      <3>1. b = Counted(bucket.count + 1, bucket.first, now)
        BY <1>3, <2>4 DEF Upsert
      <3>2. bucket.count \in Nat /\ bucket.first \in Time /\ bucket.blocked \in Time \cup {None}
        BY <2>1 DEF Row
      <3>3. bucket.blocked = None
        BY <2>4, <3>2 DEF StartsOver, Time
      <3>4. bucket.count + 1 \in 1 .. Threshold
        BY <1>3, <3>2, <3>3, ConfigAssumption DEF BlockAtThreshold
      <3> QED BY <3>1, <3>2, <3>4, CountedShape
    <2> QED BY <2>2, <2>3, <2>4
  <1> QED BY <1>2, <1>3

\* A failure that comes before the end of the block leaves the bucket alone.
LEMMA UpsertKeepsBlock ==
    ASSUME TypeOK, InForce, NEW now \in Time, now <= clock
    PROVE  Upsert(now) = bucket
  <1>1. bucket \in Row
    BY DEF TypeOK, InForce
  <1>2. bucket.blocked \in Time
    BY <1>1 DEF Row, InForce
  <1>3. bucket.blocked > now
    BY <1>2 DEF InForce, TypeOK, Time
  <1> QED BY <1>3 DEF Upsert, InForce

-----------------------------------------------------------------------------
\* Moving one request keeps the requests well formed.
LEMMA RequestsTyped ==
    ASSUME NEW w \in Worker, req \in [Worker -> Request],
           NEW pc \in {"idle", "verify", "record", "clear"}, NEW now \in Time,
           Goto(w, pc, now)
    PROVE  /\ req' \in [Worker -> Request]
           /\ \A v \in Worker : req'[v].pc = IF v = w THEN pc ELSE req[v].pc
  <1>1. [pc |-> pc, now |-> now] \in Request
    BY DEF Request
  <1> QED BY <1>1 DEF Goto

LEMMA NextTyped ==
    ASSUME TypeOK, IInv, [Next]_vars
    PROVE  TypeOK'
  <1> USE DEF TypeOK
  <1>0. 0 \in Time /\ clock \in Time
    BY DEF Time
  <1>1. ASSUME NEW w \in Worker, Arrive(w) PROVE TypeOK'
    BY <1>0, <1>1, RequestsTyped DEF Arrive
  <1>2. ASSUME NEW w \in Worker, Verify(w) PROVE TypeOK'
    <2>1. req' \in [Worker -> Request]
      BY <1>0, <1>2, RequestsTyped DEF Verify
    <2> QED BY <1>2, <2>1 DEF Verify
  <1>3. ASSUME NEW w \in Worker, Record(w) PROVE TypeOK'
    <2>1. PICK now \in req[w].now .. clock : bucket' = Upsert(now)
      BY <1>3 DEF Record
    <2>2. now \in Time
      BY <2>1 DEF Request, Time
    <2>3. bucket' \in Row
      BY <2>1, <2>2, UpsertShape DEF IInv
    <2>4. req' \in [Worker -> Request]
      BY <1>0, <1>3, RequestsTyped DEF Record
    <2>5. late' \subseteq Worker /\ clock' = clock
      BY <1>3 DEF Record
    <2> QED BY <2>3, <2>4, <2>5
  <1>4. ASSUME NEW w \in Worker, Clear(w) PROVE TypeOK'
    BY <1>0, <1>4, RequestsTyped DEF Clear
  <1>5. ASSUME NEW w \in Worker, Fail(w) PROVE TypeOK'
    BY <1>0, <1>5, RequestsTyped DEF Fail
  <1>6. CASE Clean
    BY <1>6 DEF Clean
  <1>7. CASE Tick
    BY <1>7 DEF Tick, Time
  <1>8. CASE UNCHANGED vars
    BY <1>8 DEF vars
  <1> QED BY <1>1, <1>2, <1>3, <1>4, <1>5, <1>6, <1>7, <1>8 DEF Next

\* Only record_failure gives the bucket a new content.
LEMMA BucketChanges ==
    ASSUME [Next]_vars
    PROVE  \/ bucket' = bucket
           \/ bucket' = NoRow
           \/ \E w \in Worker : Record(w)
  BY DEF Next, vars, Arrive, Verify, Clear, Fail, Clean, Tick

LEMMA NextShape ==
    ASSUME TypeOK, IInv, [Next]_vars
    PROVE  BlockAtThreshold' /\ BlockWithinExpiry'
  <1>1. CASE bucket' = bucket
    BY <1>1 DEF IInv, BlockAtThreshold, BlockWithinExpiry
  <1>2. CASE bucket' = NoRow
    BY <1>2 DEF BlockAtThreshold, BlockWithinExpiry, NoRow
  <1>3. ASSUME NEW w \in Worker, Record(w)
        PROVE  BlockAtThreshold' /\ BlockWithinExpiry'
    <2>1. PICK now \in req[w].now .. clock : bucket' = Upsert(now)
      BY <1>3 DEF Record
    <2>2. now \in Time
      BY <2>1 DEF TypeOK, Request, Time
    <2>3. /\ bucket'.count \in 1 .. Threshold
          /\ bucket'.blocked # None <=> bucket'.count = Threshold
          /\ bucket'.blocked # None => bucket'.blocked <= bucket'.expires
      BY <2>1, <2>2, UpsertShape DEF IInv
    <2> QED BY <2>3 DEF BlockAtThreshold, BlockWithinExpiry
  <1> QED BY <1>1, <1>2, <1>3, BucketChanges

\* A block is not ended by a failure, by the cleanup command or by anything but
\* a success.
LEMMA NextKeepsBlock ==
    ASSUME TypeOK, IInv, [Next]_vars
    PROVE  BlockUntouched
  <1> SUFFICES ASSUME InForce, bucket' # bucket
               PROVE  \E w \in Worker : req[w].pc = "clear" /\ req'[w].pc = "idle" /\ bucket' = NoRow
    BY DEF BlockUntouched
  <1>1. ASSUME NEW w \in Worker, Record(w) PROVE FALSE
    <2>1. PICK now \in req[w].now .. clock : bucket' = Upsert(now)
      BY <1>1 DEF Record
    <2>2. now \in Time /\ now <= clock
      BY <2>1 DEF TypeOK, Request, Time
    <2> QED BY <2>1, <2>2, UpsertKeepsBlock
  <1>2. ASSUME Clean PROVE FALSE
    <2>1. PICK cutoff \in 0 .. clock : bucket.expires <= cutoff
      BY <1>2 DEF Clean
    <2>2. bucket \in Row /\ bucket.blocked \in Nat /\ bucket.expires \in Nat /\ clock \in Nat
      BY DEF TypeOK, InForce, Row, Time
    <2>3. bucket.blocked <= bucket.expires /\ bucket.blocked > clock
      BY DEF IInv, BlockWithinExpiry, InForce
    <2> QED BY <2>1, <2>2, <2>3
  <1>3. ASSUME NEW w \in Worker, Clear(w)
        PROVE  req[w].pc = "clear" /\ req'[w].pc = "idle" /\ bucket' = NoRow
    <2>1. 0 \in Time
      BY DEF Time
    <2> QED BY <1>3, <2>1, RequestsTyped DEF Clear, TypeOK
  <1>4. Clean \/ \E w \in Worker : Record(w) \/ Clear(w)
    BY DEF Next, vars, Arrive, Verify, Fail, Tick
  <1> QED BY <1>1, <1>2, <1>3, <1>4

\* A request that goes on to check a password while the block is in force has
\* not checked one since the bucket last changed.
LEMMA NextLate ==
    ASSUME TypeOK, IInv, [Next]_vars
    PROVE  OneLateCheck'
  <1> SUFFICES ASSUME NEW v \in Worker, req'[v].pc = "verify", InForce', v \in late'
               PROVE  FALSE
    BY DEF OneLateCheck
  <1>0. 0 \in Time
    BY DEF Time
  <1>a. req \in [Worker -> Request] /\ clock \in Time
    BY DEF TypeOK
  <1>b. ~(req[v].pc = "verify" /\ InForce /\ v \in late)
    BY DEF IInv, OneLateCheck
  <1>1. ASSUME NEW w \in Worker, Arrive(w) PROVE FALSE
    <2>1. late' = late /\ bucket' = bucket /\ clock' = clock /\ ~Blocked(clock)
      BY <1>1 DEF Arrive
    <2> QED BY <2>1 DEF Blocked, InForce
  <1>2. ASSUME NEW w \in Worker, Verify(w) PROVE FALSE
    <2>1. PICK pc \in {"clear", "record"}, now \in Time : Goto(w, pc, now)
      BY <1>0, <1>2, <1>a DEF Verify
    <2>2. \A u \in Worker : req'[u].pc = IF u = w THEN pc ELSE req[u].pc
      BY <1>a, <2>1, RequestsTyped
    <2>3. v # w /\ req[v].pc = "verify"
      BY <2>2
    <2>4. bucket' = bucket /\ clock' = clock /\ late' \subseteq late \cup {w}
      BY <1>2 DEF Verify
    <2> QED BY <1>b, <2>3, <2>4 DEF InForce
  <1>3. ASSUME NEW w \in Worker, Record(w) PROVE FALSE
    <2>1. req'[v].pc = IF v = w THEN "idle" ELSE req[v].pc
      BY <1>0, <1>3, <1>a, RequestsTyped DEF Record
    <2>2. late' = late /\ bucket' = bucket /\ clock' = clock
      BY <1>3 DEF Record
    <2> QED BY <1>b, <2>1, <2>2 DEF InForce
  <1>4. ASSUME NEW w \in Worker, Clear(w) PROVE FALSE
    BY <1>4 DEF Clear
  <1>5. ASSUME NEW w \in Worker, Fail(w) PROVE FALSE
    <2>1. req'[v].pc = IF v = w THEN "idle" ELSE req[v].pc
      BY <1>0, <1>5, <1>a, RequestsTyped DEF Fail
    <2>2. late' = late /\ bucket' = bucket /\ clock' = clock
      BY <1>5 DEF Fail
    <2> QED BY <1>b, <2>1, <2>2 DEF InForce
  <1>6. CASE Clean
    BY <1>6 DEF Clean
  <1>7. CASE Tick
    <2>1. late' = late /\ bucket' = bucket /\ req' = req /\ clock' = clock + 1
      BY <1>7 DEF Tick
    <2>2. bucket \in Row /\ bucket.blocked \in Nat /\ bucket.blocked > clock + 1
      BY <2>1 DEF InForce, TypeOK, Row, Time
    <2>3. InForce
      BY <1>a, <2>1, <2>2 DEF InForce, Time
    <2> QED BY <1>b, <2>1, <2>3
  <1>8. CASE UNCHANGED vars
    BY <1>8, <1>b DEF vars, InForce
  <1> QED BY <1>1, <1>2, <1>3, <1>4, <1>5, <1>6, <1>7, <1>8 DEF Next

-----------------------------------------------------------------------------
LEMMA InitInvariant ==
    ASSUME Init
    PROVE  TypeOK /\ IInv
  <1>1. TypeOK
    BY DEF Init, TypeOK, Request, Time
  <1>2. IInv
    BY DEF Init, IInv, BlockAtThreshold, OneLateCheck, BlockWithinExpiry
  <1> QED BY <1>1, <1>2

LEMMA NextInvariant ==
    ASSUME TypeOK, IInv, [Next]_vars
    PROVE  TypeOK' /\ IInv'
  BY NextTyped, NextShape, NextLate DEF IInv

\* The bucket, the requests and the parts that make the rest inductive: the row
\* that record_failure writes, whatever was there.
THEOREM Invariance == Spec => [](TypeOK /\ IInv)
  BY InitInvariant, NextInvariant, PTL DEF Spec

\* Every value login_failure_buckets and a request take is of its type.
THEOREM TypeCorrect == Spec => []TypeOK
  BY Invariance, PTL

\* However many failures are recorded at once and however late their `now` is,
\* the bucket has a block exactly at LOGIN_FAILURE_THRESHOLD and counts no
\* further.
THEOREM BlockedAtThreshold == Spec => []BlockAtThreshold
  <1>1. IInv => BlockAtThreshold
    BY DEF IInv
  <1> QED BY <1>1, Invariance, PTL

\* While a block is in force a request checks at most one password, the one it
\* was let through with before.
THEOREM LateChecksBounded == Spec => []OneLateCheck
  <1>1. IInv => OneLateCheck
    BY DEF IInv
  <1> QED BY <1>1, Invariance, PTL

\* No failure and no cleanup run shortens, prolongs or removes a block in force.
THEOREM BlockKept == Spec => BlockHeld
  <1>1. TypeOK /\ IInv /\ [Next]_vars => [BlockUntouched]_vars
    BY NextKeepsBlock
  <1> QED BY <1>1, Invariance, PTL DEF Spec, BlockHeld
=============================================================================
