----------------------------- MODULE LoginThrottle -----------------------------
(***************************************************************************)
(* Failure accounting of password checks: one bucket of                    *)
(* login_failure_buckets, the requests that read and write it, and the     *)
(* cleanup command.  Nothing relates the buckets of two identities.        *)
(*                                                                         *)
(* A bucket is written by one statement, which waits for the row and then  *)
(* decides on what it finds, with a `now` taken before the wait; nothing   *)
(* reads the row between that statement and the commit.                    *)
(***************************************************************************)
EXTENDS Naturals

CONSTANTS
    Worker,     \* request handlers
    Threshold,  \* LOGIN_FAILURE_THRESHOLD
    Window,     \* LOGIN_FAILURE_WINDOW_SECONDS
    Lock,       \* LOGIN_LOCK_SECONDS
    None,       \* SQL NULL
    MaxTime     \* bound: the clock stops here

ASSUME ConfigAssumption ==
    /\ Threshold \in Nat \ {0} /\ Window \in Nat \ {0} /\ Lock \in Nat \ {0}
    /\ MaxTime \in Nat

VARIABLES
    clock,    \* utc_now()
    bucket,   \* the row, or NoRow
    req,      \* the request each worker serves
    late      \* history: workers that checked a password while the block was in force

vars == <<clock, bucket, req, late>>

-----------------------------------------------------------------------------
Time == Nat
Row == [count : Nat, first : Time, blocked : Time \cup {None}, expires : Time]
NoRow == None

ASSUME NoneAssumption == None \notin Time /\ None \notin Row

Request == [pc : {"idle", "verify", "record", "clear"}, now : Time]

Goto(w, pc, now) == req' = [req EXCEPT ![w] = [pc |-> pc, now |-> now]]

Greater(a, b) == IF a > b THEN a ELSE b

\* Mutant: a block whose end is not reached is not looked at.
Blocked_Never(now) == FALSE

\* LoginThrottle.is_blocked
Blocked(now) == bucket # NoRow /\ bucket.blocked # None /\ bucket.blocked > now

InForce == bucket # NoRow /\ bucket.blocked # None /\ bucket.blocked > clock

-----------------------------------------------------------------------------
(* LoginThrottle.record_failure: the upsert.                                *)

\* `reset`: the window has passed, or an earlier block has.
StartsOver(now) ==
    \/ bucket.first + Window <= now
    \/ bucket.blocked # None /\ bucket.blocked <= now

Counted(count, first, now) ==
    [count |-> count, first |-> first,
     blocked |-> IF count >= Threshold THEN now + Lock ELSE None,
     expires |-> now + Greater(Window, Lock)]

\* Mutant: the WHERE clause of the conflict update is missing.
Upsert_NoWhere(now) ==
    IF bucket = NoRow \/ StartsOver(now) THEN Counted(1, now, now)
    ELSE Counted(bucket.count + 1, bucket.first, now)

\* Mutant: a block that has ended does not start over.
Upsert_NoReset(now) ==
    IF bucket = NoRow THEN Counted(1, now, now)
    ELSE IF bucket.blocked # None /\ bucket.blocked > now THEN bucket
    ELSE Counted(bucket.count + 1, bucket.first, now)

Upsert(now) ==
    IF bucket = NoRow THEN Counted(1, now, now)
    ELSE IF bucket.blocked # None /\ bucket.blocked > now THEN bucket
    ELSE IF StartsOver(now) THEN Counted(1, now, now)
    ELSE Counted(bucket.count + 1, bucket.first, now)

-----------------------------------------------------------------------------
Init ==
    /\ clock = 0
    /\ bucket = NoRow
    /\ req = [w \in Worker |-> [pc |-> "idle", now |-> 0]]
    /\ late = {}

\* LoginThrottle.authenticate: a blocked request only verifies the dummy hash.
Arrive(w) ==
    /\ req[w].pc = "idle"
    /\ ~Blocked(clock)
    /\ Goto(w, "verify", 0)
    /\ UNCHANGED <<clock, bucket, late>>

\* The password check, right or wrong; it takes a while.
Verify(w) ==
    /\ req[w].pc = "verify"
    /\ \/ Goto(w, "clear", 0)
       \/ Goto(w, "record", clock)
    /\ late' = IF InForce THEN late \cup {w} ELSE late
    /\ UNCHANGED <<clock, bucket>>

\* CredentialFailure: its transaction is rolled back, the failure is counted and
\* committed with the event.
Record(w) ==
    /\ req[w].pc = "record"
    /\ \E now \in req[w].now .. clock :
         /\ bucket' = Upsert(now)
         /\ late' = IF bucket' = bucket THEN late ELSE {}
    /\ Goto(w, "idle", 0)
    /\ UNCHANGED clock

\* Success: the bucket is deleted, whatever it holds by now, and the login commits.
Clear(w) ==
    /\ req[w].pc = "clear"
    /\ bucket' = NoRow
    /\ late' = {}
    /\ Goto(w, "idle", 0)
    /\ UNCHANGED clock

\* The request dies, or its last transaction is rolled back: nothing is counted.
Fail(w) ==
    /\ req[w].pc # "idle"
    /\ Goto(w, "idle", 0)
    /\ UNCHANGED <<clock, bucket, late>>

\* cleanup_expired, with the cutoff of its start.
Clean ==
    /\ bucket # NoRow
    /\ \E cutoff \in 0 .. clock : bucket.expires <= cutoff
    /\ bucket' = NoRow
    /\ late' = {}
    /\ UNCHANGED <<clock, req>>

Tick ==
    /\ clock < MaxTime
    /\ clock' = clock + 1
    /\ UNCHANGED <<bucket, req, late>>

Next ==
    \/ \E w \in Worker : Arrive(w) \/ Verify(w) \/ Record(w) \/ Clear(w) \/ Fail(w)
    \/ Clean
    \/ Tick

Spec == Init /\ [][Next]_vars

-----------------------------------------------------------------------------
(* Properties.                                                              *)

\* The bucket, the requests and the history are well formed.
TypeOK ==
    /\ clock \in Time
    /\ bucket \in Row \cup {NoRow}
    /\ req \in [Worker -> Request]
    /\ late \subseteq Worker

\* The count never passes the threshold, and a bucket has a block exactly when
\* it has reached it: no order of concurrent failures skips the block (the case
\* of the upsert and of the insert when the threshold is one).
BlockAtThreshold ==
    bucket # NoRow =>
        /\ bucket.count \in 1 .. Threshold
        /\ bucket.blocked # None <=> bucket.count = Threshold

\* Neither a failure nor the cleanup command touches a bucket while its block is
\* in force ("Attempts during that interval cannot increment the count or
\* prolong it"): only a success that was checked before the block ends it.
BlockUntouched ==
    InForce => \/ bucket' = bucket
               \/ \E w \in Worker : req[w].pc = "clear" /\ req'[w].pc = "idle" /\ bucket' = NoRow
BlockHeld == [][BlockUntouched]_vars

\* A worker checks at most one password during one block: those requests that
\* had read the bucket before it was blocked.
OneLateCheck ==
    \A w \in Worker : req[w].pc = "verify" /\ InForce => w \notin late

-----------------------------------------------------------------------------
\* What makes BlockHeld inductive: the cleanup deadline covers the block, and
\* nobody records a failure with a later time than the clock.
BlockWithinExpiry ==
    bucket # NoRow /\ bucket.blocked # None => bucket.blocked <= bucket.expires

IInv == BlockAtThreshold /\ OneLateCheck /\ BlockWithinExpiry
=============================================================================
