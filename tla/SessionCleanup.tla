---------------------------- MODULE SessionCleanup ----------------------------
(***************************************************************************)
(* The cleanup command (cleanup_expired) beside the requests of            *)
(* SessionTokens: its passes over authorization codes, refresh tokens and  *)
(* user sessions, in batches that are committed one by one.                *)
(*                                                                         *)
(* A batch is selected by one statement, replacement links into it are     *)
(* cleared by a second, and a third deletes it.  The DELETE has its own    *)
(* snapshot, waits for the locks of its rows, and then decides again on    *)
(* each row as it is; but the set of inactive sessions it compares with    *)
(* comes from the snapshot (PostgreSQL READ COMMITTED).                    *)
(*                                                                         *)
(* Both writing statements lock refresh tokens one by one, in no order,    *)
(* and so does the second UPDATE of a revocation: the two can wait for     *)
(* each other, and the database then aborts one of them.                   *)
(***************************************************************************)
EXTENDS SessionTokens, FiniteSets

CONSTANTS
    BatchSize,  \* --batch-size
    MaxKills    \* bound: runs that are killed or fail

ASSUME BatchAssumption == BatchSize \in Nat \ {0} /\ MaxKills \in Nat

\* Keys of different tables are told apart.
ASSUME KeyAssumption ==
    /\ Session \cap Code = {} /\ Session \cap Token = {} /\ Code \cap Token = {}
    /\ None \notin Worker

VARIABLES
    cleaner,  \* the cleanup run
    held,     \* the tokens locked by the UPDATE of a revocation that has not ended
    kills,    \* runs that ended early, of no fault of the rows
    revived   \* history: sessions that were extended after their idle expiry

cleanupVars == <<cleaner, kills>>
allVars == <<clock, enabled, sessions, codes, tokens, req, cleaner, held, kills, revived>>

-----------------------------------------------------------------------------
Row == Session \cup Code \cup Token

\* `batch`: the primary keys selected; `doomed`: those of them the running DELETE
\* has found; `inactive`: the sessions its subquery has found; `locked`: the tokens
\* that its transaction has locked.
Run == [pc : {"idle", "select", "unlink", "delete"},
        table : {"codes", "tokens", "sessions"}, cutoff : Nat,
        batch : SUBSET Row, doomed : SUBSET Row, inactive : SUBSET Session,
        locked : SUBSET Token]

At(pc, table, cutoff) == [pc |-> pc, table |-> table, cutoff |-> cutoff,
                          batch |-> {}, doomed |-> {}, inactive |-> {}, locked |-> {}]
NoRun == At("idle", "codes", 0)

\* Mutant: revoked sessions are removed at once.
Expired_OrRevoked(s) ==
    /\ sessions[s].st = "present"
    /\ \/ sessions[s].idle <= cleaner.cutoff \/ sessions[s].max <= cleaner.cutoff
       \/ sessions[s].revoked

\* `expired` and `inactive_ids`, read of the committed rows.
Expired(s) ==
    /\ sessions[s].st = "present"
    /\ sessions[s].idle <= cleaner.cutoff \/ sessions[s].max <= cleaner.cutoff

Inactive == {s \in Session : Expired(s) \/ (sessions[s].st = "present" /\ sessions[s].revoked)}

\* Mutant: consumed refresh tokens count as waste.
Matching_Consumed(inactive) ==
    CASE cleaner.table = "codes" ->
            {c \in Code : /\ codes[c].st = "present"
                          /\ codes[c].exp <= cleaner.cutoff \/ codes[c].sess \in inactive}
      [] cleaner.table = "tokens" ->
            {t \in Token : /\ tokens[t].st = "present"
                           /\ \/ tokens[t].exp <= cleaner.cutoff
                              \/ tokens[t].revoked \/ tokens[t].used
                              \/ tokens[t].sess \in inactive}
      [] cleaner.table = "sessions" -> {s \in Session : Expired(s)}

\* The rows of the current table that its predicate holds of.
Matching(inactive) ==
    CASE cleaner.table = "codes" ->
            {c \in Code : /\ codes[c].st = "present"
                          /\ codes[c].exp <= cleaner.cutoff \/ codes[c].sess \in inactive}
      [] cleaner.table = "tokens" ->
            {t \in Token : /\ tokens[t].st = "present"
                           /\ \/ tokens[t].exp <= cleaner.cutoff
                              \/ tokens[t].revoked
                              \/ tokens[t].sess \in inactive}
      [] cleaner.table = "sessions" -> {s \in Session : Expired(s)}

Batches(rows) ==
    {b \in SUBSET rows : Cardinality(b) = Lesser(BatchSize, Cardinality(rows))}

\* Mutant: the specification of refresh_tokens is missing.
AfterTable_NoTokens ==
    CASE cleaner.table = "codes"    -> At("select", "sessions", cleaner.cutoff)
      [] cleaner.table = "sessions" -> NoRun

\* The table of the next pass; the last one is followed by the end of the run.
AfterTable ==
    CASE cleaner.table = "codes"    -> At("select", "tokens", cleaner.cutoff)
      [] cleaner.table = "tokens"   -> At("select", "sessions", cleaner.cutoff)
      [] cleaner.table = "sessions" -> NoRun

\* The foreign keys that end in user_sessions.
Referenced(s) ==
    \/ \E c \in Code : codes[c].st = "present" /\ codes[c].sess = s
    \/ \E t \in Token : tokens[t].st = "present" /\ tokens[t].sess = s

\* The rows of a batch, but for tokens: a request that holds one of them waits for
\* nothing cleanup has locked, so they may be granted all at once.
RowsFree(rows) ==
    /\ \A s \in rows \cap Session : SessionFree(s, None)
    /\ \A c \in rows \cap Code : CodeFree(c, None)

\* The tokens a statement of the run is to lock.  No rotation adds a link to a token
\* that is stored, so the links into a batch do not change but by this run.
Unlocked ==
    (CASE cleaner.pc = "unlink" ->
             {t \in Token : tokens[t].st = "present" /\ tokens[t].replacedBy \in cleaner.batch}
       [] cleaner.pc = "delete" -> cleaner.doomed \cap Token
       [] OTHER -> {}) \ cleaner.locked

Revoking(w) == req[w].pc \in {"refresh.reuse", "logout.revoke"}

\* WHERE of the second UPDATE of UserSessionRepository.revoke, but for rows it has.
Unrevoked(w) ==
    {t \in Token : /\ tokens[t].st = "present" /\ ~tokens[t].revoked
                   /\ tokens[t].sess = req[w].sess} \ held[w]

\* The tokens that the next step of a request commits are locked by it, or free.
TokensGranted(w) ==
    /\ Revoking(w) => Unrevoked(w) = {}
    /\ req[w].pc = "refresh.rotate" => req[w].tok \notin cleaner.locked

Removed(table, rows) ==
    [r \in DOMAIN table |-> IF r \in rows THEN [table[r] EXCEPT !.st = "deleted"] ELSE table[r]]

\* Mutant: the links are not cleared.
Unlinked_Not(batch) == tokens

Unlinked(batch) ==
    [t \in Token |-> IF tokens[t].replacedBy \in batch
                     THEN [tokens[t] EXCEPT !.replacedBy = None] ELSE tokens[t]]

-----------------------------------------------------------------------------
\* cleanup_expired begins with a cutoff it keeps.
CleanStart ==
    /\ cleaner.pc = "idle"
    /\ cleaner' = At("select", "codes", clock)
    /\ UNCHANGED <<vars, held, kills>>

\* The SELECT of a batch, in primary key order, which is random.
CleanSelect ==
    /\ cleaner.pc = "select"
    /\ IF Matching(Inactive) = {}
       THEN cleaner' = AfterTable
       ELSE \E batch \in Batches(Matching(Inactive)) :
              cleaner' = [cleaner EXCEPT !.pc = "unlink", !.batch = batch]
    /\ UNCHANGED <<vars, held, kills>>

\* The UPDATE of the links, or the DELETE, locks its next token.
CleanLock(t) ==
    /\ t \in Unlocked
    /\ TokenFree(t, None) /\ \A w \in Worker : t \notin held[w]
    /\ cleaner' = [cleaner EXCEPT !.locked = @ \cup {t}]
    /\ UNCHANGED <<vars, held, kills>>

\* Mutant: the DELETE only looks for expired sessions.
CleanSnapshot_Expired ==
    LET expired == {s \in Session : Expired(s)} IN
    /\ cleaner.pc = "unlink"
    /\ Unlocked = {}
    /\ cleaner' = [cleaner EXCEPT !.pc = "delete", !.inactive = expired,
                                  !.doomed = cleaner.batch \cap Matching(expired)]
    /\ UNCHANGED <<vars, held, kills>>

\* The links are cleared, in this transaction; the DELETE takes its snapshot.
CleanSnapshot ==
    /\ cleaner.pc = "unlink"
    /\ Unlocked = {}
    /\ cleaner' = [cleaner EXCEPT !.pc = "delete", !.inactive = Inactive,
                                  !.doomed = cleaner.batch \cap Matching(Inactive)]
    /\ UNCHANGED <<vars, held, kills>>

\* Mutant: the DELETE does not wait for the requests that hold its rows.
CleanDelete_NoWait ==
    LET gone == cleaner.doomed \cap Matching(cleaner.inactive) IN
    /\ cleaner.pc = "delete"
    /\ IF \E s \in gone \cap Session : Referenced(s)
       THEN cleaner' = NoRun /\ UNCHANGED <<sessions, codes, tokens>>
       ELSE /\ cleaner' = At("select", cleaner.table, cleaner.cutoff)
            /\ sessions' = Removed(sessions, gone)
            /\ codes' = Removed(codes, gone)
            /\ tokens' = Removed(Unlinked(cleaner.batch), gone)
    /\ UNCHANGED <<clock, enabled, req, held, kills>>

\* The DELETE has its locks, and decides; a session that is referenced again ends
\* the run.  The links into the batch are cleared by the same commit.
CleanDelete ==
    LET gone == cleaner.doomed \cap Matching(cleaner.inactive) IN
    /\ cleaner.pc = "delete"
    /\ Unlocked = {} /\ RowsFree(cleaner.doomed)
    /\ IF \E s \in gone \cap Session : Referenced(s)
       THEN cleaner' = NoRun /\ UNCHANGED <<sessions, codes, tokens>>
       ELSE /\ cleaner' = At("select", cleaner.table, cleaner.cutoff)
            /\ sessions' = Removed(sessions, gone)
            /\ codes' = Removed(codes, gone)
            /\ tokens' = Removed(Unlinked(cleaner.batch), gone)
    /\ UNCHANGED <<clock, enabled, req, held, kills>>

\* The command is killed or a statement fails: the batch is rolled back.
CleanKilled ==
    /\ cleaner.pc # "idle"
    /\ kills < MaxKills
    /\ cleaner' = NoRun
    /\ kills' = kills + 1
    /\ UNCHANGED <<vars, held>>

-----------------------------------------------------------------------------
(* Requests, as they meet the locks of cleanup.                             *)

\* A handler's step; the end of a request, rolled back or not, releases its locks.  (A
\* token that a code grant adds while a revocation locks its own is taken as added before.)
Served(A) ==
    /\ A
    /\ \A w \in Worker : req'[w] # req[w] /\ req'[w].pc # "failed" => TokensGranted(w)
    /\ held' = [w \in Worker |-> IF req'[w] = req[w] THEN held[w] ELSE {}]
    /\ UNCHANGED cleanupVars

\* The second UPDATE of a revocation locks its next token.
RevokeLock(w, t) ==
    /\ Revoking(w)
    /\ t \in Unrevoked(w) \ cleaner.locked
    /\ held' = [held EXCEPT ![w] = @ \cup {t}]
    /\ UNCHANGED <<vars, cleanupVars>>

\* Cleanup waits for a token of the revocation, and that for one of cleanup's.
Deadlocked(w) ==
    /\ Unlocked \cap held[w] # {}
    /\ Revoking(w) /\ Unrevoked(w) \cap cleaner.locked # {}

\* The deadlock is found, and one of the two transactions is rolled back.
DeadlockAbort(w) ==
    /\ Deadlocked(w)
    /\ \/ Served(Fail(w))
       \/ cleaner' = NoRun /\ UNCHANGED <<vars, held, kills>>

ProceedOrLock(w) == Served(Proceed(w)) \/ \E t \in Token : RevokeLock(w, t)

-----------------------------------------------------------------------------
CleanProceed == CleanSelect \/ (\E t \in Token : CleanLock(t)) \/ CleanSnapshot \/ CleanDelete

InitWithCleanup ==
    /\ Init
    /\ cleaner = NoRun /\ held = [w \in Worker |-> {}]
    /\ kills = 0 /\ revived = {}

\* A request that has checked the idle expiry in time may commit its extension late.
Revived ==
    {s \in Session : sessions[s].st = "present" /\ sessions[s].idle <= clock
                     /\ sessions'[s].idle > clock}

Recorded(A) == A /\ revived' = revived \cup Revived

NextWithCleanup ==
    \/ Recorded(Served(Next))
    \/ \E w \in Worker : Recorded((\E t \in Token : RevokeLock(w, t)) \/ DeadlockAbort(w))
    \/ Recorded(CleanStart \/ CleanProceed \/ CleanKilled)

SpecWithCleanup == InitWithCleanup /\ [][NextWithCleanup]_allVars

\* The command is scheduled again and again, and its statements are executed like
\* those of the requests (see FairSpec); the database finds deadlocks.
FairSpecWithCleanup ==
    /\ SpecWithCleanup
    /\ WF_allVars(Recorded(CleanStart)) /\ SF_allVars(Recorded(CleanProceed))
    /\ \A w \in Worker : /\ SF_allVars(Recorded(ProceedOrLock(w)))
                        /\ WF_allVars(Recorded(DeadlockAbort(w)))
                        /\ WF_allVars(Recorded(Served(Recover(w))))

-----------------------------------------------------------------------------
(* Properties.                                                              *)

\* The session can still be used by a refresh, a code or a browser.
Usable(s) ==
    /\ sessions[s].st = "present" /\ ~sessions[s].revoked
    /\ sessions[s].idle > clock /\ sessions[s].max > clock

\* What cleanup has removed would be good for nothing if it were still there, a
\* consumed refresh token that betrays its reuse included, but for `exempt` sessions.
RemovedUseless(exempt) ==
    /\ \A c \in Code : codes[c].st = "deleted" =>
          \/ codes[c].exp <= clock \/ codes[c].consumed
          \/ ~Usable(codes[c].sess) \/ codes[c].sess \in exempt
    /\ \A t \in Token : tokens[t].st = "deleted" =>
          \/ tokens[t].exp <= clock \/ tokens[t].revoked
          \/ ~Usable(tokens[t].sess) \/ tokens[t].sess \in exempt

\* Cleanup removes no code and no refresh token that is good for anything
\* (docs/operations.md: "live sessions/artifacts ... are retained"), although requests
\* extend sessions while it runs: only what hangs on a session that was extended after
\* its idle expiry had passed, by a request that had checked it in time, may go.
LiveArtifactsKept == RemovedUseless(revived)

\* The docstring of cleanup_expired, "Children of inactive sessions are unusable even
\* if their own expiry is later", as the rows that were removed for it are read later.
InactiveStaysUnusable == RemovedUseless({})

\* A session, revoked or not, stays until it has expired, by its expiry of that
\* moment: logout can be retried until then.
RetainedStep ==
    \A s \in Session : sessions[s].st = "present" /\ sessions'[s].st = "deleted"
        => sessions[s].idle <= clock \/ sessions[s].max <= clock
RetainedForLogout == [][RetainedStep]_allVars

\* A code grant keeps no lock on the session it read, and yet cleanup never removes
\* that session under it: the claimed code is locked, a pass over codes waits for
\* it, and a session that a code refers to is refused.
ClaimPinsSession ==
    \A w \in Worker : req[w].pc \in {"code.issue", "code.commit"} =>
        codes[req[w].code].st = "present" /\ sessions[req[w].sess].st = "present"

\* No replacement link points to a removed row, although rotations add links
\* while a batch is removed: the self-reference never refuses a batch.
LinksStored ==
    \A t, u \in Token :
        tokens[t].st = "present" /\ tokens[t].replacedBy = u => tokens[u].st = "present"

\* A run ends, whatever becomes unusable while it goes on.  (A request that has
\* run out of the bounded keys keeps its locks: no code does that.)
CleanupEnds == cleaner.pc # "idle" ~> (cleaner.pc = "idle" \/ OutOfKeys)

\* A session past its maximum is removed in the end, with its children, also if
\* runs are killed or refused in between ("Re-running it is safe").
ExpiredRemoved ==
    \A s \in Session :
        sessions[s].st = "present" /\ sessions[s].max <= clock
            ~> (sessions[s].st = "deleted" \/ OutOfKeys)

-----------------------------------------------------------------------------
(* The inductive invariant of requests and cleanup together: IInv, with the *)
(* weaker part of RotationAtomic that survives the clearing of links.       *)

\* What a run works on is not ahead of it: a past cutoff, rows of its batch.
RunBehind ==
    /\ cleaner.cutoff <= clock
    /\ cleaner.doomed \subseteq cleaner.batch
    /\ cleaner.pc # "delete" => cleaner.doomed = {}

\* Only a revocation in progress has token locks of its own, and none that cleanup has.
LocksApart ==
    /\ held \in [Worker -> SUBSET Token]
    /\ \A w \in Worker : /\ held[w] # {} => Revoking(w)
                         /\ held[w] \cap cleaner.locked = {}

\* A code that is stored has its session, and so has a reuse about to add one.
CodesStored ==
    /\ \A c \in Code : codes[c].st = "present" => sessions[codes[c].sess].st = "present"
    /\ \A w \in Worker : req[w].pc \in {"reuse.issue", "reuse.commit"} =>
          sessions[req[w].sess].st = "present"

CleanupInv ==
    /\ TypeOK /\ cleaner \in Run
    /\ RowsLinked /\ RequestsLinked /\ LocksExclusive /\ ChecksHold
    /\ OneFamilyPerCode /\ NoFork /\ Descended /\ DeadSessionInert /\ ExpiryWithinSession
    /\ RunBehind /\ LocksApart /\ CodesStored /\ ClaimPinsSession /\ LinksStored
=============================================================================
