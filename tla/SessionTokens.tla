---------------------------- MODULE SessionTokens ----------------------------
(***************************************************************************)
(* User sessions, authorization codes and rotating refresh tokens of       *)
(* mini-keycloak, as concurrent web workers see them through one SQL       *)
(* database (PostgreSQL READ COMMITTED with row locks; SQLite, which       *)
(* serialises writers, allows a subset of these behaviours).               *)
(*                                                                         *)
(* sessions, codes and tokens hold COMMITTED rows only.  A request runs as *)
(* one transaction: what it has written but not committed is kept in its   *)
(* record req[w], and the rows it has written are locked until it ends.    *)
(* One action is one SQL statement, or several that no other transaction   *)
(* can separate.                                                           *)
(***************************************************************************)
EXTENDS Naturals

CONSTANTS
    Session,      \* primary keys of user_sessions
    Code,         \* primary keys of authorization_codes
    Token,        \* primary keys of refresh_tokens
    Worker,       \* request handlers of the web servers
    None,         \* SQL NULL, or a field a request does not use
    IdleLife,     \* SSO_IDLE_LIFETIME_SECONDS
    MaxLife,      \* SSO_MAX_LIFETIME_SECONDS
    RefreshLife,  \* REFRESH_TOKEN_LIFETIME_SECONDS
    CodeLife,     \* AUTHORIZATION_CODE_LIFETIME_SECONDS
    MaxTime       \* bound: the clock stops here

ASSUME LifetimeAssumption ==
    /\ IdleLife \in Nat \ {0}
    /\ MaxLife \in Nat \ {0}
    /\ RefreshLife \in Nat \ {0}
    /\ CodeLife \in Nat \ {0}
    /\ MaxTime \in Nat

ASSUME NoneAssumption ==
    None \notin Session /\ None \notin Code /\ None \notin Token

VARIABLES
    clock,     \* utc_now()
    enabled,   \* realm, user and client are all enabled
    sessions,  \* table user_sessions
    codes,     \* table authorization_codes
    tokens,    \* table refresh_tokens
    req        \* the request each worker is serving

vars == <<clock, enabled, sessions, codes, tokens, req>>

-----------------------------------------------------------------------------
(* Rows.  A primary key is "absent" until its row is inserted and "deleted" *)
(* for ever after the row is removed: keys are random and never reused.     *)

RowStatus == {"absent", "present", "deleted"}

SessionRow == [st : RowStatus, revoked : BOOLEAN, idle : Nat, max : Nat]

CodeRow == [st : RowStatus, sess : Session \cup {None}, exp : Nat,
            consumed : BOOLEAN]

\* `family` is the generation-0 token of the family (the code stores a random
\* family_id instead); `origin` is the code the family was bought with, which
\* no column records.
TokenRow == [st : RowStatus, sess : Session \cup {None}, origin : Code \cup {None},
             family : Token \cup {None}, gen : Nat, exp : Nat, used : BOOLEAN,
             revoked : BOOLEAN, replacedBy : Token \cup {None}]

\* Where a request stands: the statement it executes next.
ReusePC   == {"reuse.touch", "reuse.issue", "reuse.commit"}
CodePC    == {"code.consume", "code.issue", "code.commit"}
RefreshPC == {"refresh.lock", "refresh.check", "refresh.rotate", "refresh.commit",
              "refresh.reuse"}
LogoutPC  == {"logout.lock", "logout.revoke"}
InFlight  == ReusePC \cup CodePC \cup RefreshPC \cup LogoutPC

Request == [pc : InFlight \cup {"idle", "failed"}, sess : Session \cup {None},
            code : Code \cup {None}, tok : Token \cup {None},
            now : Nat, idle : Nat, exp : Nat]

\* A request that has read rows and computed no expiry yet.
Asking(pc, s, c, t, now) == [pc |-> pc, sess |-> s, code |-> c, tok |-> t,
                             now |-> now, idle |-> 0, exp |-> 0]

NoRequest == Asking("idle", None, None, None, 0)

Lesser(a, b) == IF a < b THEN a ELSE b

-----------------------------------------------------------------------------
(* Reads.                                                                   *)

\* Mutant: a session found once is not looked up again for revocation.
EligibleWith_NoRevocation(s, idle, now) ==
    enabled /\ sessions[s].st = "present" /\ idle > now /\ sessions[s].max > now

\* UserSessionRepository.eligible, with the idle expiry the transaction sees:
\* the committed one, or the one it has itself written.
EligibleWith(s, idle, now) ==
    /\ enabled
    /\ sessions[s].st = "present"
    /\ ~sessions[s].revoked
    /\ idle > now
    /\ sessions[s].max > now

Eligible(s, now) == EligibleWith(s, sessions[s].idle, now)

\* Mutant: the lock is gone once the checks under it have passed.
SessionHolder_ChecksOnly == {"reuse.issue", "refresh.check", "refresh.reuse", "logout.revoke"}

\* Row locks, held from the write to the end of the transaction.
SessionHolder == {"reuse.issue", "reuse.commit", "refresh.check", "refresh.rotate",
                  "refresh.commit", "refresh.reuse", "logout.revoke"}

SessionFree(s, w) ==
    \A v \in Worker \ {w} : ~(req[v].pc \in SessionHolder /\ req[v].sess = s)

CodeFree(c, w) ==
    \A v \in Worker \ {w} : ~(req[v].pc \in {"code.issue", "code.commit"}
                              /\ req[v].code = c)

TokenFree(t, w) ==
    \A v \in Worker \ {w} : ~(req[v].pc = "refresh.commit" /\ req[v].tok = t)

\* WHERE of AuthorizationCodeRepository.consume
CodeClaimable(c, now) ==
    codes[c].st = "present" /\ ~codes[c].consumed /\ codes[c].exp > now

\* WHERE of RefreshTokenRepository.lock_session
SessionLockable(s, now) ==
    /\ sessions[s].st = "present"
    /\ ~sessions[s].revoked
    /\ sessions[s].idle > now
    /\ sessions[s].max > now

\* TokenService._refresh_matches: what can change after the token was signed.
RefreshMatches(t, now) ==
    tokens[t].st = "present" /\ ~tokens[t].revoked /\ tokens[t].exp > now

\* WHERE of RefreshTokenRepository.consume
TokenConsumable(t, now) == RefreshMatches(t, now) /\ ~tokens[t].used

-----------------------------------------------------------------------------
(* Writes, as they take effect at commit.                                   *)

NewSession(now) ==
    [st |-> "present", revoked |-> FALSE,
     idle |-> Lesser(now + MaxLife, now + IdleLife), max |-> now + MaxLife]

NewCode(s, now) ==
    [st |-> "present", sess |-> s, exp |-> now + CodeLife, consumed |-> FALSE]

\* The row TokenService.issue adds when there is no refresh_parent.
FirstToken(t, s, origin, exp) ==
    [st |-> "present", sess |-> s, origin |-> origin, family |-> t, gen |-> 0,
     exp |-> exp, used |-> FALSE, revoked |-> FALSE, replacedBy |-> None]

\* ... and the row it adds for the successor of refresh_parent.
NextToken(parent, exp) ==
    [st |-> "present", sess |-> tokens[parent].sess, origin |-> tokens[parent].origin,
     family |-> tokens[parent].family, gen |-> tokens[parent].gen + 1,
     exp |-> exp, used |-> FALSE, revoked |-> FALSE, replacedBy |-> None]

\* TokenService.issue: refresh_expiry
RefreshExpiry(s, idle, now) ==
    Lesser(Lesser(idle, sessions[s].max), now + RefreshLife)

\* UserSessionRepository.revoke: the second UPDATE sees the token rows
\* committed so far, and no others.
RevokeFamilies(s) ==
    [t \in Token |->
        IF tokens[t].st = "present" /\ tokens[t].sess = s
        THEN [tokens[t] EXCEPT !.revoked = TRUE]
        ELSE tokens[t]]

Finish(w) == req' = [req EXCEPT ![w] = NoRequest]

Absent(table, key) == table[key].st = "absent"

-----------------------------------------------------------------------------
Init ==
    /\ clock = 0
    /\ enabled = TRUE
    /\ sessions = [s \in Session |->
                     [st |-> "absent", revoked |-> FALSE, idle |-> 0, max |-> 0]]
    /\ codes = [c \in Code |->
                  [st |-> "absent", sess |-> None, exp |-> 0, consumed |-> FALSE]]
    /\ tokens = [t \in Token |->
                   [st |-> "absent", sess |-> None, origin |-> None, family |-> None,
                    gen |-> 0, exp |-> 0, used |-> FALSE, revoked |-> FALSE,
                    replacedBy |-> None]]
    /\ req = [w \in Worker |-> NoRequest]

-----------------------------------------------------------------------------
(* Grants that create a session.  Nobody knows the new keys before the      *)
(* commit, so nothing can come between the statements.                      *)

\* complete_authentication without a session to reuse: session and code.
Login(s, c) ==
    /\ enabled
    /\ Absent(sessions, s) /\ Absent(codes, c)
    /\ sessions' = [sessions EXCEPT ![s] = NewSession(clock)]
    /\ codes' = [codes EXCEPT ![c] = NewCode(s, clock)]
    /\ UNCHANGED <<clock, enabled, tokens, req>>

\* TokenService.password_grant: session and first refresh token.
PasswordGrant(s, t) ==
    /\ enabled
    /\ Absent(sessions, s) /\ Absent(tokens, t)
    /\ sessions' = [sessions EXCEPT ![s] = NewSession(clock)]
    /\ tokens' = [tokens EXCEPT ![t] =
                    FirstToken(t, s, None, Lesser(NewSession(clock).idle, clock + RefreshLife))]
    /\ UNCHANGED <<clock, enabled, codes, req>>

-----------------------------------------------------------------------------
(* Browser SSO: authorize finds the cookie's session, extends its idle      *)
(* expiry and issues a code for it.                                         *)

\* UserSessionService.reuse: a plain read, no lock.
ReuseRead(w, s) ==
    /\ req[w].pc = "idle"
    /\ Eligible(s, clock)
    /\ req' = [req EXCEPT ![w] = Asking("reuse.touch", s, None, None, clock)]
    /\ UNCHANGED <<clock, enabled, sessions, codes, tokens>>

\* The flush of the two columns reuse assigned: UPDATE by primary key alone,
\* with the `now` of the read; a row that is gone is a StaleDataError.
ReuseTouch(w) ==
    LET s == req[w].sess IN
    /\ req[w].pc = "reuse.touch"
    /\ SessionFree(s, w)
    /\ IF sessions[s].st = "present"
       THEN req' = [req EXCEPT ![w] =
                      [@ EXCEPT !.pc = "reuse.issue", !.now = 0,
                                !.idle = Lesser(sessions[s].max, req[w].now + IdleLife)]]
       ELSE Finish(w)
    /\ UNCHANGED <<clock, enabled, sessions, codes, tokens>>

\* AuthorizationService.issue reads the session again.
ReuseIssue(w) ==
    /\ req[w].pc = "reuse.issue"
    /\ EligibleWith(req[w].sess, req[w].idle, clock)
    /\ req' = [req EXCEPT ![w] = [@ EXCEPT !.pc = "reuse.commit", !.now = clock]]
    /\ UNCHANGED <<clock, enabled, sessions, codes, tokens>>

\* The touch and the code, dated from the check, are committed.
ReuseCommit(w) ==
    LET s == req[w].sess IN
    /\ req[w].pc = "reuse.commit"
    /\ \E c \in Code :
         /\ Absent(codes, c)
         /\ codes' = [codes EXCEPT ![c] = NewCode(s, req[w].now)]
    /\ sessions' = [sessions EXCEPT ![s].idle = req[w].idle]
    /\ Finish(w)
    /\ UNCHANGED <<clock, enabled, tokens>>

\* AccessDenied: the touch is rolled back.
ReuseDenied(w) ==
    /\ req[w].pc = "reuse.issue"
    /\ ~EligibleWith(req[w].sess, req[w].idle, clock)
    /\ Finish(w)
    /\ UNCHANGED <<clock, enabled, sessions, codes, tokens>>

-----------------------------------------------------------------------------
(* grant_type=authorization_code                                            *)

\* AuthorizationService.consume: the reads and checks before the claim.
CodeRead(w, c) ==
    /\ req[w].pc = "idle"
    /\ CodeClaimable(c, clock)
    /\ Eligible(codes[c].sess, clock)
    /\ req' = [req EXCEPT ![w] = Asking("code.consume", codes[c].sess, c, None, clock)]
    /\ UNCHANGED <<clock, enabled, sessions, codes, tokens>>

\* Mutant: the UPDATE trusts the row read before the wait.
CodeConsume_Unconditional(w) ==
    /\ req[w].pc = "code.consume"
    /\ CodeFree(req[w].code, w)
    /\ req' = [req EXCEPT ![w] = [@ EXCEPT !.pc = "code.issue", !.now = 0,
                                          !.idle = sessions[req[w].sess].idle]]
    /\ UNCHANGED <<clock, enabled, sessions, codes, tokens>>

\* AuthorizationCodeRepository.consume: waits for the row lock, then decides on
\* the row as it is now, with a `now` taken before the wait.  The session object
\* issue will compute with is loaded next, and not refreshed by its check.
CodeConsume(w) ==
    LET c == req[w].code IN
    /\ req[w].pc = "code.consume"
    /\ CodeFree(c, w)
    /\ \E now \in req[w].now .. clock : CodeClaimable(c, now)
    /\ req' = [req EXCEPT ![w] = [@ EXCEPT !.pc = "code.issue", !.now = 0,
                                          !.idle = sessions[req[w].sess].idle]]
    /\ UNCHANGED <<clock, enabled, sessions, codes, tokens>>

CodeRejected(w) ==
    LET c == req[w].code IN
    /\ req[w].pc = "code.consume"
    /\ CodeFree(c, w)
    /\ \E now \in req[w].now .. clock : ~CodeClaimable(c, now)
    /\ Finish(w)
    /\ UNCHANGED <<clock, enabled, sessions, codes, tokens>>

\* TokenService.issue for the claimed code.  The session is read, not locked.
CodeIssue(w) ==
    LET s == req[w].sess IN
    /\ req[w].pc = "code.issue"
    /\ Eligible(s, clock)
    /\ req' = [req EXCEPT ![w] =
                 [@ EXCEPT !.pc = "code.commit", !.idle = 0,
                           !.exp = RefreshExpiry(s, req[w].idle, clock)]]
    /\ UNCHANGED <<clock, enabled, sessions, codes, tokens>>

\* InvalidGrant: the claim is rolled back, the code stays good.
CodeIssueDenied(w) ==
    /\ req[w].pc = "code.issue"
    /\ ~Eligible(req[w].sess, clock)
    /\ Finish(w)
    /\ UNCHANGED <<clock, enabled, sessions, codes, tokens>>

\* The first refresh token and the consumed code.  The token's foreign key needs
\* the session row, revoked or not.
CodeCommit(w) ==
    LET c == req[w].code IN
    /\ req[w].pc = "code.commit"
    /\ sessions[req[w].sess].st = "present"
    /\ \E t \in Token :
         /\ Absent(tokens, t)
         /\ tokens' = [tokens EXCEPT ![t] =
                         FirstToken(t, req[w].sess, c, req[w].exp)]
    /\ codes' = [codes EXCEPT ![c] = [@ EXCEPT !.consumed = TRUE]]
    /\ Finish(w)
    /\ UNCHANGED <<clock, enabled, sessions>>

-----------------------------------------------------------------------------
(* grant_type=refresh_token: TokenService.refresh                           *)

\* _decode rejects an expired token; the row is read to find its session.
RefreshRead(w, t) ==
    /\ req[w].pc = "idle"
    /\ tokens[t].st = "present"
    /\ tokens[t].exp > clock
    /\ req' = [req EXCEPT ![w] = Asking("refresh.lock", tokens[t].sess, None, t, clock)]
    /\ UNCHANGED <<clock, enabled, sessions, codes, tokens>>

\* Mutant: a plain SELECT instead of the conditional UPDATE, so nothing is locked.
RefreshLock_NoWait(w) ==
    /\ req[w].pc = "refresh.lock"
    /\ SessionLockable(req[w].sess, clock)
    /\ req' = [req EXCEPT ![w] = [@ EXCEPT !.pc = "refresh.check", !.now = 0]]
    /\ UNCHANGED <<clock, enabled, sessions, codes, tokens>>

RefreshLock(w) ==
    LET s == req[w].sess IN
    /\ req[w].pc = "refresh.lock"
    /\ SessionFree(s, w)
    /\ \E now \in req[w].now .. clock : SessionLockable(s, now)
    /\ req' = [req EXCEPT ![w] = [@ EXCEPT !.pc = "refresh.check", !.now = 0]]
    /\ UNCHANGED <<clock, enabled, sessions, codes, tokens>>

RefreshLockRejected(w) ==
    LET s == req[w].sess IN
    /\ req[w].pc = "refresh.lock"
    /\ SessionFree(s, w)
    /\ \E now \in req[w].now .. clock : ~SessionLockable(s, now)
    /\ Finish(w)
    /\ UNCHANGED <<clock, enabled, sessions, codes, tokens>>

\* Under the lock: the session once more, then the token row once more.
RefreshAccepts(w) ==
    Eligible(req[w].sess, clock) /\ RefreshMatches(req[w].tok, clock)

RefreshCheck(w) ==
    /\ req[w].pc = "refresh.check"
    /\ RefreshAccepts(w)
    /\ req' = [req EXCEPT ![w] =
                 [@ EXCEPT !.pc = IF tokens[req[w].tok].used
                                  THEN "refresh.reuse" ELSE "refresh.rotate",
                           !.now = clock]]
    /\ UNCHANGED <<clock, enabled, sessions, codes, tokens>>

RefreshRejected(w) ==
    /\ req[w].pc = "refresh.check"
    /\ ~RefreshAccepts(w)
    /\ Finish(w)
    /\ UNCHANGED <<clock, enabled, sessions, codes, tokens>>

\* The conditional UPDATE of the token, the new idle expiry of the session, and
\* the checks of issue, which sees that idle expiry.
RefreshRotates(w, idle) ==
    /\ TokenConsumable(req[w].tok, req[w].now)
    /\ EligibleWith(req[w].sess, idle, clock)

\* Mutant: the idle window slides past the maximum, and issue checks only that.
RefreshRotate_NoMaximum(w) ==
    LET idle == req[w].now + IdleLife IN
    /\ req[w].pc = "refresh.rotate"
    /\ RefreshRotates(w, idle)
    /\ req' = [req EXCEPT ![w] =
                 [@ EXCEPT !.pc = "refresh.commit", !.now = 0, !.idle = idle,
                           !.exp = Lesser(idle, clock + RefreshLife)]]
    /\ UNCHANGED <<clock, enabled, sessions, codes, tokens>>

RefreshRotate(w) ==
    LET s    == req[w].sess
        idle == Lesser(sessions[s].max, req[w].now + IdleLife) IN
    /\ req[w].pc = "refresh.rotate"
    /\ TokenFree(req[w].tok, w)
    /\ RefreshRotates(w, idle)
    /\ req' = [req EXCEPT ![w] =
                 [@ EXCEPT !.pc = "refresh.commit", !.now = 0, !.idle = idle,
                           !.exp = RefreshExpiry(s, idle, clock)]]
    /\ UNCHANGED <<clock, enabled, sessions, codes, tokens>>

\* Mutant: the rejection commits what the request has written.
RefreshRotateDenied_Commits(w) ==
    /\ req[w].pc = "refresh.rotate"
    /\ tokens' = [tokens EXCEPT ![req[w].tok] = [@ EXCEPT !.used = TRUE]]
    /\ Finish(w)
    /\ UNCHANGED <<clock, enabled, sessions, codes>>

\* InvalidScope, a token consumed or removed meanwhile, or a grant that issue denies.
RefreshRotateDenied(w) ==
    /\ req[w].pc = "refresh.rotate"
    /\ TokenFree(req[w].tok, w)
    /\ Finish(w)
    /\ UNCHANGED <<clock, enabled, sessions, codes, tokens>>

\* Mutant: the parent is linked to its successor but not marked as used.
RefreshCommit_NotUsed(w) ==
    /\ req[w].pc = "refresh.commit"
    /\ \E u \in Token :
         /\ Absent(tokens, u)
         /\ tokens' = [tokens EXCEPT
                         ![req[w].tok] = [@ EXCEPT !.replacedBy = u],
                         ![u] = NextToken(req[w].tok, req[w].exp)]
    /\ sessions' = [sessions EXCEPT ![req[w].sess].idle = req[w].idle]
    /\ Finish(w)
    /\ UNCHANGED <<clock, enabled, codes>>

RefreshCommit(w) ==
    LET s == req[w].sess
        t == req[w].tok IN
    /\ req[w].pc = "refresh.commit"
    /\ \E u \in Token :
         /\ Absent(tokens, u)
         /\ tokens' = [tokens EXCEPT
                         ![t] = [@ EXCEPT !.used = TRUE, !.replacedBy = u],
                         ![u] = NextToken(t, req[w].exp)]
    /\ sessions' = [sessions EXCEPT ![s].idle = req[w].idle]
    /\ Finish(w)
    /\ UNCHANGED <<clock, enabled, codes>>

\* Mutant: the revocation runs in a transaction of its own, which waits for the
\* session lock the request itself holds.
RefreshReuse_OwnTransaction(w) ==
    LET s == req[w].sess IN
    /\ req[w].pc = "refresh.reuse"
    /\ \A v \in Worker : ~(req[v].pc \in SessionHolder /\ req[v].sess = s)
    /\ sessions' = [sessions EXCEPT ![s].revoked = TRUE]
    /\ tokens' = RevokeFamilies(s)
    /\ Finish(w)
    /\ UNCHANGED <<clock, enabled, codes>>

\* A consumed token came back: revoke the session with its families, record
\* the event, commit although the grant is rejected.
RefreshReuse(w) ==
    LET s == req[w].sess IN
    /\ req[w].pc = "refresh.reuse"
    /\ SessionFree(s, w)
    /\ sessions' = [sessions EXCEPT ![s].revoked = TRUE]
    /\ tokens' = RevokeFamilies(s)
    /\ Finish(w)
    /\ UNCHANGED <<clock, enabled, codes>>

-----------------------------------------------------------------------------
(* RP-initiated logout                                                      *)

\* An id_token_hint names a session inside its idle and maximum lifetime,
\* revoked or not.
LogoutHint(w, s) ==
    /\ req[w].pc = "idle"
    /\ enabled
    /\ sessions[s].st = "present"
    /\ sessions[s].idle > clock /\ sessions[s].max > clock
    /\ req' = [req EXCEPT ![w] = Asking("logout.lock", s, None, None, 0)]
    /\ UNCHANGED <<clock, enabled, sessions, codes, tokens>>

\* A refresh_token must be current: TokenService.verify.
LogoutToken(w, t) ==
    /\ req[w].pc = "idle"
    /\ TokenConsumable(t, clock)
    /\ Eligible(tokens[t].sess, clock)
    /\ req' = [req EXCEPT ![w] = Asking("logout.lock", tokens[t].sess, None, None, 0)]
    /\ UNCHANGED <<clock, enabled, sessions, codes, tokens>>

\* Mutant: the families are revoked first, without the session lock.
LogoutLock_NoWait(w) ==
    /\ req[w].pc = "logout.lock"
    /\ req' = [req EXCEPT ![w] = [@ EXCEPT !.pc = "logout.revoke"]]
    /\ UNCHANGED <<clock, enabled, sessions, codes, tokens>>

\* The first UPDATE of UserSessionRepository.revoke takes the session lock.  A
\* session that is gone leaves logout without a row to report: server error.
LogoutLock(w) ==
    LET s == req[w].sess IN
    /\ req[w].pc = "logout.lock"
    /\ SessionFree(s, w)
    /\ IF sessions[s].st = "present"
       THEN req' = [req EXCEPT ![w] = [@ EXCEPT !.pc = "logout.revoke"]]
       ELSE Finish(w)
    /\ UNCHANGED <<clock, enabled, sessions, codes, tokens>>

\* The second UPDATE, the event and the commit.
LogoutRevoke(w) ==
    LET s == req[w].sess IN
    /\ req[w].pc = "logout.revoke"
    /\ sessions' = [sessions EXCEPT ![s].revoked = TRUE]
    /\ tokens' = RevokeFamilies(s)
    /\ Finish(w)
    /\ UNCHANGED <<clock, enabled, codes>>

-----------------------------------------------------------------------------
(* Failures, time and administration                                        *)

\* The worker is killed, the client goes away, a statement or the signing key
\* fails: the transaction is rolled back and its locks are released.
Fail(w) ==
    /\ req[w].pc \in InFlight
    /\ req' = [req EXCEPT ![w] = Asking("failed", None, None, None, 0)]
    /\ UNCHANGED <<clock, enabled, sessions, codes, tokens>>

Recover(w) ==
    /\ req[w].pc = "failed"
    /\ Finish(w)
    /\ UNCHANGED <<clock, enabled, sessions, codes, tokens>>

Tick ==
    /\ clock < MaxTime
    /\ clock' = clock + 1
    /\ UNCHANGED <<enabled, sessions, codes, tokens, req>>

\* An administrator disables the realm, the user or the client, or re-enables it.
SetEnabled ==
    /\ enabled' = ~enabled
    /\ UNCHANGED <<clock, sessions, codes, tokens, req>>

-----------------------------------------------------------------------------
\* A request that has reached the database goes on.
Proceed(w) ==
    \/ ReuseTouch(w) \/ ReuseIssue(w) \/ ReuseDenied(w) \/ ReuseCommit(w)
    \/ CodeConsume(w) \/ CodeRejected(w)
    \/ CodeIssue(w) \/ CodeIssueDenied(w) \/ CodeCommit(w)
    \/ RefreshLock(w) \/ RefreshLockRejected(w)
    \/ RefreshCheck(w) \/ RefreshRejected(w)
    \/ RefreshRotate(w) \/ RefreshRotateDenied(w)
    \/ RefreshCommit(w) \/ RefreshReuse(w)
    \/ LogoutLock(w) \/ LogoutRevoke(w)

Arrive(w) ==
    \/ \E s \in Session : ReuseRead(w, s) \/ LogoutHint(w, s)
    \/ \E c \in Code : CodeRead(w, c)
    \/ \E t \in Token : RefreshRead(w, t) \/ LogoutToken(w, t)

Next ==
    \/ \E s \in Session, c \in Code : Login(s, c)
    \/ \E s \in Session, t \in Token : PasswordGrant(s, t)
    \/ \E w \in Worker : Arrive(w) \/ Proceed(w) \/ Fail(w) \/ Recover(w)
    \/ Tick
    \/ SetEnabled

Spec == Init /\ [][Next]_vars

\* A statement that has been sent is executed, and row locks are granted in the
\* order of the requests, so no worker waits for ever for one that others keep
\* taking.  Nothing forces a request to arrive or a worker to fail.
FairSpec == Spec /\ \A w \in Worker : SF_vars(Proceed(w)) /\ WF_vars(Recover(w))

-----------------------------------------------------------------------------
(* Properties.                                                              *)

\* Every row and every request record is well formed.
TypeOK ==
    /\ clock \in Nat
    /\ enabled \in BOOLEAN
    /\ sessions \in [Session -> SessionRow]
    /\ codes \in [Code -> CodeRow]
    /\ tokens \in [Token -> TokenRow]
    /\ req \in [Worker -> Request]

Exists(t) == tokens[t].st # "absent"

\* An authorization code buys at most one token family, however many workers
\* present it at once (AuthorizationCodeRepository.consume).
OneFamilyPerCode ==
    \A t, u \in Token :
        /\ Exists(t) /\ Exists(u)
        /\ tokens[t].origin # None /\ tokens[t].origin = tokens[u].origin
        => tokens[t].family = tokens[u].family

\* A family never forks: no two tokens of a family have the same generation
\* (RefreshTokenRepository.consume under lock_session).
NoFork ==
    \A t, u \in Token :
        /\ Exists(t) /\ Exists(u)
        /\ tokens[t].family = tokens[u].family /\ tokens[t].gen = tokens[u].gen
        => t = u

\* A consumed token names its successor.
Replaced ==
    \A t \in Token : Exists(t) /\ tokens[t].used =>
        \E u \in Token :
           /\ Exists(u) /\ tokens[t].replacedBy = u
           /\ tokens[u].family = tokens[t].family
           /\ tokens[u].sess = tokens[t].sess
           /\ tokens[u].gen = tokens[t].gen + 1

\* A successor has a consumed predecessor.
Descended ==
    \A t \in Token : Exists(t) /\ tokens[t].gen > 0 =>
        \E p \in Token :
           /\ Exists(p) /\ tokens[p].used
           /\ tokens[p].family = tokens[t].family
           /\ tokens[p].sess = tokens[t].sess
           /\ tokens[t].gen = tokens[p].gen + 1

\* A token is consumed exactly when its successor exists: a rotation is never
\* committed by half (TokenService.refresh and issue in one transaction).
RotationAtomic == Replaced /\ Descended

\* Once a session is revoked no successor of a rotation is left active on it:
\* a refresh racing the revocation is either revoked with its family or fails
\* (UserSessionRepository.revoke: "a racing refresh cannot leave an active
\* descendant behind").  What a code grant leaves is a first token that never
\* rotates.
DeadSessionInert ==
    \A t \in Token :
        tokens[t].st = "present" /\ sessions[tokens[t].sess].revoked
            => tokens[t].revoked \/ (tokens[t].gen = 0 /\ ~tokens[t].used)

\* No idle window and no refresh token outlives the session's absolute maximum
\* (the min() of create, reuse, refresh and issue).
ExpiryWithinSession ==
    /\ \A s \in Session : sessions[s].idle <= sessions[s].max
    /\ \A t \in Token : Exists(t) => tokens[t].exp <= sessions[tokens[t].sess].max

\* The docstring of revoke_session, "Revoke a realm session and all its
\* families", read of the committed rows.
AllFamiliesRevoked ==
    \A t \in Token :
        tokens[t].st = "present" /\ sessions[tokens[t].sess].revoked
            => tokens[t].revoked

RevokedSessionKept ==
    \A s \in Session :
        sessions[s].st = "present" /\ sessions[s].revoked /\ sessions'[s].st = "present"
            => /\ sessions'[s].revoked
               /\ sessions'[s].idle = sessions[s].idle /\ sessions'[s].max = sessions[s].max

\* A revoked session stays revoked and is never extended, although reuse writes
\* the row by primary key alone: issue denies and the write is rolled back.
RevokedSessionFrozen == [][RevokedSessionKept]_vars

\* A refresh request that reaches its answer without rotating or revoking.
TurnedAway(w) ==
    req[w].pc \in {"refresh.lock", "refresh.check", "refresh.rotate"}
        /\ req'[w].pc = "idle"

OnlyUnusedTurnedAway ==
    \A w \in Worker :
        TurnedAway(w) /\ RefreshMatches(req[w].tok, clock) /\ Eligible(req[w].sess, clock)
            => ~tokens[req[w].tok].used

\* Reuse of a consumed token is never answered by a plain rejection while the
\* session is still good: it always goes through the defensive revocation, also
\* when the token is consumed while the request waits for the session lock.
NoSilentReuse == [][OnlyUnusedTurnedAway]_vars

\* Some request waits for a primary key beyond the bound (random keys do not
\* run out): only Fail can end it.
OutOfKeys ==
    \E w \in Worker :
        \/ req[w].pc = "reuse.commit" /\ \A c \in Code : ~Absent(codes, c)
        \/ /\ req[w].pc \in {"code.commit", "refresh.commit"}
           /\ \A t \in Token : ~Absent(tokens, t)

\* Requests never come to a standstill: of those that have begun, one can take its next
\* step, so neither two that lock session, code and token rows in sequence wait for
\* each other, nor one for a lock it holds itself.
NoStandstill ==
    (\E w \in Worker : req[w].pc \in InFlight) /\ ~OutOfKeys
        => ENABLED (\E w \in Worker : Proceed(w))

-----------------------------------------------------------------------------
(* The promise behind the protocol.                                         *)

ClosedSessions == {s \in Session : ~Absent(sessions, s) /\ sessions[s].revoked}

\* What the committed row of a token says of it, `used` being its consumption.
LedgerEntry(t) ==
    [sess |-> tokens[t].sess, code |-> tokens[t].origin, family |-> tokens[t].family,
     gen |-> tokens[t].gen, spent |-> tokens[t].used]

Ledger == INSTANCE GrantLedger
              WITH closed <- ClosedSessions, ledger <- [t \in Token |-> LedgerEntry(t)]

\* The committed rows are a ledger of grants: whatever requests interleave, wait,
\* are refused or rolled back, each commit opens one family, extends one at its
\* tip under an open session, closes a session, or does not show.
ImplementsLedger == Ledger!Spec

-----------------------------------------------------------------------------
(* The inductive invariant behind the safety properties.                    *)

\* Foreign keys hold, and a token row agrees with its family and its code.
RowsLinked ==
    /\ \A c \in Code : codes[c].st # "absent" =>
          codes[c].sess \in Session /\ ~Absent(sessions, codes[c].sess)
    /\ \A t \in Token : Exists(t) =>
          /\ tokens[t].sess \in Session /\ ~Absent(sessions, tokens[t].sess)
          /\ tokens[t].family \in Token /\ Exists(tokens[t].family)
          /\ tokens[t].origin # None =>
               ~Absent(codes, tokens[t].origin) /\ codes[tokens[t].origin].consumed

\* A request names the rows it works on, and the session those rows belong to.
RequestsLinked ==
    \A w \in Worker :
        /\ req[w].pc \in InFlight =>
             req[w].sess \in Session /\ ~Absent(sessions, req[w].sess)
        /\ req[w].pc \in CodePC =>
             /\ req[w].code \in Code /\ ~Absent(codes, req[w].code)
             /\ req[w].sess = codes[req[w].code].sess
        /\ req[w].pc \in RefreshPC =>
             /\ req[w].tok \in Token /\ ~Absent(tokens, req[w].tok)
             /\ req[w].sess = tokens[req[w].tok].sess

\* A row has one lock holder.
LocksExclusive ==
    \A v, w \in Worker :
        \/ /\ req[v].pc \in SessionHolder /\ req[w].pc \in SessionHolder
           /\ req[v].sess = req[w].sess
        \/ /\ req[v].pc \in {"code.issue", "code.commit"}
           /\ req[w].pc \in {"code.issue", "code.commit"}
           /\ req[v].code = req[w].code
        => v = w

\* What a request has checked under its locks stays true until it ends.
ChecksHold ==
    \A w \in Worker :
        /\ req[w].pc \in {"reuse.commit"} \cup (RefreshPC \ {"refresh.lock"}) =>
             ~sessions[req[w].sess].revoked
        /\ req[w].pc \in {"refresh.rotate", "refresh.commit"} => ~tokens[req[w].tok].used
        /\ req[w].pc \in {"code.issue", "code.commit"} => ~codes[req[w].code].consumed
        /\ req[w].pc \in {"reuse.issue", "reuse.commit", "refresh.commit"} =>
             req[w].idle <= sessions[req[w].sess].max
        /\ req[w].pc \in {"code.commit", "refresh.commit"} =>
             req[w].exp <= sessions[req[w].sess].max

\* The safety properties of this module, with what makes them inductive: every
\* lock has one holder, and what was checked under it stays true.
IInv ==
    /\ RowsLinked
    /\ RequestsLinked
    /\ LocksExclusive
    /\ ChecksHold
    /\ OneFamilyPerCode
    /\ NoFork
    /\ RotationAtomic
    /\ DeadSessionInert
    /\ ExpiryWithinSession
=============================================================================
