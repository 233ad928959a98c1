----------------------------- MODULE Session_proofs -----------------------------
(***************************************************************************)
(* Proofs about SessionTokens and SessionCleanup, for every value of their *)
(* constants: what requests promise among themselves, that it holds beside *)
(* cleanup too, and that cleanup leaves alone what it should.              *)
(***************************************************************************)
EXTENDS SessionCleanup, TLAPS

LEMMA LesserType == \A a, b \in Nat : Lesser(a, b) \in Nat /\ Lesser(a, b) <= a
                                      /\ Lesser(a, b) <= b
BY DEF Lesser

LEMMA NoRequestType == NoRequest \in Request
BY DEF NoRequest, Asking, Request

-----------------------------------------------------------------------------
(* Type correctness.                                                        *)

LEMMA InitType == Init => TypeOK
BY LifetimeAssumption, NoRequestType
   DEF Init, TypeOK, SessionRow, CodeRow, TokenRow, RowStatus

\* A step that gives one worker a well-formed request and leaves the tables alone.
LEMMA TypeRequestOnly ==
    ASSUME TypeOK, NEW w \in Worker, NEW r \in Request,
           req' = [req EXCEPT ![w] = r],
           UNCHANGED <<clock, enabled, sessions, codes, tokens>>
    PROVE  TypeOK'
BY DEF TypeOK

LEMMA AskingType ==
    ASSUME NEW pc \in InFlight \cup {"idle", "failed"}, NEW s \in Session \cup {None},
           NEW c \in Code \cup {None}, NEW t \in Token \cup {None}, NEW now \in Nat
    PROVE  Asking(pc, s, c, t, now) \in Request
BY DEF Asking, Request

\* The fields of the rows, as the steps use them.
LEMMA FieldTypes ==
    ASSUME TypeOK
    PROVE  /\ clock \in Nat
           /\ \A s \in Session : sessions[s].idle \in Nat /\ sessions[s].max \in Nat
           /\ \A c \in Code : codes[c].sess \in Session \cup {None}
           /\ \A t \in Token : tokens[t].sess \in Session \cup {None}
           /\ \A w \in Worker : req[w] \in Request
BY DEF TypeOK, SessionRow, CodeRow, TokenRow

LEMMA TypeArrive ==
    ASSUME TypeOK, NEW w \in Worker, Arrive(w)
    PROVE  TypeOK'
<1>. USE FieldTypes, AskingType, TypeRequestOnly
     DEF InFlight, ReusePC, CodePC, RefreshPC, LogoutPC
<1>1. ASSUME NEW s \in Session, ReuseRead(w, s) \/ LogoutHint(w, s)
      PROVE  TypeOK'
  BY <1>1 DEF ReuseRead, LogoutHint
<1>2. ASSUME NEW c \in Code, CodeRead(w, c)
      PROVE  TypeOK'
  BY <1>2 DEF CodeRead
<1>3. ASSUME NEW t \in Token, RefreshRead(w, t) \/ LogoutToken(w, t)
      PROVE  TypeOK'
  BY <1>3 DEF RefreshRead, LogoutToken
<1>. QED BY <1>1, <1>2, <1>3 DEF Arrive

LEMMA TypeNewSession ==
    ASSUME NEW now \in Nat
    PROVE  NewSession(now) \in SessionRow /\ NewSession(now).idle \in Nat
BY LesserType, LifetimeAssumption DEF NewSession, SessionRow, RowStatus

LEMMA TypeNewCode ==
    ASSUME NEW s \in Session, NEW now \in Nat
    PROVE  NewCode(s, now) \in CodeRow
BY LifetimeAssumption DEF NewCode, CodeRow, RowStatus

LEMMA TypeFirstToken ==
    ASSUME NEW t \in Token, NEW s \in Session, NEW origin \in Code \cup {None},
           NEW exp \in Nat
    PROVE  FirstToken(t, s, origin, exp) \in TokenRow
BY DEF FirstToken, TokenRow, RowStatus

LEMMA TypeNextToken ==
    ASSUME TypeOK, NEW t \in Token, NEW exp \in Nat
    PROVE  NextToken(t, exp) \in TokenRow
BY DEF TypeOK, NextToken, TokenRow, RowStatus

LEMMA TypeExpiry ==
    ASSUME TypeOK, NEW s \in Session, NEW idle \in Nat
    PROVE  /\ RefreshExpiry(s, idle, clock) \in Nat
           /\ RefreshExpiry(s, idle, clock) <= sessions[s].max
<1>1. sessions[s].max \in Nat /\ clock \in Nat
  BY FieldTypes
<1>. QED BY <1>1, LifetimeAssumption DEF RefreshExpiry, Lesser

LEMMA TypeRevoke ==
    ASSUME TypeOK, NEW s \in Session
    PROVE  /\ [sessions EXCEPT ![s].revoked = TRUE] \in [Session -> SessionRow]
           /\ RevokeFamilies(s) \in [Token -> TokenRow]
<1>1. [sessions EXCEPT ![s].revoked = TRUE] \in [Session -> SessionRow]
  BY DEF TypeOK, SessionRow
<1>2. RevokeFamilies(s) \in [Token -> TokenRow]
  BY DEF TypeOK, RevokeFamilies, TokenRow
<1>. QED BY <1>1, <1>2

LEMMA TypeProceed ==
    ASSUME TypeOK, RequestsLinked, NEW w \in Worker, Proceed(w)
    PROVE  TypeOK'
<1>. DEFINE s == req[w].sess
<1>r. /\ req[w] \in Request /\ NoRequest \in Request
      /\ req[w].pc \in InFlight => s \in Session
      /\ req[w].pc \in CodePC => req[w].code \in Code
      /\ req[w].pc \in RefreshPC => req[w].tok \in Token
  BY FieldTypes, NoRequestType DEF RequestsLinked
<1>. USE DEF InFlight, ReusePC, CodePC, RefreshPC, LogoutPC
<1>1. CASE ReuseTouch(w)
  <2>1. Lesser(sessions[s].max, req[w].now + IdleLife) \in Nat
    BY <1>1, <1>r, FieldTypes, LesserType, LifetimeAssumption DEF ReuseTouch, Request
  <2>. DEFINE i == Lesser(sessions[s].max, req[w].now + IdleLife)
  <2>2. [req[w] EXCEPT !.pc = "reuse.issue", !.now = 0, !.idle = i] \in Request
    BY <1>r, <2>1 DEF Request
  <2>. QED BY <1>1, <1>r, <2>2, TypeRequestOnly DEF ReuseTouch, Finish, TypeOK
<1>i. CASE ReuseIssue(w)
  <2>1. [req[w] EXCEPT !.pc = "reuse.commit", !.now = clock] \in Request
    BY <1>r, FieldTypes DEF Request
  <2>. QED BY <1>i, <2>1, TypeRequestOnly DEF ReuseIssue
<1>2. CASE ReuseCommit(w)
  <2>. PICK c \in Code : codes' = [codes EXCEPT ![c] = NewCode(s, req[w].now)]
    BY <1>2 DEF ReuseCommit
  <2>0. req[w].now \in Nat /\ s \in Session
    BY <1>2, <1>r DEF ReuseCommit, Request
  <2>1. codes' \in [Code -> CodeRow]
    BY <2>0, TypeNewCode DEF TypeOK
  <2>2. sessions' \in [Session -> SessionRow]
    BY <1>2, <1>r DEF ReuseCommit, TypeOK, SessionRow, Request
  <2>. QED BY <1>2, <1>r, <2>1, <2>2 DEF ReuseCommit, Finish, TypeOK
<1>3. CASE \/ ReuseDenied(w) \/ CodeRejected(w) \/ CodeIssueDenied(w)
           \/ RefreshLockRejected(w) \/ RefreshRejected(w) \/ RefreshRotateDenied(w)
  BY <1>3, <1>r, TypeRequestOnly
     DEF ReuseDenied, CodeRejected, CodeIssueDenied, RefreshLockRejected,
         RefreshRejected, RefreshRotateDenied, Finish
<1>4. CASE CodeConsume(w) \/ RefreshLock(w)
  <2>. DEFINE r1 == [req[w] EXCEPT !.pc = "code.issue", !.now = 0,
                                   !.idle = sessions[s].idle]
              r2 == [req[w] EXCEPT !.pc = "refresh.check", !.now = 0]
  <2>1. r2 \in Request
    BY <1>r DEF Request
  <2>2. ASSUME CodeConsume(w)
        PROVE  r1 \in Request
    <3>1. sessions[s].idle \in Nat
      BY <1>r, <2>2, FieldTypes DEF CodeConsume
    <3>. QED BY <1>r, <3>1 DEF Request
  <2>. QED BY <1>4, <2>1, <2>2, TypeRequestOnly DEF CodeConsume, RefreshLock, TypeOK
<1>5. CASE CodeIssue(w)
  <2>. DEFINE e == RefreshExpiry(s, req[w].idle, clock)
  <2>1. e \in Nat
    BY <1>5, <1>r, FieldTypes, TypeExpiry DEF CodeIssue, Request
  <2>2. [req[w] EXCEPT !.pc = "code.commit", !.idle = 0, !.exp = e] \in Request
    BY <1>r, <2>1 DEF Request
  <2>. QED BY <1>5, <2>2, TypeRequestOnly DEF CodeIssue, TypeOK
<1>6. CASE CodeCommit(w)
  <2>. PICK t \in Token : tokens' = [tokens EXCEPT ![t] =
                            FirstToken(t, s, req[w].code, req[w].exp)]
    BY <1>6 DEF CodeCommit
  <2>1. tokens' \in [Token -> TokenRow]
    BY <1>6, <1>r, TypeFirstToken DEF CodeCommit, TypeOK, Request
  <2>2. codes' \in [Code -> CodeRow]
    BY <1>6 DEF CodeCommit, TypeOK, CodeRow
  <2>. QED BY <1>6, <1>r, <2>1, <2>2 DEF CodeCommit, Finish, TypeOK
<1>7. CASE RefreshCheck(w)
  <2>1. [req[w] EXCEPT !.pc = "refresh.reuse", !.now = clock] \in Request
    BY <1>r, FieldTypes DEF Request
  <2>2. [req[w] EXCEPT !.pc = "refresh.rotate", !.now = clock] \in Request
    BY <1>r, FieldTypes DEF Request
  <2>. QED BY <1>7, <2>1, <2>2, TypeRequestOnly DEF RefreshCheck, TypeOK
<1>8. CASE RefreshRotate(w)
  <2>. DEFINE i == Lesser(sessions[s].max, req[w].now + IdleLife)
              e == RefreshExpiry(s, i, clock)
  <2>1. i \in Nat
    BY <1>8, <1>r, FieldTypes, LesserType, LifetimeAssumption DEF RefreshRotate, Request
  <2>2. e \in Nat
    BY <1>8, <1>r, <2>1, TypeExpiry DEF RefreshRotate
  <2>3. [req[w] EXCEPT !.pc = "refresh.commit", !.now = 0, !.idle = i, !.exp = e]
          \in Request
    BY <1>r, <2>1, <2>2 DEF Request
  <2>. QED BY <1>8, <2>3, TypeRequestOnly DEF RefreshRotate, TypeOK
<1>9. CASE RefreshCommit(w)
  <2>. DEFINE t == req[w].tok
  <2>. PICK u \in Token : tokens' = [tokens EXCEPT
                            ![t] = [@ EXCEPT !.used = TRUE, !.replacedBy = u],
                            ![u] = NextToken(t, req[w].exp)]
    BY <1>9 DEF RefreshCommit
  <2>1. tokens' \in [Token -> TokenRow]
    <3>1. tokens[t] \in TokenRow
      BY <1>9, <1>r DEF RefreshCommit, TypeOK
    <3>2. [tokens[t] EXCEPT !.used = TRUE, !.replacedBy = u] \in TokenRow
      BY <3>1 DEF TokenRow
    <3>3. NextToken(t, req[w].exp) \in TokenRow
      BY <1>9, <1>r, TypeNextToken DEF RefreshCommit, Request
    <3>. QED BY <3>2, <3>3 DEF TypeOK
  <2>2. sessions' \in [Session -> SessionRow]
    BY <1>9, <1>r DEF RefreshCommit, TypeOK, SessionRow, Request
  <2>. QED BY <1>9, <1>r, <2>1, <2>2 DEF RefreshCommit, Finish, TypeOK
<1>10. CASE RefreshReuse(w) \/ LogoutRevoke(w)
  BY <1>10, <1>r, TypeRevoke DEF RefreshReuse, LogoutRevoke, Finish, TypeOK
<1>11. CASE LogoutLock(w)
  <2>1. [req[w] EXCEPT !.pc = "logout.revoke"] \in Request
    BY <1>r DEF Request
  <2>. QED BY <1>11, <1>r, <2>1, TypeRequestOnly DEF LogoutLock, Finish, TypeOK
<1>. QED BY <1>1, <1>i, <1>2, <1>3, <1>4, <1>5, <1>6, <1>7, <1>8, <1>9, <1>10, <1>11 DEF Proceed

LEMMA TypeNext ==
    ASSUME TypeOK, RequestsLinked, [Next]_vars
    PROVE  TypeOK'
<1>1. ASSUME NEW s \in Session, NEW c \in Code, Login(s, c)
      PROVE  TypeOK'
  BY <1>1, FieldTypes, TypeNewSession, TypeNewCode DEF Login, TypeOK
<1>2. ASSUME NEW s \in Session, NEW t \in Token, PasswordGrant(s, t)
      PROVE  TypeOK'
  <2>. DEFINE e == Lesser(NewSession(clock).idle, clock + RefreshLife)
  <2>0. NewSession(clock).idle \in Nat
    BY FieldTypes, TypeNewSession
  <2>3. clock + RefreshLife \in Nat
    BY FieldTypes, LifetimeAssumption
  <2>1. e \in Nat
    BY <2>0, <2>3, LesserType
  <2>2. FirstToken(t, s, None, e) \in TokenRow /\ NewSession(clock) \in SessionRow
    BY <2>1, FieldTypes, TypeNewSession, TypeFirstToken
  <2>. QED BY <1>2, <2>2 DEF PasswordGrant, TypeOK
<1>3. ASSUME NEW w \in Worker, Fail(w) \/ Recover(w)
      PROVE  TypeOK'
  BY <1>3, NoRequestType, AskingType, FieldTypes, TypeRequestOnly DEF Fail, Recover, Finish
<1>4. CASE Tick \/ UNCHANGED vars
  BY <1>4 DEF Tick, vars, TypeOK
<1>5. CASE SetEnabled
  BY <1>5 DEF SetEnabled, TypeOK
<1>. QED BY <1>1, <1>2, <1>3, <1>4, <1>5, TypeArrive, TypeProceed DEF Next

-----------------------------------------------------------------------------
(* How the tables change.                                                   *)

\* A committed row keeps its keys and links; used and consumed are final.
RowsStable ==
    /\ \A s \in Session : ~Absent(sessions, s) =>
          ~Absent(sessions, s)' /\ sessions'[s].max = sessions[s].max
    /\ \A c \in Code : ~Absent(codes, c) =>
          /\ ~Absent(codes, c)' /\ codes'[c].sess = codes[c].sess
          /\ codes[c].consumed => codes'[c].consumed
    /\ \A t \in Token : Exists(t) =>
          /\ Exists(t)'
          /\ tokens'[t].sess = tokens[t].sess /\ tokens'[t].origin = tokens[t].origin
          /\ tokens'[t].family = tokens[t].family /\ tokens'[t].gen = tokens[t].gen
          /\ tokens'[t].exp = tokens[t].exp
          /\ tokens[t].used => tokens'[t].used

\* The steps that change a table.
TableStep ==
    \/ \E s \in Session, c \in Code : Login(s, c)
    \/ \E s \in Session, t \in Token : PasswordGrant(s, t)
    \/ \E w \in Worker : \/ ReuseCommit(w) \/ CodeCommit(w) \/ RefreshCommit(w)
                         \/ RefreshReuse(w) \/ LogoutRevoke(w)

LEMMA StepKinds ==
    ASSUME [Next]_vars
    PROVE  TableStep \/ UNCHANGED <<sessions, codes, tokens>>
<1>1. ASSUME NEW w \in Worker, Arrive(w)
      PROVE  UNCHANGED <<sessions, codes, tokens>>
  BY <1>1 DEF Arrive, ReuseRead, LogoutHint, CodeRead, RefreshRead, LogoutToken
<1>2. ASSUME NEW w \in Worker, Proceed(w)
      PROVE  TableStep \/ UNCHANGED <<sessions, codes, tokens>>
  BY <1>2 DEF Proceed, TableStep, ReuseTouch, ReuseIssue, ReuseDenied, CodeConsume, CodeRejected,
     CodeIssue, CodeIssueDenied, RefreshLock, RefreshLockRejected, RefreshCheck,
     RefreshRejected, RefreshRotate, RefreshRotateDenied, LogoutLock
<1>3. ASSUME NEW w \in Worker, Fail(w) \/ Recover(w)
      PROVE  UNCHANGED <<sessions, codes, tokens>>
  BY <1>3 DEF Fail, Recover
<1>4. CASE Tick \/ SetEnabled \/ UNCHANGED vars
  BY <1>4 DEF Tick, SetEnabled, vars
<1>. QED BY <1>1, <1>2, <1>3, <1>4 DEF Next, TableStep

LEMMA NewSessionFields ==
    ASSUME TypeOK
    PROVE  /\ NewSession(clock).st = "present" /\ ~NewSession(clock).revoked
           /\ NewSession(clock).idle <= NewSession(clock).max
           /\ Lesser(NewSession(clock).idle, clock + RefreshLife) <= NewSession(clock).max
BY FieldTypes, LifetimeAssumption DEF NewSession, Lesser

\* The effect of each table step, row by row and field by field.

\* INSERT INTO user_sessions
Opens(s) ==
    /\ sessions'[s].st = "present" /\ ~sessions'[s].revoked
    /\ sessions'[s].idle <= sessions'[s].max
    /\ \A r \in Session \ {s} : sessions'[r] = sessions[r]

\* INSERT INTO authorization_codes
Codes(c, s) ==
    /\ codes'[c].st = "present" /\ codes'[c].sess = s /\ ~codes'[c].consumed
    /\ \A d \in Code \ {c} : codes'[d] = codes[d]

\* INSERT INTO refresh_tokens: the first token of a family.
Founds(t, s, origin, exp) ==
    /\ tokens'[t].st = "present" /\ tokens'[t].sess = s /\ tokens'[t].origin = origin
    /\ tokens'[t].family = t /\ tokens'[t].gen = 0 /\ tokens'[t].exp = exp
    /\ ~tokens'[t].used /\ ~tokens'[t].revoked /\ tokens'[t].replacedBy = None
    /\ \A u \in Token \ {t} : tokens'[u] = tokens[u]

LEMMA LoginEffect ==
    ASSUME TypeOK, NEW s \in Session, NEW c \in Code, Login(s, c)
    PROVE  /\ Absent(sessions, s) /\ Absent(codes, c)
           /\ Opens(s) /\ Codes(c, s)
           /\ tokens' = tokens
<1>1. Opens(s)
  BY NewSessionFields DEF Login, TypeOK, Opens
<1>2. Codes(c, s)
  BY DEF Login, TypeOK, Codes, NewCode
<1>. QED BY <1>1, <1>2 DEF Login

LEMMA PasswordGrantEffect ==
    ASSUME TypeOK, NEW s \in Session, NEW t \in Token, PasswordGrant(s, t)
    PROVE  /\ Absent(sessions, s) /\ Absent(tokens, t)
           /\ Opens(s)
           /\ Founds(t, s, None, tokens'[t].exp) /\ tokens'[t].exp <= sessions'[s].max
           /\ codes' = codes
<1>1. Opens(s)
  BY NewSessionFields DEF PasswordGrant, TypeOK, Opens
<1>2. Founds(t, s, None, tokens'[t].exp)
  BY DEF PasswordGrant, TypeOK, Founds, FirstToken
<1>3. tokens'[t].exp <= sessions'[s].max
  BY NewSessionFields DEF PasswordGrant, TypeOK, FirstToken
<1>. QED BY <1>1, <1>2, <1>3 DEF PasswordGrant

\* UPDATE user_sessions SET idle_expires_at: nothing else changes.
SetsIdle(s, idle) ==
    /\ sessions'[s].st = sessions[s].st /\ sessions'[s].revoked = sessions[s].revoked
    /\ sessions'[s].max = sessions[s].max /\ sessions'[s].idle = idle
    /\ \A r \in Session \ {s} : sessions'[r] = sessions[r]

LEMMA ReuseCommitEffect ==
    ASSUME TypeOK, RequestsLinked, NEW w \in Worker, ReuseCommit(w)
    PROVE  LET s == req[w].sess IN
           /\ req[w].pc = "reuse.commit" /\ s \in Session /\ ~Absent(sessions, s)
           /\ SetsIdle(s, req[w].idle)
           /\ \E c \in Code : Absent(codes, c) /\ Codes(c, s)
           /\ tokens' = tokens
<1>1. req[w].sess \in Session /\ ~Absent(sessions, req[w].sess)
  BY DEF ReuseCommit, RequestsLinked, InFlight, ReusePC
<1>2. SetsIdle(req[w].sess, req[w].idle)
  BY <1>1 DEF ReuseCommit, TypeOK, SetsIdle, SessionRow
<1>3. \E c \in Code : Absent(codes, c) /\ Codes(c, req[w].sess)
  BY DEF ReuseCommit, TypeOK, Codes, NewCode
<1>. QED BY <1>1, <1>2, <1>3 DEF ReuseCommit

LEMMA CodeCommitEffect ==
    ASSUME TypeOK, RequestsLinked, NEW w \in Worker, CodeCommit(w)
    PROVE  LET c == req[w].code IN
           /\ req[w].pc = "code.commit" /\ c \in Code /\ ~Absent(codes, c)
           /\ req[w].sess \in Session /\ ~Absent(sessions, req[w].sess)
           /\ codes'[c].st = codes[c].st /\ codes'[c].sess = codes[c].sess
           /\ codes'[c].consumed /\ codes'[c].exp = codes[c].exp
           /\ \A d \in Code \ {c} : codes'[d] = codes[d]
           /\ \E t \in Token : Absent(tokens, t) /\ Founds(t, req[w].sess, c, req[w].exp)
           /\ sessions' = sessions
<1>1. /\ req[w].sess \in Session /\ ~Absent(sessions, req[w].sess)
      /\ req[w].code \in Code /\ ~Absent(codes, req[w].code)
  BY DEF CodeCommit, RequestsLinked, InFlight, CodePC
<1>2. /\ codes'[req[w].code].st = codes[req[w].code].st
      /\ codes'[req[w].code].sess = codes[req[w].code].sess
      /\ codes'[req[w].code].consumed /\ codes'[req[w].code].exp = codes[req[w].code].exp
  BY <1>1 DEF CodeCommit, TypeOK, CodeRow
<1>3. \E t \in Token : Absent(tokens, t)
                         /\ Founds(t, req[w].sess, req[w].code, req[w].exp)
  BY DEF CodeCommit, TypeOK, Founds, FirstToken
<1>. QED BY <1>1, <1>2, <1>3 DEF CodeCommit, TypeOK

\* The successor u of token t.
Rotates(t, u, exp) ==
    /\ Absent(tokens, u) /\ u # t
    /\ tokens'[u].st = "present" /\ tokens'[u].sess = tokens[t].sess
    /\ tokens'[u].origin = tokens[t].origin /\ tokens'[u].family = tokens[t].family
    /\ tokens'[u].gen = tokens[t].gen + 1 /\ tokens'[u].exp = exp
    /\ ~tokens'[u].used /\ ~tokens'[u].revoked /\ tokens'[u].replacedBy = None
    /\ tokens'[t].used /\ tokens'[t].replacedBy = u
    /\ tokens'[t].st = tokens[t].st /\ tokens'[t].revoked = tokens[t].revoked
    /\ tokens'[t].sess = tokens[t].sess /\ tokens'[t].origin = tokens[t].origin
    /\ tokens'[t].family = tokens[t].family /\ tokens'[t].gen = tokens[t].gen
    /\ tokens'[t].exp = tokens[t].exp
    /\ \A v \in Token \ {t, u} : tokens'[v] = tokens[v]

LEMMA RefreshCommitEffect ==
    ASSUME TypeOK, RequestsLinked, NEW w \in Worker, RefreshCommit(w)
    PROVE  LET t == req[w].tok
               s == req[w].sess IN
           /\ req[w].pc = "refresh.commit" /\ t \in Token /\ Exists(t)
           /\ s \in Session /\ s = tokens[t].sess /\ ~Absent(sessions, s)
           /\ SetsIdle(s, req[w].idle)
           /\ \E u \in Token : Rotates(t, u, req[w].exp)
           /\ codes' = codes
<1>1. /\ req[w].sess \in Session /\ ~Absent(sessions, req[w].sess)
      /\ req[w].tok \in Token /\ Exists(req[w].tok) /\ req[w].sess = tokens[req[w].tok].sess
  BY DEF RefreshCommit, RequestsLinked, InFlight, RefreshPC, Absent, Exists
<1>2. PICK u \in Token : /\ Absent(tokens, u)
                         /\ tokens' = [tokens EXCEPT
                              ![req[w].tok] = [@ EXCEPT !.used = TRUE, !.replacedBy = u],
                              ![u] = NextToken(req[w].tok, req[w].exp)]
  BY DEF RefreshCommit
<1>3. u # req[w].tok
  BY <1>1, <1>2 DEF Absent, Exists
<1>4. tokens'[req[w].tok] = [tokens[req[w].tok] EXCEPT !.used = TRUE, !.replacedBy = u]
  BY <1>1, <1>2, <1>3 DEF TypeOK
<1>5. Rotates(req[w].tok, u, req[w].exp)
  <2>. DEFINE t == req[w].tok
  <2>1. tokens'[u] = NextToken(t, req[w].exp)
    BY <1>1, <1>2, <1>3 DEF TypeOK
  <2>2. \A v \in Token \ {t, u} : tokens'[v] = tokens[v]
    BY <1>1, <1>2, <1>3 DEF TypeOK
  <2>3. tokens[t] \in TokenRow
    BY <1>1 DEF TypeOK
  <2>4. /\ tokens'[t].used /\ tokens'[t].replacedBy = u
        /\ tokens'[t].st = tokens[t].st /\ tokens'[t].revoked = tokens[t].revoked
        /\ tokens'[t].sess = tokens[t].sess /\ tokens'[t].origin = tokens[t].origin
        /\ tokens'[t].family = tokens[t].family /\ tokens'[t].gen = tokens[t].gen
        /\ tokens'[t].exp = tokens[t].exp
    BY <1>4, <2>3 DEF TokenRow
  <2>5. /\ tokens'[u].st = "present" /\ tokens'[u].sess = tokens[t].sess
        /\ tokens'[u].origin = tokens[t].origin /\ tokens'[u].family = tokens[t].family
        /\ tokens'[u].gen = tokens[t].gen + 1 /\ tokens'[u].exp = req[w].exp
        /\ ~tokens'[u].used /\ ~tokens'[u].revoked /\ tokens'[u].replacedBy = None
    BY <2>1 DEF NextToken
  <2>. QED BY <1>2, <1>3, <2>2, <2>4, <2>5 DEF Rotates
<1>6. SetsIdle(req[w].sess, req[w].idle)
  BY SMTT(20), <1>1 DEF RefreshCommit, TypeOK, SetsIdle, SessionRow
<1>. QED BY <1>1, <1>5, <1>6 DEF RefreshCommit

\* UPDATE refresh_tokens SET revoked_at: a row is revoked or left alone.
Revokes(s, t) ==
    /\ IF tokens[t].st = "present" /\ tokens[t].sess = s
       THEN tokens'[t].revoked
       ELSE tokens'[t].revoked = tokens[t].revoked
    /\ tokens'[t].st = tokens[t].st /\ tokens'[t].used = tokens[t].used
    /\ tokens'[t].sess = tokens[t].sess /\ tokens'[t].origin = tokens[t].origin
    /\ tokens'[t].family = tokens[t].family /\ tokens'[t].gen = tokens[t].gen
    /\ tokens'[t].exp = tokens[t].exp /\ tokens'[t].replacedBy = tokens[t].replacedBy

LEMMA RevokeEffect ==
    ASSUME TypeOK, RequestsLinked, NEW w \in Worker, RefreshReuse(w) \/ LogoutRevoke(w)
    PROVE  LET s == req[w].sess IN
           /\ req[w].pc \in {"refresh.reuse", "logout.revoke"}
           /\ s \in Session /\ ~Absent(sessions, s)
           /\ sessions'[s].revoked
           /\ sessions'[s].st = sessions[s].st
           /\ sessions'[s].idle = sessions[s].idle /\ sessions'[s].max = sessions[s].max
           /\ \A r \in Session \ {s} : sessions'[r] = sessions[r]
           /\ \A t \in Token : Revokes(s, t)
           /\ codes' = codes
<1>. DEFINE s == req[w].sess
<1>1. s \in Session /\ ~Absent(sessions, s)
  BY DEF RefreshReuse, LogoutRevoke, RequestsLinked, InFlight, RefreshPC, LogoutPC
<1>2. /\ sessions' = [sessions EXCEPT ![s].revoked = TRUE]
      /\ tokens' = RevokeFamilies(s)
  BY DEF RefreshReuse, LogoutRevoke
<1>3. /\ sessions'[s].revoked /\ sessions'[s].st = sessions[s].st
      /\ sessions'[s].idle = sessions[s].idle /\ sessions'[s].max = sessions[s].max
      /\ \A r \in Session \ {s} : sessions'[r] = sessions[r]
  BY <1>1, <1>2 DEF TypeOK, SessionRow
<1>4. ASSUME NEW t \in Token
      PROVE  Revokes(s, t)
  BY <1>2 DEF RevokeFamilies, TypeOK, TokenRow, Revokes
<1>. QED BY <1>1, <1>3, <1>4 DEF RefreshReuse, LogoutRevoke

LEMMA StableRows ==
    ASSUME TypeOK, RequestsLinked, [Next]_vars
    PROVE  RowsStable
<1>. USE DEF RowsStable, Absent, Exists
<1>1. ASSUME NEW s \in Session, NEW c \in Code, Login(s, c)
      PROVE  RowsStable
  BY <1>1, LoginEffect DEF Opens, Codes
<1>2. ASSUME NEW s \in Session, NEW t \in Token, PasswordGrant(s, t)
      PROVE  RowsStable
  BY <1>2, PasswordGrantEffect DEF Opens, Founds
<1>3. ASSUME NEW w \in Worker, ReuseCommit(w)
      PROVE  RowsStable
  BY <1>3, ReuseCommitEffect DEF Codes, SetsIdle
<1>4. ASSUME NEW w \in Worker, CodeCommit(w)
      PROVE  RowsStable
  BY <1>4, CodeCommitEffect DEF Founds
<1>5. ASSUME NEW w \in Worker, RefreshCommit(w)
      PROVE  RowsStable
  BY <1>5, RefreshCommitEffect DEF Rotates, SetsIdle
<1>6. ASSUME NEW w \in Worker, RefreshReuse(w) \/ LogoutRevoke(w)
      PROVE  RowsStable
  BY <1>6, RevokeEffect DEF Revokes
<1>7. CASE UNCHANGED <<sessions, codes, tokens>>
  BY <1>7
<1>. QED BY <1>1, <1>2, <1>3, <1>4, <1>5, <1>6, <1>7, StepKinds DEF TableStep

-----------------------------------------------------------------------------
(* The inductive invariant, one conjunct at a time.                         *)

LEMMA InitInv == Init => IInv
BY DEF Init, IInv, RowsLinked, RequestsLinked, LocksExclusive, ChecksHold,
       OneFamilyPerCode, NoFork, RotationAtomic, Replaced, Descended, DeadSessionInert,
       ExpiryWithinSession, Exists, NoRequest, Asking, InFlight, ReusePC, CodePC, RefreshPC, LogoutPC,
       SessionHolder

\* The rows a step inserts come with their links.
NewRowsLinked ==
    /\ \A c \in Code : codes[c].st = "absent" /\ codes'[c].st # "absent" =>
          codes'[c].sess \in Session /\ sessions'[codes'[c].sess].st # "absent"
    /\ \A t \in Token : tokens[t].st = "absent" /\ tokens'[t].st # "absent" =>
          /\ tokens'[t].sess \in Session /\ sessions'[tokens'[t].sess].st # "absent"
          /\ tokens'[t].family \in Token /\ tokens'[tokens'[t].family].st # "absent"
          /\ tokens'[t].origin # None =>
               /\ codes'[tokens'[t].origin].st # "absent"
               /\ codes'[tokens'[t].origin].consumed

LEMMA NewRows ==
    ASSUME TypeOK, RowsLinked, RequestsLinked, [Next]_vars
    PROVE  NewRowsLinked
<1>. USE DEF NewRowsLinked
<1>1. ASSUME NEW s \in Session, NEW c \in Code, Login(s, c)
      PROVE  NewRowsLinked
  BY <1>1, LoginEffect DEF Opens, Codes, Absent
<1>2. ASSUME NEW s \in Session, NEW t \in Token, PasswordGrant(s, t)
      PROVE  NewRowsLinked
  BY <1>2, PasswordGrantEffect DEF Opens, Founds, Absent
<1>3. ASSUME NEW w \in Worker, ReuseCommit(w)
      PROVE  NewRowsLinked
  BY <1>3, ReuseCommitEffect DEF Codes, SetsIdle, Absent
<1>4. ASSUME NEW w \in Worker, CodeCommit(w)
      PROVE  NewRowsLinked
  BY <1>4, CodeCommitEffect DEF Founds, Absent
<1>5. ASSUME NEW w \in Worker, RefreshCommit(w)
      PROVE  NewRowsLinked
  <2>. DEFINE t == req[w].tok
  <2>1. PICK u \in Token : Rotates(t, u, req[w].exp)
    BY <1>5, RefreshCommitEffect
  <2>2. /\ t \in Token /\ tokens[t].st # "absent"
        /\ req[w].sess = tokens[t].sess /\ req[w].sess \in Session
        /\ sessions'[tokens[t].sess].st # "absent" /\ codes' = codes
    BY <1>5, RefreshCommitEffect DEF Absent, Exists, SetsIdle
  <2>3. /\ tokens[t].family \in Token /\ tokens[tokens[t].family].st # "absent"
        /\ tokens[t].origin # None => codes[tokens[t].origin].st # "absent" /\ codes[tokens[t].origin].consumed
    BY <2>2 DEF RowsLinked, Exists, Absent
  <2>4. tokens'[tokens[t].family].st # "absent"
    BY <2>1, <2>2, <2>3 DEF Rotates, Absent
  <2>5. /\ tokens'[u].sess = tokens[t].sess /\ tokens'[u].family = tokens[t].family
        /\ tokens'[u].origin = tokens[t].origin
    BY <2>1 DEF Rotates
  <2>6. \A v \in Token : tokens[v].st = "absent" /\ tokens'[v].st # "absent" => v = u
    BY <2>1, <2>2 DEF Rotates
  <2>. QED BY <2>2, <2>3, <2>4, <2>5, <2>6
<1>6. ASSUME NEW w \in Worker, RefreshReuse(w) \/ LogoutRevoke(w)
      PROVE  NewRowsLinked
  BY <1>6, RevokeEffect DEF Revokes, Absent
<1>7. CASE UNCHANGED <<sessions, codes, tokens>>
  BY <1>7 DEF Absent
<1>. QED BY <1>1, <1>2, <1>3, <1>4, <1>5, <1>6, <1>7, StepKinds DEF TableStep

LEMMA NextRowsLinked ==
    ASSUME TypeOK, RowsLinked, RequestsLinked, [Next]_vars
    PROVE  RowsLinked'
<1>0. RowsStable
  BY StableRows
<1>. USE DEF Absent, Exists
<1>1. ASSUME NEW c \in Code, codes'[c].st # "absent"
      PROVE  codes'[c].sess \in Session /\ sessions'[codes'[c].sess].st # "absent"
  <2>1. CASE codes[c].st = "absent"
    BY <1>1, <2>1, NewRows DEF NewRowsLinked
  <2>2. CASE codes[c].st # "absent"
    BY <1>0, <2>2 DEF RowsLinked, RowsStable
  <2>. QED BY <2>1, <2>2
<1>2. ASSUME NEW t \in Token, tokens'[t].st # "absent"
      PROVE  /\ tokens'[t].sess \in Session /\ sessions'[tokens'[t].sess].st # "absent"
             /\ tokens'[t].family \in Token /\ tokens'[tokens'[t].family].st # "absent"
             /\ tokens'[t].origin # None => codes'[tokens'[t].origin].st # "absent" /\ codes'[tokens'[t].origin].consumed
  <2>1. CASE tokens[t].st = "absent"
    BY <1>2, <2>1, NewRows DEF NewRowsLinked
  <2>2. CASE tokens[t].st # "absent"
    <3>1. /\ tokens[t].sess \in Session /\ sessions'[tokens[t].sess].st # "absent"
          /\ tokens[t].family \in Token /\ tokens'[tokens[t].family].st # "absent"
      BY <1>0, <2>2 DEF RowsLinked, RowsStable
    <3>2. ASSUME tokens[t].origin # None
          PROVE  codes'[tokens[t].origin].st # "absent" /\ codes'[tokens[t].origin].consumed
      <4>1. tokens[t].origin \in Code /\ codes[tokens[t].origin].consumed
              /\ codes[tokens[t].origin].st # "absent"
        BY <2>2, <3>2 DEF RowsLinked, TypeOK, TokenRow
      <4>. QED BY <1>0, <4>1 DEF RowsStable
    <3>. QED BY <1>0, <2>2, <3>1, <3>2 DEF RowsStable
  <2>. QED BY <2>1, <2>2
<1>. QED BY <1>1, <1>2 DEF RowsLinked

\* How a request may move: one worker at a time.
LEMMA OneWorker ==
    ASSUME TypeOK, [Next]_vars
    PROVE  \/ req' = req
           \/ \E w \in Worker : /\ Arrive(w) \/ Proceed(w) \/ Fail(w) \/ Recover(w)
                                /\ \A v \in Worker \ {w} : req'[v] = req[v]
<1>1. ASSUME NEW w \in Worker, Arrive(w)
      PROVE  \A v \in Worker \ {w} : req'[v] = req[v]
  BY <1>1 DEF Arrive, ReuseRead, LogoutHint, CodeRead, RefreshRead, LogoutToken, TypeOK
<1>2. ASSUME NEW w \in Worker, Proceed(w)
      PROVE  \A v \in Worker \ {w} : req'[v] = req[v]
  BY <1>2 DEF Proceed, Finish, TypeOK, ReuseTouch, ReuseIssue, ReuseDenied, ReuseCommit, CodeConsume,
     CodeRejected, CodeIssue, CodeIssueDenied, CodeCommit, RefreshLock,
     RefreshLockRejected, RefreshCheck, RefreshRejected, RefreshRotate,
     RefreshRotateDenied, RefreshCommit, RefreshReuse, LogoutLock, LogoutRevoke
<1>3. ASSUME NEW w \in Worker, Fail(w) \/ Recover(w)
      PROVE  \A v \in Worker \ {w} : req'[v] = req[v]
  BY <1>3 DEF Fail, Recover, Finish, TypeOK
<1>4. ASSUME \/ \E s \in Session, c \in Code : Login(s, c)
             \/ \E s \in Session, t \in Token : PasswordGrant(s, t)
             \/ Tick \/ SetEnabled \/ UNCHANGED vars
      PROVE  req' = req
  BY <1>4 DEF Login, PasswordGrant, Tick, SetEnabled, vars
<1>. QED BY <1>1, <1>2, <1>3, <1>4 DEF Next

\* A request that is over holds nothing and names nothing.
Over(w) == req'[w].pc \in {"idle", "failed"}

\* The same request, one statement further: rows and session stay the same.
Advances(w, pc) ==
    /\ req'[w].pc = pc
    /\ req'[w].sess = req[w].sess /\ req'[w].code = req[w].code
    /\ req'[w].tok = req[w].tok

LEMMA ProceedEffect ==
    ASSUME TypeOK, NEW w \in Worker, Proceed(w)
    PROVE  \/ Over(w)
           \/ ReuseTouch(w) /\ Advances(w, "reuse.issue")
           \/ ReuseIssue(w) /\ Advances(w, "reuse.commit")
           \/ CodeConsume(w) /\ Advances(w, "code.issue")
           \/ CodeIssue(w) /\ Advances(w, "code.commit")
           \/ RefreshLock(w) /\ Advances(w, "refresh.check")
           \/ RefreshCheck(w) /\ Advances(w, "refresh.rotate") /\ ~tokens[req[w].tok].used
           \/ RefreshCheck(w) /\ Advances(w, "refresh.reuse")
           \/ RefreshRotate(w) /\ Advances(w, "refresh.commit")
           \/ LogoutLock(w) /\ Advances(w, "logout.revoke")
<1>. USE DEF TypeOK, Request, Over, Advances, Finish, NoRequest, Asking
<1>1. CASE \/ ReuseCommit(w) \/ ReuseDenied(w) \/ CodeRejected(w) \/ CodeIssueDenied(w)
           \/ CodeCommit(w) \/ RefreshLockRejected(w) \/ RefreshRejected(w)
           \/ RefreshRotateDenied(w) \/ RefreshCommit(w) \/ RefreshReuse(w)
           \/ LogoutRevoke(w)
  <2>1. Finish(w)
    BY <1>1 DEF ReuseCommit, ReuseDenied, CodeRejected, CodeIssueDenied, CodeCommit,
     RefreshLockRejected, RefreshRejected, RefreshRotateDenied, RefreshCommit,
     RefreshReuse, LogoutRevoke
  <2>. QED BY <2>1
<1>2. CASE ReuseTouch(w)
  <2>1. CASE sessions[req[w].sess].st = "present"
    BY ZenonT(30), <1>2, <2>1 DEF ReuseTouch
  <2>2. CASE sessions[req[w].sess].st # "present"
    BY <1>2, <2>2 DEF ReuseTouch
  <2>. QED BY <2>1, <2>2
<1>i. CASE ReuseIssue(w)
  BY <1>i DEF ReuseIssue
<1>3. CASE CodeConsume(w)
  BY <1>3 DEF CodeConsume
<1>4. CASE CodeIssue(w)
  BY <1>4 DEF CodeIssue
<1>5. CASE RefreshLock(w)
  BY <1>5 DEF RefreshLock
<1>6. CASE RefreshCheck(w)
  BY <1>6 DEF RefreshCheck
<1>7. CASE RefreshRotate(w)
  BY <1>7 DEF RefreshRotate
<1>8. CASE LogoutLock(w)
  BY <1>8 DEF LogoutLock
<1>. QED BY <1>1, <1>2, <1>i, <1>3, <1>4, <1>5, <1>6, <1>7, <1>8 DEF Proceed

\* A request that arrives names the rows it has read.
Names(w) ==
    /\ req[w].pc = "idle"
    /\ req'[w].pc \in {"reuse.touch", "code.consume", "refresh.lock", "logout.lock"}
    /\ req'[w].sess \in Session /\ ~Absent(sessions, req'[w].sess)
    /\ req'[w].pc = "code.consume" =>
         /\ req'[w].code \in Code /\ ~Absent(codes, req'[w].code)
         /\ req'[w].sess = codes[req'[w].code].sess
    /\ req'[w].pc = "refresh.lock" =>
         /\ req'[w].tok \in Token /\ ~Absent(tokens, req'[w].tok)
         /\ req'[w].sess = tokens[req'[w].tok].sess

LEMMA ArriveEffect ==
    ASSUME TypeOK, RowsLinked, NEW w \in Worker, Arrive(w)
    PROVE  Names(w)
<1>. USE DEF Asking, Absent, TypeOK, Names
<1>1. ASSUME NEW s \in Session, ReuseRead(w, s)
      PROVE  Names(w)
  BY <1>1 DEF ReuseRead, Eligible, EligibleWith
<1>2. ASSUME NEW s \in Session, LogoutHint(w, s)
      PROVE  Names(w)
  BY <1>2 DEF LogoutHint
<1>3. ASSUME NEW c \in Code, CodeRead(w, c)
      PROVE  Names(w)
  BY <1>3 DEF CodeRead, CodeClaimable, RowsLinked
<1>4. ASSUME NEW t \in Token, RefreshRead(w, t)
      PROVE  Names(w)
  BY <1>4 DEF RefreshRead, RowsLinked, Exists
<1>5. ASSUME NEW t \in Token, LogoutToken(w, t)
      PROVE  Names(w)
  BY <1>5 DEF LogoutToken, TokenConsumable, RefreshMatches, RowsLinked, Exists
<1>. QED BY <1>1, <1>2, <1>3, <1>4, <1>5 DEF Arrive

\* The actor of a step and the rest.
LEMMA NextRequestsLinked ==
    ASSUME TypeOK, RowsLinked, RequestsLinked, [Next]_vars
    PROVE  RequestsLinked'
<1>. DEFINE Linked(r, ses, cod, tkn) ==
              /\ r.pc \in InFlight => r.sess \in Session /\ ses[r.sess].st # "absent"
              /\ r.pc \in CodePC =>
                   /\ r.code \in Code /\ cod[r.code].st # "absent"
                   /\ r.sess = cod[r.code].sess
              /\ r.pc \in RefreshPC =>
                   /\ r.tok \in Token /\ tkn[r.tok].st # "absent"
                   /\ r.sess = tkn[r.tok].sess
<1>0. RowsStable
  BY StableRows
<1>. USE DEF InFlight, ReusePC, CodePC, RefreshPC, LogoutPC, Absent, Exists
<1>1. ASSUME NEW v \in Worker, req'[v] = req[v]
      PROVE  Linked(req'[v], sessions', codes', tokens')
  BY <1>0, <1>1 DEF RequestsLinked, RowsStable
<1>2. ASSUME NEW w \in Worker, Arrive(w)
      PROVE  Linked(req'[w], sessions', codes', tokens')
  BY <1>0, <1>2, ArriveEffect DEF RowsStable, Names
<1>3. ASSUME NEW w \in Worker, Proceed(w)
      PROVE  Linked(req'[w], sessions', codes', tokens')
  <2>1. CASE Over(w)
    BY <2>1 DEF Over
  <2>2. ASSUME NEW pc \in InFlight, Advances(w, pc), req[w].pc \in InFlight,
               pc \in CodePC => req[w].pc \in CodePC,
               pc \in RefreshPC => req[w].pc \in RefreshPC
        PROVE  Linked(req'[w], sessions', codes', tokens')
    BY <1>0, <2>2 DEF Advances, RequestsLinked, RowsStable
  <2>. QED BY <1>3, <2>1, <2>2, ProceedEffect DEF ReuseTouch, ReuseIssue, CodeConsume, CodeIssue,
       RefreshLock, RefreshCheck, RefreshRotate, LogoutLock
<1>4. ASSUME NEW w \in Worker, Fail(w) \/ Recover(w)
      PROVE  Linked(req'[w], sessions', codes', tokens')
  BY <1>4 DEF Fail, Recover, Finish, NoRequest, Asking, TypeOK
<1>5. ASSUME NEW v \in Worker
      PROVE  Linked(req'[v], sessions', codes', tokens')
  BY <1>1, <1>2, <1>3, <1>4, OneWorker
<1>. QED BY <1>5 DEF RequestsLinked

\* v and w both hold a lock on the same row.
SameLock(v, w) ==
    \/ /\ req[v].pc \in SessionHolder /\ req[w].pc \in SessionHolder
       /\ req[v].sess = req[w].sess
    \/ /\ req[v].pc \in {"code.issue", "code.commit"}
       /\ req[w].pc \in {"code.issue", "code.commit"}
       /\ req[v].code = req[w].code

LEMMA NextLocksExclusive ==
    ASSUME TypeOK, RowsLinked, LocksExclusive, [Next]_vars
    PROVE  LocksExclusive'
<1>. USE DEF SameLock
<1>0. \A v, w \in Worker : SameLock(v, w) => v = w
  BY DEF LocksExclusive
<1>1. ASSUME NEW w \in Worker, NEW v \in Worker, v # w, req'[v] = req[v],
             Arrive(w) \/ Fail(w) \/ Recover(w) \/ Proceed(w)
      PROVE  ~SameLock(v, w)' /\ ~SameLock(w, v)'
  <2>1. CASE Arrive(w)
    BY <2>1, ArriveEffect DEF Names, SessionHolder
  <2>2. CASE Fail(w) \/ Recover(w)
    BY <2>2 DEF Fail, Recover, Finish, NoRequest, Asking, TypeOK, SessionHolder
  <2>3. CASE Over(w)
    BY <2>3 DEF Over, SessionHolder
  <2>4. ASSUME NEW pc \in SessionHolder, Advances(w, pc), SessionFree(req[w].sess, w)
        PROVE  ~SameLock(v, w)' /\ ~SameLock(w, v)'
    BY <1>1, <2>4 DEF Advances, SessionFree, SessionHolder
  <2>5. ASSUME NEW pc \in SessionHolder, Advances(w, pc), req[w].pc \in SessionHolder
        PROVE  ~SameLock(v, w)' /\ ~SameLock(w, v)'
    BY <1>0, <1>1, <2>5 DEF Advances, SessionHolder
  <2>6. CASE Advances(w, "code.issue") /\ CodeFree(req[w].code, w)
    BY <1>1, <2>6 DEF Advances, CodeFree, SessionHolder
  <2>7. CASE Advances(w, "code.commit") /\ req[w].pc = "code.issue"
    BY <1>0, <1>1, <2>7 DEF Advances, SessionHolder
  <2>8. CASE Proceed(w)
    BY <2>3, <2>4, <2>5, <2>6, <2>7, <2>8, ProceedEffect
       DEF ReuseTouch, ReuseIssue, CodeConsume, CodeIssue, RefreshLock, RefreshCheck, RefreshRotate,
           LogoutLock, SessionHolder
  <2>. QED BY <1>1, <2>1, <2>2, <2>8
<1>2. ASSUME NEW v \in Worker, NEW w \in Worker, req'[v] = req[v], req'[w] = req[w],
             SameLock(v, w)'
      PROVE  v = w
  BY <1>0, <1>2
<1>3. \A v, w \in Worker : SameLock(v, w)' => v = w
  BY <1>1, <1>2, OneWorker
<1>. QED BY <1>3 DEF LocksExclusive

\* Whoever else changes a row would hold the lock this request holds on it.
LEMMA RowsUnderLock ==
    ASSUME TypeOK, RequestsLinked, LocksExclusive, [Next]_vars,
           NEW v \in Worker, req'[v] = req[v]
    PROVE  /\ req[v].pc \in SessionHolder =>
                sessions'[req[v].sess].revoked = sessions[req[v].sess].revoked
           /\ req[v].pc \in {"refresh.rotate", "refresh.commit"} =>
                tokens'[req[v].tok].used = tokens[req[v].tok].used
           /\ req[v].pc \in {"code.issue", "code.commit"} =>
                codes'[req[v].code].consumed = codes[req[v].code].consumed
<1>. USE DEF InFlight, ReusePC, CodePC, RefreshPC, LogoutPC, SessionHolder
<1>l. /\ req[v].pc \in SessionHolder =>
             req[v].sess \in Session /\ sessions[req[v].sess].st # "absent"
      /\ req[v].pc \in {"refresh.rotate", "refresh.commit"} =>
             /\ req[v].tok \in Token /\ tokens[req[v].tok].st # "absent"
             /\ req[v].sess = tokens[req[v].tok].sess
      /\ req[v].pc \in {"code.issue", "code.commit"} =>
             req[v].code \in Code /\ codes[req[v].code].st # "absent"
  BY DEF RequestsLinked, Absent
<1>m. ASSUME NEW w \in Worker, CodeCommit(w) \/ RefreshCommit(w) \/ RefreshReuse(w)
                               \/ LogoutRevoke(w)
      PROVE  req[v].pc \in SessionHolder \cup {"code.issue", "code.commit"} => w # v
  <2>1. Finish(w)
    BY <1>m DEF CodeCommit, RefreshCommit, RefreshReuse, LogoutRevoke
  <2>. QED BY <2>1 DEF Finish, NoRequest, Asking, TypeOK
<1>1. ASSUME NEW s \in Session, NEW c \in Code, Login(s, c)
      PROVE  /\ \A r \in Session : sessions[r].st # "absent" => sessions'[r] = sessions[r]
             /\ \A d \in Code : codes[d].st # "absent" => codes'[d] = codes[d]
             /\ tokens' = tokens
  BY <1>1, LoginEffect DEF Opens, Codes, Absent
<1>2. ASSUME NEW s \in Session, NEW t \in Token, PasswordGrant(s, t)
      PROVE  /\ \A r \in Session : sessions[r].st # "absent" => sessions'[r] = sessions[r]
             /\ \A u \in Token : tokens[u].st # "absent" => tokens'[u] = tokens[u]
             /\ codes' = codes
  BY <1>2, PasswordGrantEffect DEF Opens, Founds, Absent
<1>3. ASSUME NEW w \in Worker, ReuseCommit(w)
      PROVE  /\ \A r \in Session : sessions'[r].revoked = sessions[r].revoked
             /\ \A d \in Code : codes[d].st # "absent" => codes'[d] = codes[d]
             /\ tokens' = tokens
  BY <1>3, ReuseCommitEffect DEF SetsIdle, Codes, Absent
<1>4. ASSUME NEW w \in Worker, CodeCommit(w)
      PROVE  /\ sessions' = sessions
             /\ \A u \in Token : tokens[u].st # "absent" => tokens'[u] = tokens[u]
             /\ \A d \in Code \ {req[w].code} : codes'[d] = codes[d]
             /\ req[w].pc = "code.commit"
  BY <1>4, CodeCommitEffect DEF Founds, Absent
<1>5. ASSUME NEW w \in Worker, RefreshCommit(w)
      PROVE  /\ \A r \in Session : sessions'[r].revoked = sessions[r].revoked
             /\ \A u \in Token \ {req[w].tok} : tokens[u].st # "absent" => tokens'[u] = tokens[u]
             /\ codes' = codes
             /\ req[w].pc = "refresh.commit" /\ req[w].sess = tokens[req[w].tok].sess
  BY <1>5, RefreshCommitEffect DEF SetsIdle, Rotates, Absent
<1>6. ASSUME NEW w \in Worker, RefreshReuse(w) \/ LogoutRevoke(w)
      PROVE  /\ \A r \in Session \ {req[w].sess} : sessions'[r] = sessions[r]
             /\ \A u \in Token : tokens'[u].used = tokens[u].used
             /\ codes' = codes
             /\ req[w].pc \in SessionHolder
  BY <1>6, RevokeEffect DEF Revokes
<1>7. CASE \/ \E s \in Session, c \in Code : Login(s, c)
           \/ \E s \in Session, t \in Token : PasswordGrant(s, t)
           \/ \E w \in Worker : ReuseCommit(w)
           \/ UNCHANGED <<sessions, codes, tokens>>
  BY <1>7, <1>l, <1>1, <1>2, <1>3
<1>8. ASSUME NEW w \in Worker, CodeCommit(w) \/ RefreshCommit(w) \/ RefreshReuse(w)
                               \/ LogoutRevoke(w)
      PROVE  /\ req[v].pc \in SessionHolder =>
                  sessions'[req[v].sess].revoked = sessions[req[v].sess].revoked
             /\ req[v].pc \in {"refresh.rotate", "refresh.commit"} =>
                  tokens'[req[v].tok].used = tokens[req[v].tok].used
             /\ req[v].pc \in {"code.issue", "code.commit"} =>
                  codes'[req[v].code].consumed = codes[req[v].code].consumed
  <2>1. CASE CodeCommit(w)
    BY <2>1, <1>l, <1>m, <1>4 DEF LocksExclusive
  <2>2. CASE RefreshCommit(w)
    BY <2>2, <1>l, <1>m, <1>5 DEF LocksExclusive
  <2>3. CASE RefreshReuse(w) \/ LogoutRevoke(w)
    BY <2>3, <1>l, <1>m, <1>6 DEF LocksExclusive
  <2>. QED BY <1>8, <2>1, <2>2, <2>3
<1>. QED BY <1>7, <1>8, StepKinds DEF TableStep

LEMMA NextChecksHold ==
    ASSUME TypeOK, RowsLinked, RequestsLinked, LocksExclusive, ChecksHold,
           ExpiryWithinSession, [Next]_vars
    PROVE  ChecksHold'
<1>0. RowsStable
  BY StableRows
<1>. DEFINE Checked(r, ses, cod, tkn) ==
               /\ r.pc \in {"reuse.commit"} \cup (RefreshPC \ {"refresh.lock"}) =>
                    ~ses[r.sess].revoked
               /\ r.pc \in {"refresh.rotate", "refresh.commit"} => ~tkn[r.tok].used
               /\ r.pc \in {"code.issue", "code.commit"} => ~cod[r.code].consumed
               /\ r.pc \in {"reuse.issue", "reuse.commit", "refresh.commit"} =>
                    r.idle <= ses[r.sess].max
               /\ r.pc \in {"code.commit", "refresh.commit"} => r.exp <= ses[r.sess].max
<1>. USE DEF InFlight, ReusePC, CodePC, RefreshPC, LogoutPC
<1>1. ASSUME NEW v \in Worker, req'[v] = req[v]
      PROVE  Checked(req'[v], sessions', codes', tokens')
  <2>1. req[v].pc \in InFlight => sessions'[req[v].sess].max = sessions[req[v].sess].max
    BY <1>0 DEF RowsStable, RequestsLinked
  <2>. QED BY <1>1, <2>1, RowsUnderLock DEF ChecksHold, SessionHolder
<1>2. ASSUME NEW w \in Worker, Arrive(w)
      PROVE  Checked(req'[w], sessions', codes', tokens')
  BY <1>2, ArriveEffect DEF Names
<1>3. ASSUME NEW w \in Worker, Fail(w) \/ Recover(w)
      PROVE  Checked(req'[w], sessions', codes', tokens')
  BY <1>3 DEF Fail, Recover, Finish, NoRequest, Asking, TypeOK
<1>4. ASSUME NEW w \in Worker, Proceed(w)
      PROVE  Checked(req'[w], sessions', codes', tokens')
  <2>. DEFINE s == req[w].sess
  <2>1. CASE Over(w)
    BY <2>1 DEF Over
  <2>r. /\ req[w] \in Request
        /\ req[w].pc \in InFlight => s \in Session /\ sessions[s].max \in Nat
                                     /\ sessions[s].idle \in Nat
    BY FieldTypes DEF RequestsLinked
  <2>2. CASE ReuseTouch(w) /\ Advances(w, "reuse.issue")
    <3>1. req'[w].idle = Lesser(sessions[s].max, req[w].now + IdleLife)
      <4>1. CASE sessions[s].st = "present"
        BY <2>2, <4>1 DEF ReuseTouch, TypeOK, Request
      <4>2. CASE sessions[s].st # "present"
        BY <2>2, <4>2 DEF ReuseTouch, Finish, NoRequest, Asking, TypeOK, Advances
      <4>. QED BY <4>1, <4>2
    <3>2. req'[w].idle <= sessions[s].max
      BY <2>2, <2>r, <3>1, LesserType, LifetimeAssumption DEF ReuseTouch, Request
    <3>. QED BY <2>2, <3>2 DEF ReuseTouch, Advances
  <2>i. CASE ReuseIssue(w) /\ Advances(w, "reuse.commit")
    <3>1. req'[w].idle = req[w].idle
      BY <2>i DEF ReuseIssue, TypeOK, Request
    <3>. QED BY <2>i, <3>1 DEF ReuseIssue, EligibleWith, Advances, ChecksHold
  <2>3. CASE CodeConsume(w) /\ Advances(w, "code.issue")
    BY <2>3 DEF CodeConsume, CodeClaimable, Advances
  <2>4. CASE CodeIssue(w) /\ Advances(w, "code.commit")
    <3>1. req'[w].exp = RefreshExpiry(s, req[w].idle, clock)
      BY <2>4 DEF CodeIssue, TypeOK, Request
    <3>2. req'[w].exp <= sessions[s].max
      BY <2>4, <2>r, <3>1, TypeExpiry DEF CodeIssue, Request
    <3>. QED BY <2>4, <3>2 DEF CodeIssue, Advances, ChecksHold
  <2>5. CASE RefreshLock(w) /\ Advances(w, "refresh.check")
    BY <2>5 DEF RefreshLock, SessionLockable, Advances
  <2>6. CASE RefreshCheck(w) /\ (\/ Advances(w, "refresh.rotate") /\ ~tokens[req[w].tok].used
                                \/ Advances(w, "refresh.reuse"))
    BY <2>6 DEF RefreshCheck, Advances, ChecksHold
  <2>7. CASE RefreshRotate(w) /\ Advances(w, "refresh.commit")
    <3>. DEFINE i == Lesser(sessions[s].max, req[w].now + IdleLife)
    <3>1. i \in Nat /\ i <= sessions[s].max
      BY <2>7, <2>r, LesserType, LifetimeAssumption DEF RefreshRotate, Request
    <3>2. req'[w].idle = i /\ req'[w].exp = RefreshExpiry(s, i, clock)
      BY <2>7 DEF RefreshRotate, TypeOK, Request
    <3>3. req'[w].exp <= sessions[s].max
      BY <2>7, <2>r, <3>1, <3>2, TypeExpiry DEF RefreshRotate
    <3>. QED BY <2>7, <3>1, <3>2, <3>3 DEF RefreshRotate, Advances, ChecksHold
  <2>8. CASE LogoutLock(w) /\ Advances(w, "logout.revoke")
    BY <2>8 DEF Advances
  <2>. QED BY <1>4, <2>1, <2>2, <2>i, <2>3, <2>4, <2>5, <2>6, <2>7, <2>8, ProceedEffect
<1>5. \A v \in Worker : Checked(req'[v], sessions', codes', tokens')
  BY <1>1, <1>2, <1>3, <1>4, OneWorker
<1>. QED BY <1>5 DEF ChecksHold

-----------------------------------------------------------------------------
(* Families: a step keeps them, founds one, or adds a successor to one.     *)

SameLineage(t) ==
    /\ tokens'[t].st = tokens[t].st /\ tokens'[t].sess = tokens[t].sess
    /\ tokens'[t].origin = tokens[t].origin /\ tokens'[t].family = tokens[t].family
    /\ tokens'[t].gen = tokens[t].gen /\ tokens'[t].exp = tokens[t].exp
    /\ tokens'[t].used = tokens[t].used /\ tokens'[t].replacedBy = tokens[t].replacedBy

FoundsFamily ==
    \E t \in Token, s \in Session, o \in Code \cup {None}, e \in Nat :
        /\ Absent(tokens, t) /\ Founds(t, s, o, e)
        /\ o # None => ~codes[o].consumed

RotatesFamily ==
    \E t, u \in Token, e \in Nat :
        Exists(t) /\ ~tokens[t].used /\ Rotates(t, u, e)

LEMMA LineageStep ==
    ASSUME TypeOK, RequestsLinked, ChecksHold, [Next]_vars
    PROVE  (\A t \in Token : SameLineage(t)) \/ FoundsFamily \/ RotatesFamily
<1>1. ASSUME NEW s \in Session, NEW c \in Code, Login(s, c)
      PROVE  \A t \in Token : SameLineage(t)
  BY <1>1, LoginEffect DEF SameLineage
<1>2. ASSUME NEW s \in Session, NEW t \in Token, PasswordGrant(s, t)
      PROVE  FoundsFamily
  <2>1. /\ Absent(tokens, t) /\ Founds(t, s, None, tokens'[t].exp)
    BY <1>2, PasswordGrantEffect
  <2>2. TypeOK'
    BY <1>2, TypeNext DEF Next
  <2>3. tokens'[t].exp \in Nat
    BY <2>2 DEF TypeOK, TokenRow
  <2>. QED BY <2>1, <2>3 DEF FoundsFamily
<1>3. ASSUME NEW w \in Worker, ReuseCommit(w)
      PROVE  \A t \in Token : SameLineage(t)
  BY <1>3, ReuseCommitEffect DEF SameLineage
<1>4. ASSUME NEW w \in Worker, CodeCommit(w)
      PROVE  FoundsFamily
  <2>1. PICK t \in Token : Absent(tokens, t) /\ Founds(t, req[w].sess, req[w].code, req[w].exp)
    BY <1>4, CodeCommitEffect
  <2>2. /\ req[w].sess \in Session /\ req[w].code \in Code /\ ~codes[req[w].code].consumed
        /\ req[w].exp \in Nat
    BY <1>4, CodeCommitEffect DEF ChecksHold, TypeOK, Request
  <2>. QED BY <2>1, <2>2 DEF FoundsFamily
<1>5. ASSUME NEW w \in Worker, RefreshCommit(w)
      PROVE  RotatesFamily
  <2>1. PICK u \in Token : Rotates(req[w].tok, u, req[w].exp)
    BY <1>5, RefreshCommitEffect
  <2>2. /\ req[w].tok \in Token /\ Exists(req[w].tok) /\ ~tokens[req[w].tok].used
        /\ req[w].exp \in Nat
    BY <1>5, RefreshCommitEffect DEF ChecksHold, TypeOK, Request
  <2>. QED BY <2>1, <2>2 DEF RotatesFamily
<1>6. ASSUME NEW w \in Worker, RefreshReuse(w) \/ LogoutRevoke(w)
      PROVE  \A t \in Token : SameLineage(t)
  BY <1>6, RevokeEffect DEF Revokes, SameLineage
<1>7. CASE UNCHANGED <<sessions, codes, tokens>>
  BY <1>7 DEF SameLineage
<1>. QED BY <1>1, <1>2, <1>3, <1>4, <1>5, <1>6, <1>7, StepKinds DEF TableStep

LEMMA NextOneFamilyPerCode ==
    ASSUME TypeOK, RowsLinked, RequestsLinked, ChecksHold, OneFamilyPerCode, [Next]_vars
    PROVE  OneFamilyPerCode'
<1>. USE DEF OneFamilyPerCode, Exists, Absent
<1>1. CASE \A t \in Token : SameLineage(t)
  BY <1>1 DEF SameLineage
<1>2. CASE FoundsFamily
  BY <1>2 DEF FoundsFamily, Founds, RowsLinked
<1>3. CASE RotatesFamily
  BY <1>3 DEF RotatesFamily, Rotates
<1>. QED BY <1>1, <1>2, <1>3, LineageStep

LEMMA NextNoFork ==
    ASSUME TypeOK, RowsLinked, RequestsLinked, ChecksHold, NoFork, Descended, [Next]_vars
    PROVE  NoFork'
<1>. USE DEF NoFork, Exists, Absent
<1>1. CASE \A t \in Token : SameLineage(t)
  BY <1>1 DEF SameLineage
<1>2. CASE FoundsFamily
  BY <1>2 DEF FoundsFamily, Founds, RowsLinked
<1>3. CASE RotatesFamily
  <2>1. PICK t \in Token, u \in Token, e \in Nat :
               Exists(t) /\ ~tokens[t].used /\ Rotates(t, u, e)
    BY <1>3 DEF RotatesFamily
  \* Nobody is in the successor's place yet: its predecessor would be t, used.
  <2>2. ASSUME NEW v \in Token, Exists(v), tokens[v].family = tokens[t].family,
               tokens[v].gen = tokens[t].gen + 1
        PROVE  FALSE
    <3>1. tokens[v].gen > 0 /\ tokens[t].gen \in Nat
      BY <2>2 DEF TypeOK, TokenRow
    <3>2. PICK p \in Token : /\ Exists(p) /\ tokens[p].used
                             /\ tokens[p].family = tokens[v].family
                             /\ tokens[v].gen = tokens[p].gen + 1
      BY <2>2, <3>1 DEF Descended
    <3>3. tokens[p].gen = tokens[t].gen
      <4>1. tokens[p].gen \in Nat
        BY DEF TypeOK, TokenRow
      <4>2. tokens[t].gen + 1 = tokens[p].gen + 1
        BY <2>2, <3>2
      <4>. QED BY <3>1, <4>1, <4>2
    <3>4. p = t
      BY <2>1, <2>2, <3>2, <3>3
    <3>. QED BY <2>1, <3>2, <3>4
  <2>3. \A v \in Token \ {u} : /\ tokens'[v].st = tokens[v].st
                               /\ tokens'[v].family = tokens[v].family
                               /\ tokens'[v].gen = tokens[v].gen
    BY <2>1 DEF Rotates
  <2>4. tokens'[u].family = tokens[t].family /\ tokens'[u].gen = tokens[t].gen + 1
    BY <2>1 DEF Rotates
  <2>. QED BY <2>2, <2>3, <2>4
<1>. QED BY <1>1, <1>2, <1>3, LineageStep

LEMMA NextReplaced ==
    ASSUME TypeOK, RowsLinked, RequestsLinked, ChecksHold, Replaced, [Next]_vars
    PROVE  Replaced'
<1>. USE DEF Replaced, Exists, Absent
<1>1. CASE \A t \in Token : SameLineage(t)
  BY <1>1 DEF SameLineage
<1>2. CASE FoundsFamily
  BY <1>2 DEF FoundsFamily, Founds
<1>3. CASE RotatesFamily
  BY <1>3 DEF RotatesFamily, Rotates
<1>. QED BY <1>1, <1>2, <1>3, LineageStep

LEMMA NextDescended ==
    ASSUME TypeOK, RowsLinked, RequestsLinked, ChecksHold, Descended, [Next]_vars
    PROVE  Descended'
<1>. USE DEF Descended, Exists, Absent
<1>1. CASE \A t \in Token : SameLineage(t)
  BY <1>1 DEF SameLineage
<1>2. CASE FoundsFamily
  BY <1>2 DEF FoundsFamily, Founds
<1>3. CASE RotatesFamily
  BY <1>3 DEF RotatesFamily, Rotates
<1>. QED BY <1>1, <1>2, <1>3, LineageStep

-----------------------------------------------------------------------------
(* Revocation and expiry.                                                   *)

LEMMA NextDeadSessionInert ==
    ASSUME TypeOK, RowsLinked, RequestsLinked, ChecksHold, DeadSessionInert, [Next]_vars
    PROVE  DeadSessionInert'
<1>. USE DEF DeadSessionInert
<1>0. \A t \in Token : tokens[t].st = "present" =>
         tokens[t].sess \in Session /\ sessions[tokens[t].sess].st # "absent"
  BY DEF RowsLinked, Exists, Absent
<1>1. ASSUME NEW s \in Session, NEW c \in Code, Login(s, c)
      PROVE  DeadSessionInert'
  BY <1>0, <1>1, LoginEffect DEF Opens, Absent
<1>2. ASSUME NEW s \in Session, NEW t \in Token, PasswordGrant(s, t)
      PROVE  DeadSessionInert'
  BY <1>0, <1>2, PasswordGrantEffect DEF Opens, Founds, Absent
<1>3. ASSUME NEW w \in Worker, ReuseCommit(w)
      PROVE  DeadSessionInert'
  BY <1>0, <1>3, ReuseCommitEffect DEF SetsIdle
<1>4. ASSUME NEW w \in Worker, CodeCommit(w)
      PROVE  DeadSessionInert'
  BY <1>4, CodeCommitEffect DEF Founds
<1>5. ASSUME NEW w \in Worker, RefreshCommit(w)
      PROVE  DeadSessionInert'
  <2>1. PICK u \in Token : Rotates(req[w].tok, u, req[w].exp)
    BY <1>5, RefreshCommitEffect
  <2>2. /\ req[w].tok \in Token /\ req[w].sess = tokens[req[w].tok].sess
        /\ req[w].sess \in Session /\ ~sessions'[req[w].sess].revoked
        /\ \A s \in Session : sessions'[s].revoked = sessions[s].revoked
    BY <1>5, RefreshCommitEffect DEF SetsIdle, ChecksHold, RefreshPC
  <2>. QED BY <1>0, <2>1, <2>2 DEF Rotates
<1>6. ASSUME NEW w \in Worker, RefreshReuse(w) \/ LogoutRevoke(w)
      PROVE  DeadSessionInert'
  BY <1>0, <1>6, RevokeEffect DEF Revokes
<1>7. CASE UNCHANGED <<sessions, codes, tokens>>
  BY <1>7
<1>. QED BY <1>1, <1>2, <1>3, <1>4, <1>5, <1>6, <1>7, StepKinds DEF TableStep

LEMMA NextExpiryWithinSession ==
    ASSUME TypeOK, RowsLinked, RequestsLinked, ChecksHold, ExpiryWithinSession, [Next]_vars
    PROVE  ExpiryWithinSession'
<1>. USE DEF ExpiryWithinSession, Exists
<1>0. /\ \A t \in Token : tokens[t].st # "absent" =>
            tokens[t].sess \in Session /\ sessions[tokens[t].sess].st # "absent"
      /\ \A s \in Session : sessions[s].st # "absent" => sessions'[s].max = sessions[s].max
  BY StableRows DEF RowsLinked, Exists, Absent, RowsStable
<1>1. ASSUME NEW s \in Session, NEW c \in Code, Login(s, c)
      PROVE  ExpiryWithinSession'
  BY <1>0, <1>1, LoginEffect DEF Opens
<1>2. ASSUME NEW s \in Session, NEW t \in Token, PasswordGrant(s, t)
      PROVE  ExpiryWithinSession'
  BY <1>0, <1>2, PasswordGrantEffect DEF Opens, Founds
<1>3. ASSUME NEW w \in Worker, ReuseCommit(w)
      PROVE  ExpiryWithinSession'
  BY <1>0, <1>3, ReuseCommitEffect DEF SetsIdle, ChecksHold
<1>4. ASSUME NEW w \in Worker, CodeCommit(w)
      PROVE  ExpiryWithinSession'
  BY <1>0, <1>4, CodeCommitEffect DEF Founds, ChecksHold
<1>5. ASSUME NEW w \in Worker, RefreshCommit(w)
      PROVE  ExpiryWithinSession'
  <2>1. PICK u \in Token : Rotates(req[w].tok, u, req[w].exp)
    BY <1>5, RefreshCommitEffect
  <2>2. /\ req[w].tok \in Token /\ Exists(req[w].tok)
        /\ req[w].sess = tokens[req[w].tok].sess /\ req[w].sess \in Session
        /\ SetsIdle(req[w].sess, req[w].idle)
        /\ req[w].idle <= sessions[req[w].sess].max
        /\ req[w].exp <= sessions[req[w].sess].max
    BY <1>5, RefreshCommitEffect DEF ChecksHold
  <2>3. ASSUME NEW s \in Session
        PROVE  sessions'[s].idle <= sessions'[s].max
    BY <2>2 DEF SetsIdle
  <2>4. ASSUME NEW t \in Token, tokens'[t].st # "absent"
        PROVE  tokens'[t].exp <= sessions'[tokens'[t].sess].max
    <3>1. CASE t = u
      <4>1. tokens'[t].exp = req[w].exp /\ tokens'[t].sess = req[w].sess
        BY <2>1, <2>2, <3>1 DEF Rotates
      <4>2. sessions'[req[w].sess].max = sessions[req[w].sess].max
        BY <1>0, <2>2
      <4>. QED BY <2>2, <4>1, <4>2
    <3>2. CASE t # u
      <4>1. /\ tokens[t].st # "absent" /\ tokens'[t].exp = tokens[t].exp
            /\ tokens'[t].sess = tokens[t].sess
        BY <2>1, <2>4, <3>2 DEF Rotates
      <4>. QED BY <1>0, <4>1
    <3>. QED BY <3>1, <3>2
  <2>. QED BY <2>3, <2>4
<1>6. ASSUME NEW w \in Worker, RefreshReuse(w) \/ LogoutRevoke(w)
      PROVE  ExpiryWithinSession'
  BY <1>0, <1>6, RevokeEffect DEF Revokes
<1>7. CASE UNCHANGED <<sessions, codes, tokens>>
  BY <1>7
<1>. QED BY <1>1, <1>2, <1>3, <1>4, <1>5, <1>6, <1>7, StepKinds DEF TableStep

-----------------------------------------------------------------------------
(* The theorems.                                                            *)

LEMMA Inductive == TypeOK /\ IInv /\ [Next]_vars => TypeOK' /\ IInv'
BY TypeNext, NextRowsLinked, NextRequestsLinked, NextLocksExclusive, NextChecksHold,
   NextOneFamilyPerCode, NextNoFork, NextReplaced, NextDescended, NextDeadSessionInert,
   NextExpiryWithinSession
   DEF IInv, RotationAtomic

\* Every row and every request stays well formed, and the inductive invariant
\* holds in every state of every instance.
THEOREM Invariance == Spec => [](TypeOK /\ IInv)
<1>1. Init => TypeOK /\ IInv
  BY InitType, InitInv
<1>. QED BY <1>1, Inductive, PTL DEF Spec

THEOREM TypeCorrect == Spec => []TypeOK
BY Invariance, PTL

\* A code buys at most one token family (AuthorizationCodeRepository.consume).
THEOREM CodeRedeemedOnce == Spec => []OneFamilyPerCode
<1>1. IInv => OneFamilyPerCode
  BY DEF IInv
<1>. QED BY <1>1, Invariance, PTL

\* Rotation never gives one token two successors (lock_session, consume).
THEOREM FamiliesNeverFork == Spec => []NoFork
<1>1. IInv => NoFork
  BY DEF IInv
<1>. QED BY <1>1, Invariance, PTL

\* A token is used exactly when its successor exists (one transaction).
THEOREM RotationIsAtomic == Spec => []RotationAtomic
<1>1. IInv => RotationAtomic
  BY DEF IInv
<1>. QED BY <1>1, Invariance, PTL

\* A racing refresh cannot leave an active descendant on a revoked session.
THEOREM RevokedSessionsAreInert == Spec => []DeadSessionInert
<1>1. IInv => DeadSessionInert
  BY DEF IInv
<1>. QED BY <1>1, Invariance, PTL

\* Nothing outlives the absolute maximum of its session.
THEOREM MaximumIsAbsolute == Spec => []ExpiryWithinSession
<1>1. IInv => ExpiryWithinSession
  BY DEF IInv
<1>. QED BY <1>1, Invariance, PTL

\* A revoked session stays revoked and is never extended: reuse, which writes
\* the row by primary key alone, is denied before it commits.
THEOREM RevocationIsFinal == Spec => RevokedSessionFrozen
<1>1. ASSUME TypeOK, IInv, [Next]_vars
      PROVE  RevokedSessionKept
  <2>. USE DEF RevokedSessionKept
  <2>1. RequestsLinked /\ ChecksHold
    BY <1>1 DEF IInv
  <2>2. ASSUME NEW s \in Session, NEW c \in Code, Login(s, c)
        PROVE  RevokedSessionKept
    BY <1>1, <2>2, LoginEffect DEF Opens, Absent
  <2>3. ASSUME NEW s \in Session, NEW t \in Token, PasswordGrant(s, t)
        PROVE  RevokedSessionKept
    BY <1>1, <2>3, PasswordGrantEffect DEF Opens, Absent
  <2>4. ASSUME NEW w \in Worker, ReuseCommit(w)
        PROVE  RevokedSessionKept
    BY <1>1, <2>1, <2>4, ReuseCommitEffect DEF SetsIdle, ChecksHold
  <2>5. ASSUME NEW w \in Worker, CodeCommit(w)
        PROVE  RevokedSessionKept
    BY <1>1, <2>1, <2>5, CodeCommitEffect
  <2>6. ASSUME NEW w \in Worker, RefreshCommit(w)
        PROVE  RevokedSessionKept
    BY <1>1, <2>1, <2>6, RefreshCommitEffect DEF SetsIdle, ChecksHold, RefreshPC
  <2>7. ASSUME NEW w \in Worker, RefreshReuse(w) \/ LogoutRevoke(w)
        PROVE  RevokedSessionKept
    BY <1>1, <2>1, <2>7, RevokeEffect
  <2>8. CASE UNCHANGED <<sessions, codes, tokens>>
    BY <2>8
  <2>. QED BY <1>1, <2>2, <2>3, <2>4, <2>5, <2>6, <2>7, <2>8, StepKinds DEF TableStep
<1>. QED BY <1>1, Invariance, PTL DEF Spec, RevokedSessionFrozen

\* The only way out of the lock and of the check without going on.
LEMMA ProceedStays ==
    ASSUME TypeOK, NEW w \in Worker, Proceed(w), req'[w].pc = "idle"
    PROVE  /\ req[w].pc = "refresh.lock" => RefreshLockRejected(w)
           /\ req[w].pc = "refresh.check" => RefreshRejected(w)
<1>1. ~RefreshLock(w) /\ ~RefreshCheck(w)
  BY DEF RefreshLock, RefreshCheck, TypeOK, Request
<1>2. ASSUME \/ ReuseTouch(w) \/ ReuseIssue(w) \/ ReuseDenied(w) \/ ReuseCommit(w)
             \/ CodeConsume(w)
             \/ CodeRejected(w) \/ CodeIssue(w) \/ CodeIssueDenied(w) \/ CodeCommit(w)
             \/ RefreshRotate(w) \/ RefreshRotateDenied(w) \/ RefreshCommit(w)
             \/ RefreshReuse(w) \/ LogoutLock(w) \/ LogoutRevoke(w)
      PROVE  req[w].pc \notin {"refresh.lock", "refresh.check"}
  BY <1>2 DEF ReuseTouch, ReuseIssue, ReuseDenied, ReuseCommit, CodeConsume, CodeRejected, CodeIssue,
     CodeIssueDenied, CodeCommit, RefreshRotate, RefreshRotateDenied, RefreshCommit,
     RefreshReuse, LogoutLock, LogoutRevoke
<1>3. /\ RefreshLockRejected(w) => req[w].pc = "refresh.lock"
      /\ RefreshRejected(w) => req[w].pc = "refresh.check"
  BY DEF RefreshLockRejected, RefreshRejected
<1>. QED BY <1>1, <1>2, <1>3 DEF Proceed

\* While the session is good, a refresh that is merely turned away never carries
\* a consumed token: reuse always ends in the revocation.
THEOREM ReuseNeverSilent == Spec => NoSilentReuse
<1>1. ASSUME TypeOK, IInv, [Next]_vars
      PROVE  OnlyUnusedTurnedAway
  <2>. SUFFICES ASSUME NEW w \in Worker, TurnedAway(w),
                       RefreshMatches(req[w].tok, clock), Eligible(req[w].sess, clock)
                PROVE  ~tokens[req[w].tok].used
    BY DEF OnlyUnusedTurnedAway
  <2>1. Proceed(w)
    <3>1. PICK v \in Worker : /\ Arrive(v) \/ Proceed(v) \/ Fail(v) \/ Recover(v)
                              /\ \A x \in Worker \ {v} : req'[x] = req[x]
      BY <1>1, OneWorker DEF TurnedAway
    <3>2. v = w
      BY <3>1 DEF TurnedAway
    <3>3. ~Arrive(w)
      BY <1>1, ArriveEffect DEF IInv, Names, TurnedAway
    <3>4. ~Fail(w) /\ ~Recover(w)
      BY <1>1 DEF Fail, Recover, TurnedAway, TypeOK, Asking
    <3>. QED BY <3>1, <3>2, <3>3, <3>4
  <2>2. CASE req[w].pc = "refresh.lock"
    <3>1. RefreshLockRejected(w)
      BY <1>1, <2>1, <2>2, ProceedStays DEF TurnedAway
    <3>2. PICK now \in req[w].now .. clock : ~SessionLockable(req[w].sess, now)
      BY <3>1 DEF RefreshLockRejected
    <3>3. /\ req[w].sess \in Session
          /\ sessions[req[w].sess].idle \in Nat /\ sessions[req[w].sess].max \in Nat
          /\ clock \in Nat /\ req[w].now \in Nat
      BY <1>1, <2>2, FieldTypes DEF IInv, RequestsLinked, InFlight, RefreshPC, Request
    <3>. QED BY <3>2, <3>3 DEF SessionLockable, Eligible, EligibleWith
  <2>3. CASE req[w].pc = "refresh.check"
    <3>1. RefreshRejected(w)
      BY <1>1, <2>1, <2>3, ProceedStays DEF TurnedAway
    <3>. QED BY <3>1 DEF RefreshRejected, RefreshAccepts
  <2>4. CASE req[w].pc = "refresh.rotate"
    BY <1>1, <2>4 DEF IInv, ChecksHold
  <2>. QED BY <2>2, <2>3, <2>4 DEF TurnedAway
<1>. QED BY <1>1, Invariance, PTL DEF Spec, NoSilentReuse

-----------------------------------------------------------------------------
(* SessionTokens implements GrantLedger: the tables, however requests       *)
(* interleave, are a ledger of grants.                                      *)

Blank == [sess |-> None, code |-> None, family |-> None, gen |-> 0, spent |-> FALSE]

\* A row that was never inserted says nothing.
AbsentBlank ==
    \A t \in Token : Absent(tokens, t) =>
        /\ tokens[t].sess = None /\ tokens[t].origin = None /\ tokens[t].family = None
        /\ tokens[t].gen = 0 /\ tokens[t].used = FALSE

LEMMA InitBlank == Init => AbsentBlank
BY DEF Init, AbsentBlank, Absent

\* What a step does to rows that are absent before and after it: nothing.
LEMMA NextBlank ==
    ASSUME TypeOK, RequestsLinked, ChecksHold, AbsentBlank, [Next]_vars
    PROVE  AbsentBlank'
<1>. USE DEF AbsentBlank, Absent
<1>1. CASE \A t \in Token : SameLineage(t)
  BY <1>1 DEF SameLineage
<1>2. CASE FoundsFamily
  BY <1>2 DEF FoundsFamily, Founds
<1>3. CASE RotatesFamily
  BY <1>3 DEF RotatesFamily, Rotates, Exists
<1>. QED BY <1>1, <1>2, <1>3, LineageStep

\* The entry of a token is blank until its row is inserted, and then names a family.
LEMMA EntryBlank ==
    ASSUME RowsLinked, AbsentBlank, NEW t \in Token
    PROVE  LedgerEntry(t) = Blank <=> Absent(tokens, t)
<1>1. ASSUME Absent(tokens, t)
      PROVE  LedgerEntry(t) = Blank
  BY <1>1 DEF AbsentBlank, LedgerEntry, Blank
<1>2. ASSUME ~Absent(tokens, t)
      PROVE  LedgerEntry(t) # Blank
  <2>1. tokens[t].family \in Token
    BY <1>2 DEF RowsLinked, Exists, Absent
  <2>. QED BY <2>1, NoneAssumption DEF LedgerEntry, Blank
<1>. QED BY <1>1, <1>2

LEMMA EntryTypes ==
    ASSUME TypeOK, TypeOK', NEW t \in Token
    PROVE  LedgerEntry(t) \in Ledger!EntryType /\ LedgerEntry(t)' \in Ledger!EntryType
BY DEF TypeOK, TokenRow, LedgerEntry, Ledger!EntryType

LEMMA SpentEntry ==
    ASSUME NEW e \in Ledger!EntryType, NEW f \in Ledger!EntryType,
           f.sess = e.sess, f.code = e.code, f.family = e.family, f.gen = e.gen,
           f.spent = TRUE
    PROVE  f = [e EXCEPT !.spent = TRUE]
BY DEF Ledger!EntryType

\* A session that is inserted, or merely extended, is not closed by that.
KeepsSessions ==
    \A s \in Session : \/ sessions'[s] = sessions[s]
                       \/ sessions[s].st = "absent" /\ ~sessions'[s].revoked
                       \/ /\ (sessions'[s].st = "absent") <=> (sessions[s].st = "absent")
                          /\ sessions'[s].revoked = sessions[s].revoked

LEMMA SameClosed ==
    ASSUME KeepsSessions
    PROVE  ClosedSessions' = ClosedSessions
BY DEF ClosedSessions, Absent, KeepsSessions

\* The columns the ledger records.
SameEntry(t) ==
    /\ tokens'[t].sess = tokens[t].sess /\ tokens'[t].origin = tokens[t].origin
    /\ tokens'[t].family = tokens[t].family /\ tokens'[t].gen = tokens[t].gen
    /\ tokens'[t].used = tokens[t].used

LEMMA QuietStep ==
    ASSUME KeepsSessions, \A t \in Token : SameEntry(t)
    PROVE  UNCHANGED Ledger!vars
<1>1. \A t \in Token : LedgerEntry(t)' = LedgerEntry(t)
  BY DEF LedgerEntry, SameEntry
<1>. QED BY <1>1, SameClosed DEF Ledger!vars

\* INSERT of the first token of a family.
LEMMA OpenStep ==
    ASSUME TypeOK', RowsLinked, AbsentBlank, KeepsSessions,
           NEW t \in Token, NEW s \in Session, NEW o \in Code \cup {None}, NEW exp,
           Absent(tokens, t), Founds(t, s, o, exp), o # None => ~codes[o].consumed
    PROVE  Ledger!Open(t, s, o)
<1>1. ~Ledger!Written(t)
  BY EntryBlank DEF Ledger!Written, Ledger!Blank, Blank
<1>2. ASSUME o # None, NEW u \in Token
      PROVE  LedgerEntry(u).code # o
  BY <1>2 DEF RowsLinked, AbsentBlank, LedgerEntry, Exists, Absent
<1>3. LedgerEntry(t)' = Ledger!Entry(s, o, t, 0)
  <2>1. tokens'[t].used = FALSE
    BY DEF Founds, TypeOK, TokenRow
  <2>. QED BY <2>1 DEF Founds, LedgerEntry, Ledger!Entry
<1>4. \A u \in Token \ {t} : LedgerEntry(u)' = LedgerEntry(u)
  BY DEF Founds, LedgerEntry
<1>. QED BY <1>1, <1>2, <1>3, <1>4, SameClosed DEF Ledger!Open

\* UPDATE of the parent and INSERT of its successor.
LEMMA ExtendStep ==
    ASSUME TypeOK, TypeOK', RowsLinked, AbsentBlank, KeepsSessions,
           NEW t \in Token, NEW u \in Token, NEW exp,
           Exists(t), ~tokens[t].used, Rotates(t, u, exp),
           ~sessions[tokens[t].sess].revoked
    PROVE  Ledger!Extend(t, u)
<1>0. tokens'[t].used = TRUE /\ tokens'[u].used = FALSE
  BY DEF Rotates, TypeOK, TokenRow
<1>1. ~Ledger!Written(u) /\ Ledger!Written(t) /\ u # t
  BY EntryBlank DEF Ledger!Written, Ledger!Blank, Blank, Rotates, Exists, Absent
<1>2. ~LedgerEntry(t).spent /\ LedgerEntry(t).sess \notin ClosedSessions
  BY DEF LedgerEntry, ClosedSessions
<1>3. LedgerEntry(t)' = [LedgerEntry(t) EXCEPT !.spent = TRUE]
  <2>1. LedgerEntry(t) \in Ledger!EntryType /\ LedgerEntry(t)' \in Ledger!EntryType
    BY EntryTypes
  <2>2. LET f == LedgerEntry(t)'
            e == LedgerEntry(t) IN
        /\ f.sess = e.sess /\ f.code = e.code /\ f.family = e.family /\ f.gen = e.gen
        /\ f.spent = TRUE
    BY <1>0 DEF Rotates, LedgerEntry
  <2>. QED BY <2>1, <2>2, SpentEntry
<1>4. LedgerEntry(u)' = Ledger!Entry(LedgerEntry(t).sess, LedgerEntry(t).code,
                                     LedgerEntry(t).family, LedgerEntry(t).gen + 1)
  BY <1>0 DEF Rotates, LedgerEntry, Ledger!Entry
<1>5. \A v \in Token \ {t, u} : LedgerEntry(v)' = LedgerEntry(v)
  BY DEF Rotates, LedgerEntry
<1>. QED BY <1>1, <1>2, <1>3, <1>4, <1>5, SameClosed DEF Ledger!Extend

\* UPDATE of the session and its families.
LEMMA CloseStep ==
    ASSUME TypeOK, RequestsLinked, NEW w \in Worker, RefreshReuse(w) \/ LogoutRevoke(w)
    PROVE  Ledger!Close(req[w].sess)
<1>1. \A t \in Token : LedgerEntry(t)' = LedgerEntry(t)
  BY RevokeEffect DEF Revokes, LedgerEntry
<1>2. ClosedSessions' = ClosedSessions \cup {req[w].sess}
  BY RevokeEffect DEF ClosedSessions, Absent
<1>. QED BY <1>1, <1>2 DEF Ledger!Close

LEMMA LedgerInit == Init => Ledger!Init
<1>. SUFFICES ASSUME Init PROVE Ledger!Init
  OBVIOUS
<1>1. ClosedSessions = {}
  BY DEF Init, ClosedSessions, Absent
<1>2. \A t \in Token : LedgerEntry(t) = Ledger!Blank
  BY InitBlank DEF Init, AbsentBlank, Absent, LedgerEntry, Ledger!Blank
<1>. QED BY <1>1, <1>2 DEF Ledger!Init

\* Every step is a step of the ledger, or does not show.
LEMMA LedgerStep ==
    ASSUME TypeOK, RowsLinked, RequestsLinked, ChecksHold, AbsentBlank, [Next]_vars
    PROVE  [Ledger!Next]_(Ledger!vars)
<1>0. TypeOK'
  BY TypeNext
<1>. USE DEF Ledger!Next
<1>1. ASSUME NEW s \in Session, NEW c \in Code, Login(s, c)
      PROVE  UNCHANGED Ledger!vars
  BY <1>1, LoginEffect, QuietStep DEF Opens, Absent, KeepsSessions, SameEntry
<1>2. ASSUME NEW s \in Session, NEW t \in Token, PasswordGrant(s, t)
      PROVE  Ledger!Open(t, s, None)
  <2>1. KeepsSessions
    BY <1>2, PasswordGrantEffect DEF Opens, Absent, KeepsSessions
  <2>. QED BY <1>0, <1>2, <2>1, PasswordGrantEffect, OpenStep
<1>3. ASSUME NEW w \in Worker, ReuseCommit(w)
      PROVE  UNCHANGED Ledger!vars
  BY <1>0, <1>3, ReuseCommitEffect, QuietStep DEF SetsIdle, KeepsSessions, SameEntry
<1>4. ASSUME NEW w \in Worker, CodeCommit(w)
      PROVE  \E t \in Token : Ledger!Open(t, req[w].sess, req[w].code)
  <2>1. KeepsSessions /\ ~codes[req[w].code].consumed
    BY <1>0, <1>4, CodeCommitEffect DEF KeepsSessions, ChecksHold
  <2>. QED BY <1>0, <1>4, <2>1, CodeCommitEffect, OpenStep
<1>5. ASSUME NEW w \in Worker, RefreshCommit(w)
      PROVE  \E u \in Token : Ledger!Extend(req[w].tok, u)
  <2>1. KeepsSessions
    BY <1>0, <1>5, RefreshCommitEffect DEF KeepsSessions, SetsIdle
  <2>2. ~sessions[req[w].sess].revoked /\ ~tokens[req[w].tok].used
    BY <1>0, <1>5, RefreshCommitEffect DEF ChecksHold, RefreshPC
  <2>. QED BY <1>0, <1>5, <2>1, <2>2, RefreshCommitEffect, ExtendStep
<1>6. ASSUME NEW w \in Worker, RefreshReuse(w) \/ LogoutRevoke(w)
      PROVE  Ledger!Close(req[w].sess)
  BY <1>0, <1>6, CloseStep
<1>7. CASE UNCHANGED <<sessions, codes, tokens>>
  BY <1>7, QuietStep DEF KeepsSessions, SameEntry
<1>8. ASSUME NEW w \in Worker
      PROVE  /\ CodeCommit(w) => req[w].sess \in Session /\ req[w].code \in Code
             /\ RefreshCommit(w) => req[w].tok \in Token
             /\ RefreshReuse(w) \/ LogoutRevoke(w) => req[w].sess \in Session
  BY <1>0, CodeCommitEffect, RefreshCommitEffect, RevokeEffect
<1>. QED BY <1>1, <1>2, <1>3, <1>4, <1>5, <1>6, <1>7, <1>8, StepKinds DEF TableStep

\* Whatever requests interleave, wait, are refused or rolled back, each commit opens
\* one family, extends one at its tip under an open session, closes a session, or does
\* not show (the token endpoint, SSO reuse and logout).
THEOREM TablesAreALedger == Spec => ImplementsLedger
<1>1. AbsentBlank /\ TypeOK /\ IInv /\ [Next]_vars => AbsentBlank'
  BY NextBlank DEF IInv
<1>2. AbsentBlank /\ TypeOK /\ IInv /\ [Next]_vars => [Ledger!Next]_(Ledger!vars)
  BY LedgerStep DEF IInv
<1>. QED BY <1>1, <1>2, InitBlank, LedgerInit, Invariance, PTL
         DEF Spec, ImplementsLedger, Ledger!Spec

\* Of all the tokens a relying party was handed for one authorization code, one at most
\* can still be exchanged (TokenService.refresh, AuthorizationCodeRepository.consume).
THEOREM OneExchangeable == Spec => []Ledger!OneTip
<1>1. Ledger!Spec => []Ledger!OneTip
  BY NoneAssumption, Ledger!LedgerHasOneTip
<1>. QED BY <1>1, TablesAreALedger, PTL DEF ImplementsLedger

-----------------------------------------------------------------------------
(* Who waits for whom.                                                      *)

\* The locks that the next statement of w takes are free, as its guard asks.
LocksFree(w) ==
    /\ req[w].pc \in {"reuse.touch", "refresh.lock", "refresh.reuse", "logout.lock"} =>
         SessionFree(req[w].sess, w)
    /\ req[w].pc = "code.consume" => CodeFree(req[w].code, w)
    /\ req[w].pc = "refresh.rotate" => TokenFree(req[w].tok, w)

\* v holds a lock that w waits for.
Holds(v, w) ==
    \/ /\ req[w].pc \in {"reuse.touch", "refresh.lock", "refresh.reuse", "logout.lock"}
       /\ req[v].pc \in SessionHolder /\ req[v].sess = req[w].sess
    \/ /\ req[w].pc = "code.consume"
       /\ req[v].pc \in {"code.issue", "code.commit"} /\ req[v].code = req[w].code
    \/ /\ req[w].pc = "refresh.rotate"
       /\ req[v].pc = "refresh.commit" /\ req[v].tok = req[w].tok

LEMMA FreeOrHeld ==
    ASSUME NEW w \in Worker
    PROVE  LocksFree(w) <=> \A v \in Worker \ {w} : ~Holds(v, w)
BY DEF LocksFree, Holds, SessionFree, CodeFree, TokenFree

\* Whoever holds a lock has all the locks it will need: a session is locked before its
\* token, so the token of a session one holds is free, and a code needs nothing more.
LEMMA HoldersGoOn ==
    ASSUME IInv, NEW v \in Worker, NEW w \in Worker, Holds(v, w)
    PROVE  LocksFree(v) /\ req[v].pc \in InFlight
<1>i. RequestsLinked /\ LocksExclusive
  BY DEF IInv
<1>1. req[v].pc \in SessionHolder \cup {"code.issue", "code.commit"}
  BY DEF Holds, SessionHolder
<1>2. CASE req[v].pc \notin {"refresh.rotate", "refresh.reuse"}
  BY <1>1, <1>2 DEF LocksFree, SessionHolder, InFlight, ReusePC, CodePC, RefreshPC, LogoutPC
<1>3. CASE req[v].pc = "refresh.reuse"
  BY <1>i, <1>3 DEF LocksFree, SessionFree, LocksExclusive, SessionHolder, InFlight, RefreshPC
<1>4. CASE req[v].pc = "refresh.rotate"
  <2>1. ASSUME NEW u \in Worker \ {v}, req[u].pc = "refresh.commit", req[u].tok = req[v].tok
        PROVE  FALSE
    <3>1. req[u].sess = req[v].sess
      BY <1>i, <1>4, <2>1 DEF RequestsLinked, RefreshPC
    <3>2. u = v
      BY <1>i, <1>4, <2>1, <3>1 DEF LocksExclusive, SessionHolder
    <3>. QED BY <2>1, <3>2
  <2>. QED BY <1>4, <2>1 DEF LocksFree, TokenFree, InFlight, RefreshPC
<1>. QED BY <1>2, <1>3, <1>4

\* A request waits at most for one that waits for nobody, so however many workers
\* refresh, reuse, redeem and log out, they never wait in a circle.
WaitsEnd ==
    \A w \in Worker :
        /\ ~LocksFree(w) => \E v \in Worker \ {w} : Holds(v, w)
        /\ \A v \in Worker : Holds(v, w) => LocksFree(v) /\ req[v].pc \in InFlight

THEOREM HoldersNeverWait == Spec => []WaitsEnd
<1>1. IInv => WaitsEnd
  BY FreeOrHeld, HoldersGoOn DEF WaitsEnd
<1>. QED BY <1>1, Invariance, PTL

\* As long as requests are under way, one of them has its locks (NoStandstill, but for
\* what ENABLED adds to it).
SomeoneGoesOn ==
    (\E w \in Worker : req[w].pc \in InFlight) =>
        \E w \in Worker : req[w].pc \in InFlight /\ LocksFree(w)

THEOREM RequestsGoOn == Spec => []SomeoneGoesOn
<1>1. WaitsEnd => SomeoneGoesOn
  BY DEF WaitsEnd, SomeoneGoesOn
<1>. QED BY <1>1, HoldersNeverWait, PTL

-----------------------------------------------------------------------------
(* The steps of requests seen from cleanup: rows are added, never removed.  *)

\* A key that has a row keeps it as it is stored or removed.
RowsKept ==
    /\ \A s \in Session : ~Absent(sessions, s) => sessions'[s].st = sessions[s].st
    /\ \A c \in Code : ~Absent(codes, c) => codes'[c].st = codes[c].st
    /\ \A t \in Token : ~Absent(tokens, t) => tokens'[t].st = tokens[t].st

LEMMA NextRowsKept ==
    ASSUME TypeOK, RequestsLinked, [Next]_vars
    PROVE  RowsKept
<1>. USE DEF RowsKept, Absent
<1>1. ASSUME NEW s \in Session, NEW c \in Code, Login(s, c)
      PROVE  RowsKept
  BY <1>1, LoginEffect DEF Opens, Codes
<1>2. ASSUME NEW s \in Session, NEW t \in Token, PasswordGrant(s, t)
      PROVE  RowsKept
  BY <1>2, PasswordGrantEffect DEF Opens, Founds
<1>3. ASSUME NEW w \in Worker, ReuseCommit(w)
      PROVE  RowsKept
  BY <1>3, ReuseCommitEffect DEF SetsIdle, Codes
<1>4. ASSUME NEW w \in Worker, CodeCommit(w)
      PROVE  RowsKept
  BY <1>4, CodeCommitEffect DEF Founds
<1>5. ASSUME NEW w \in Worker, RefreshCommit(w)
      PROVE  RowsKept
  BY <1>5, RefreshCommitEffect DEF SetsIdle, Rotates
<1>6. ASSUME NEW w \in Worker, RefreshReuse(w) \/ LogoutRevoke(w)
      PROVE  RowsKept
  BY <1>6, RevokeEffect DEF Revokes
<1>7. CASE UNCHANGED <<sessions, codes, tokens>>
  BY <1>7
<1>. QED BY <1>1, <1>2, <1>3, <1>4, <1>5, <1>6, <1>7, StepKinds DEF TableStep

\* A code that is new has a session that is stored.
LEMMA NextNewCodes ==
    ASSUME TypeOK, RowsLinked, RequestsLinked, CodesStored, [Next]_vars,
           NEW c \in Code, Absent(codes, c), codes'[c].st = "present"
    PROVE  sessions'[codes'[c].sess].st = "present"
<1>. USE DEF Absent
<1>1. ASSUME NEW s \in Session, NEW d \in Code, Login(s, d)
      PROVE  sessions'[codes'[c].sess].st = "present"
  BY <1>1, LoginEffect DEF Opens, Codes
<1>2. ASSUME NEW w \in Worker, ReuseCommit(w)
      PROVE  sessions'[codes'[c].sess].st = "present"
  BY <1>2, ReuseCommitEffect DEF SetsIdle, Codes, CodesStored
<1>3. ASSUME NEW w \in Worker, CodeCommit(w)
      PROVE  FALSE
  BY <1>3, CodeCommitEffect
<1>4. CASE codes' = codes
  BY <1>4
<1>5. \/ codes' = codes
      \/ \E s \in Session, d \in Code : Login(s, d)
      \/ \E w \in Worker : ReuseCommit(w) \/ CodeCommit(w)
  BY PasswordGrantEffect, RefreshCommitEffect, RevokeEffect, StepKinds DEF TableStep
<1>. QED BY <1>1, <1>2, <1>3, <1>4, <1>5

LEMMA NextCodesStored ==
    ASSUME TypeOK, RowsLinked, RequestsLinked, CodesStored, [Next]_vars
    PROVE  CodesStored'
<1>. USE DEF Absent
<1>0. RowsKept /\ RowsStable
  BY NextRowsKept, StableRows
<1>1. ASSUME NEW c \in Code, codes'[c].st = "present"
      PROVE  sessions'[codes'[c].sess].st = "present"
  <2>1. CASE codes[c].st = "absent"
    BY <1>1, <2>1, NextNewCodes
  <2>2. CASE codes[c].st # "absent"
    BY <1>0, <1>1, <2>2 DEF RowsKept, RowsStable, CodesStored, RowsLinked
  <2>. QED BY <2>1, <2>2
<1>2. ASSUME NEW w \in Worker, req'[w].pc \in {"reuse.issue", "reuse.commit"}
      PROVE  sessions'[req'[w].sess].st = "present"
  <2>1. CASE req'[w] = req[w]
    BY <1>0, <1>2, <2>1
       DEF RowsKept, CodesStored, RequestsLinked, InFlight, ReusePC
  <2>2. CASE req'[w] # req[w]
    <3>1. Arrive(w) \/ Proceed(w) \/ Fail(w) \/ Recover(w)
      BY <2>2, OneWorker
    <3>2. ~Arrive(w)
      BY <1>2, ArriveEffect DEF Names
    <3>3. ~Fail(w) /\ ~Recover(w)
      BY <1>2 DEF Fail, Recover, Finish, NoRequest, Asking, TypeOK
    <3>4. CASE ReuseTouch(w) /\ Advances(w, "reuse.issue")
      <4>1. sessions[req[w].sess].st = "present"
        BY <3>4 DEF ReuseTouch, Advances, Finish, NoRequest, Asking, TypeOK
      <4>. QED BY <3>4, <4>1 DEF ReuseTouch, Advances
    <3>5. CASE ReuseIssue(w) /\ Advances(w, "reuse.commit")
      BY <3>5 DEF ReuseIssue, Advances, EligibleWith
    <3>6. ~Over(w)
      BY <1>2 DEF Over
    <3>. QED BY <1>2, <3>1, <3>2, <3>3, <3>4, <3>5, <3>6, ProceedEffect DEF Advances
  <2>. QED BY <2>1, <2>2
<1>. QED BY <1>1, <1>2 DEF CodesStored

LEMMA NextClaimPinsSession ==
    ASSUME TypeOK, RowsLinked, RequestsLinked, CodesStored, ClaimPinsSession, [Next]_vars
    PROVE  ClaimPinsSession'
<1>. USE DEF Absent
<1>0. RowsKept
  BY NextRowsKept
<1>. SUFFICES ASSUME NEW w \in Worker, req'[w].pc \in {"code.issue", "code.commit"}
              PROVE  /\ codes'[req'[w].code].st = "present"
                     /\ sessions'[req'[w].sess].st = "present"
  BY DEF ClaimPinsSession
<1>1. CASE req'[w] = req[w]
  BY <1>0, <1>1 DEF RowsKept, ClaimPinsSession, RequestsLinked, InFlight, CodePC
<1>2. CASE req'[w] # req[w]
  <2>1. Arrive(w) \/ Proceed(w) \/ Fail(w) \/ Recover(w)
    BY <1>2, OneWorker
  <2>2. ~Arrive(w) /\ ~Fail(w) /\ ~Recover(w) /\ ~Over(w)
    BY ArriveEffect DEF Names, Fail, Recover, Finish, NoRequest, Asking, TypeOK, Over
  <2>3. CASE CodeConsume(w) /\ Advances(w, "code.issue")
    <3>1. req[w].code \in Code /\ req[w].sess = codes[req[w].code].sess
      BY <2>3 DEF CodeConsume, RequestsLinked, CodePC
    <3>2. codes[req[w].code].st = "present"
      BY <2>3 DEF CodeConsume, CodeClaimable
    <3>. QED BY <2>3, <3>1, <3>2 DEF CodesStored, CodeConsume, Advances
  <2>4. CASE CodeIssue(w) /\ Advances(w, "code.commit")
    BY <2>4 DEF CodeIssue, Advances, ClaimPinsSession
  <2>. QED BY <2>1, <2>2, <2>3, <2>4, ProceedEffect DEF Advances
<1>. QED BY <1>1, <1>2

LEMMA NextLinksStored ==
    ASSUME TypeOK, RowsLinked, RequestsLinked, ChecksHold, LinksStored, [Next]_vars
    PROVE  LinksStored'
<1>0. \A t \in Token : tokens[t].st # "absent" => tokens'[t].st = tokens[t].st
  BY NextRowsKept DEF RowsKept, Absent
<1>1. CASE \A t \in Token : SameLineage(t)
  BY <1>1 DEF SameLineage, LinksStored
<1>2. CASE FoundsFamily
  <2>1. PICK t \in Token, x \in Session, o \in Code \cup {None}, e \in Nat :
               Absent(tokens, t) /\ Founds(t, x, o, e)
    BY <1>2 DEF FoundsFamily
  <2>. QED BY <1>0, <2>1, NoneAssumption DEF LinksStored, Founds, Absent
<1>3. CASE RotatesFamily
  <2>1. PICK t \in Token, u \in Token, e \in Nat : Rotates(t, u, e)
    BY <1>3 DEF RotatesFamily
  <2>. QED BY <1>0, <2>1, NoneAssumption DEF LinksStored, Rotates, Absent
<1>. QED BY <1>1, <1>2, <1>3, LineageStep

-----------------------------------------------------------------------------
(* A committed batch, row by row and field by field.                        *)

Deletes(table, r) == table[r].st = "present" /\ table'[r].st = "deleted"

Shrinks ==
    /\ \A s \in Session :
          /\ sessions'[s].revoked = sessions[s].revoked
          /\ sessions'[s].idle = sessions[s].idle /\ sessions'[s].max = sessions[s].max
          /\ \/ sessions'[s].st = sessions[s].st
             \/ Deletes(sessions, s) /\ Expired(s) /\ ~Referenced(s) /\ SessionFree(s, None)
    /\ \A c \in Code :
          /\ codes'[c].sess = codes[c].sess /\ codes'[c].consumed = codes[c].consumed
          /\ codes'[c].exp = codes[c].exp
          /\ \/ codes'[c].st = codes[c].st
             \/ Deletes(codes, c) /\ CodeFree(c, None)
    /\ \A t \in Token :
          /\ tokens'[t].sess = tokens[t].sess /\ tokens'[t].origin = tokens[t].origin
          /\ tokens'[t].family = tokens[t].family /\ tokens'[t].gen = tokens[t].gen
          /\ tokens'[t].exp = tokens[t].exp /\ tokens'[t].used = tokens[t].used
          /\ tokens'[t].revoked = tokens[t].revoked
          /\ tokens'[t].replacedBy \in {tokens[t].replacedBy, None}
          /\ \/ tokens'[t].st = tokens[t].st
             \/ Deletes(tokens, t) /\ \A u \in Token : tokens'[u].replacedBy # t

\* A batch holds rows of one table, and only what still matches goes.
LEMMA MatchingRows ==
    ASSUME NEW inactive, cleaner \in Run
    PROVE  /\ \A s \in Session : s \in Matching(inactive) => Expired(s)
           /\ \A c \in Code : c \in Matching(inactive) => codes[c].st = "present"
           /\ \A t \in Token : t \in Matching(inactive) => tokens[t].st = "present"
           /\ Matching(inactive) \subseteq Row
<1>. USE KeyAssumption
<1>1. CASE cleaner.table = "codes"
  BY <1>1 DEF Matching, Row
<1>2. CASE cleaner.table = "tokens"
  BY <1>2 DEF Matching, Row
<1>3. CASE cleaner.table = "sessions"
  BY <1>3 DEF Matching, Row
<1>. QED BY <1>1, <1>2, <1>3 DEF Run

LEMMA CleanDeleteEffect ==
    ASSUME TypeOK, cleaner \in Run, RunBehind, CleanDelete
    PROVE  Shrinks /\ TypeOK' /\ UNCHANGED <<clock, enabled, req>>
<1>. DEFINE gone == cleaner.doomed \cap Matching(cleaner.inactive)
            unlinked == Unlinked(cleaner.batch)
<1>1. CASE UNCHANGED <<sessions, codes, tokens>>
  BY <1>1 DEF CleanDelete, Shrinks, TypeOK
<1>2. CASE /\ sessions' = Removed(sessions, gone)
           /\ codes' = Removed(codes, gone)
           /\ tokens' = Removed(unlinked, gone)
           /\ \A s \in gone \cap Session : ~Referenced(s)
  <2>. USE MatchingRows
  <2>1. ASSUME NEW s \in Session
        PROVE  /\ sessions'[s] \in SessionRow
               /\ sessions'[s].revoked = sessions[s].revoked
               /\ sessions'[s].idle = sessions[s].idle /\ sessions'[s].max = sessions[s].max
               /\ \/ sessions'[s].st = sessions[s].st
                  \/ Deletes(sessions, s) /\ Expired(s) /\ ~Referenced(s) /\ SessionFree(s, None)
    <3>1. sessions'[s] = IF s \in gone THEN [sessions[s] EXCEPT !.st = "deleted"]
                                       ELSE sessions[s]
      BY <1>2 DEF Removed, TypeOK
    <3>2. sessions[s] \in SessionRow
      BY DEF TypeOK
    <3>3. s \in gone => /\ Expired(s) /\ ~Referenced(s) /\ SessionFree(s, None)
                      /\ sessions[s].st = "present"
      BY <1>2 DEF Expired, CleanDelete, RowsFree
    <3>. QED BY <3>1, <3>2, <3>3 DEF SessionRow, RowStatus, Deletes
  <2>2. ASSUME NEW c \in Code
        PROVE  /\ codes'[c] \in CodeRow
               /\ codes'[c].sess = codes[c].sess /\ codes'[c].consumed = codes[c].consumed
               /\ codes'[c].exp = codes[c].exp
               /\ \/ codes'[c].st = codes[c].st
                  \/ Deletes(codes, c) /\ CodeFree(c, None)
    <3>1. codes'[c] = IF c \in gone THEN [codes[c] EXCEPT !.st = "deleted"] ELSE codes[c]
      BY <1>2 DEF Removed, TypeOK
    <3>2. codes[c] \in CodeRow
      BY DEF TypeOK
    <3>3. c \in gone => CodeFree(c, None) /\ codes[c].st = "present"
      BY DEF CleanDelete, RowsFree
    <3>. QED BY <3>1, <3>2, <3>3 DEF CodeRow, RowStatus, Deletes
  <2>3. ASSUME NEW t \in Token
        PROVE  /\ tokens'[t] \in TokenRow
               /\ tokens'[t].sess = tokens[t].sess /\ tokens'[t].origin = tokens[t].origin
               /\ tokens'[t].family = tokens[t].family /\ tokens'[t].gen = tokens[t].gen
               /\ tokens'[t].exp = tokens[t].exp /\ tokens'[t].used = tokens[t].used
               /\ tokens'[t].revoked = tokens[t].revoked
               /\ tokens'[t].replacedBy \in {tokens[t].replacedBy, None}
               /\ tokens'[t].replacedBy \notin cleaner.batch \cap Token
               /\ tokens'[t].st = tokens[t].st \/ (Deletes(tokens, t) /\ t \in cleaner.batch)
    <3>1. tokens'[t] = IF t \in gone THEN [unlinked[t] EXCEPT !.st = "deleted"] ELSE unlinked[t]
      BY <1>2 DEF Removed, Unlinked
    <3>2. unlinked[t] = IF tokens[t].replacedBy \in cleaner.batch
                        THEN [tokens[t] EXCEPT !.replacedBy = None] ELSE tokens[t]
      BY DEF Unlinked
    <3>3. tokens[t] \in TokenRow
      BY DEF TypeOK
    <3>4. t \in gone => t \in cleaner.batch /\ tokens[t].st = "present"
      BY DEF RunBehind
    <3>5. /\ unlinked[t] \in TokenRow /\ unlinked[t].st = tokens[t].st
          /\ unlinked[t].sess = tokens[t].sess /\ unlinked[t].origin = tokens[t].origin
          /\ unlinked[t].family = tokens[t].family /\ unlinked[t].gen = tokens[t].gen
          /\ unlinked[t].exp = tokens[t].exp /\ unlinked[t].used = tokens[t].used
          /\ unlinked[t].revoked = tokens[t].revoked
          /\ unlinked[t].replacedBy \in {tokens[t].replacedBy, None}
          /\ unlinked[t].replacedBy \notin cleaner.batch \cap Token
      BY <3>2, <3>3, NoneAssumption DEF TokenRow
    <3>6. CASE t \in gone
      <4>1. tokens'[t] = [unlinked[t] EXCEPT !.st = "deleted"]
        BY <3>1, <3>6
      <4>2. /\ tokens'[t] \in TokenRow /\ tokens'[t].st = "deleted"
            /\ tokens'[t].sess = unlinked[t].sess /\ tokens'[t].origin = unlinked[t].origin
            /\ tokens'[t].family = unlinked[t].family /\ tokens'[t].gen = unlinked[t].gen
            /\ tokens'[t].exp = unlinked[t].exp /\ tokens'[t].used = unlinked[t].used
            /\ tokens'[t].revoked = unlinked[t].revoked
            /\ tokens'[t].replacedBy = unlinked[t].replacedBy
        BY <3>5, <4>1 DEF TokenRow, RowStatus
      <4>. QED BY <3>4, <3>5, <3>6, <4>2 DEF Deletes
    <3>7. CASE t \notin gone
      BY <3>1, <3>5, <3>7
    <3>. QED BY <3>6, <3>7
  <2>4. Shrinks
    BY <2>1, <2>2, <2>3 DEF Shrinks
  <2>5. /\ sessions' \in [Session -> SessionRow] /\ codes' \in [Code -> CodeRow]
        /\ tokens' \in [Token -> TokenRow]
    BY <1>2, <2>1, <2>2, <2>3 DEF Removed, Unlinked, TypeOK
  <2>. QED BY <2>4, <2>5 DEF CleanDelete, TypeOK
<1>. QED BY <1>1, <1>2 DEF CleanDelete

\* The invariant survives a batch, one group of conjuncts at a time.
LEMMA ShrinksRows ==
    ASSUME TypeOK, RowsLinked, RequestsLinked, LocksExclusive, ChecksHold, Shrinks, req' = req
    PROVE  RowsLinked' /\ RequestsLinked' /\ LocksExclusive' /\ ChecksHold'
<1>. USE DEF Absent, Exists, Deletes
<1>1. RowsLinked'
  <2>1. ASSUME NEW c \in Code, codes'[c].st # "absent"
        PROVE  codes'[c].sess \in Session /\ ~Absent(sessions', codes'[c].sess)
    BY <2>1 DEF Shrinks, RowsLinked
  <2>2. ASSUME NEW t \in Token, tokens'[t].st # "absent"
        PROVE  /\ tokens'[t].sess \in Session /\ ~Absent(sessions', tokens'[t].sess)
               /\ tokens'[t].family \in Token /\ tokens'[tokens'[t].family].st # "absent"
    BY <2>2 DEF Shrinks, RowsLinked
  <2>3. ASSUME NEW t \in Token, tokens'[t].st # "absent", tokens'[t].origin # None
        PROVE  ~Absent(codes', tokens'[t].origin) /\ codes'[tokens'[t].origin].consumed
    <3>1. tokens'[t].origin = tokens[t].origin /\ tokens[t].st # "absent"
      BY <2>3 DEF Shrinks
    <3>2. tokens[t].origin \in Code
      BY <2>3, <3>1 DEF TypeOK, TokenRow
    <3>. QED BY <2>3, <3>1, <3>2 DEF Shrinks, RowsLinked
  <2>. QED BY <2>1, <2>2, <2>3 DEF RowsLinked
<1>2. RequestsLinked'
  BY DEF Shrinks, RequestsLinked
<1>3. LocksExclusive'
  BY DEF LocksExclusive
<1>4. ChecksHold'
  BY DEF Shrinks, ChecksHold, RequestsLinked, InFlight, ReusePC, CodePC, RefreshPC
<1>. QED BY <1>1, <1>2, <1>3, <1>4

LEMMA ShrinksFamilies ==
    ASSUME TypeOK, OneFamilyPerCode, NoFork, Descended, Shrinks
    PROVE  OneFamilyPerCode' /\ NoFork' /\ Descended'
BY DEF OneFamilyPerCode, NoFork, Descended, Shrinks, Exists, Deletes

LEMMA ShrinksSessions ==
    ASSUME TypeOK, RowsLinked, DeadSessionInert, ExpiryWithinSession, Shrinks
    PROVE  DeadSessionInert' /\ ExpiryWithinSession'
BY DEF DeadSessionInert, ExpiryWithinSession, RowsLinked, Shrinks, Exists, Absent, Deletes

\* An unreferenced session is needed by no stored code; a reuse holds its lock,
\* and a claim the lock of its code.
LEMMA ShrinksStored ==
    ASSUME TypeOK, RowsLinked, RequestsLinked, CodesStored, ClaimPinsSession, LinksStored,
           CleanDelete, Shrinks, req' = req
    PROVE  CodesStored' /\ ClaimPinsSession' /\ LinksStored'
<1>. USE DEF Deletes
<1>1. CodesStored'
  <2>1. ASSUME NEW c \in Code, codes'[c].st = "present"
        PROVE  sessions'[codes'[c].sess].st = "present"
    <3>1. codes[c].st = "present" /\ codes'[c].sess = codes[c].sess
      BY <2>1 DEF Shrinks
    <3>2. codes[c].sess \in Session /\ sessions[codes[c].sess].st = "present"
      BY <3>1 DEF CodesStored, RowsLinked
    <3>. QED BY <3>1, <3>2 DEF Shrinks, Referenced
  <2>2. ASSUME NEW w \in Worker, req[w].pc \in {"reuse.issue", "reuse.commit"}
        PROVE  sessions'[req[w].sess].st = "present"
    <3>1. req[w].sess \in Session /\ sessions[req[w].sess].st = "present"
      BY <2>2 DEF CodesStored, RequestsLinked, InFlight, ReusePC
    <3>. QED BY <2>2, <3>1, KeyAssumption DEF Shrinks, SessionFree, SessionHolder
  <2>. QED BY <2>1, <2>2 DEF CodesStored
<1>2. ClaimPinsSession'
  BY KeyAssumption DEF Shrinks, ClaimPinsSession, CodeFree, RequestsLinked, CodePC, InFlight,
     Referenced
<1>3. LinksStored'
  BY NoneAssumption DEF Shrinks, LinksStored
<1>. QED BY <1>1, <1>2, <1>3

-----------------------------------------------------------------------------
(* The run itself.                                                          *)

\* The steps: one of a request, one of the run alone, or a committed batch.
LEMMA CleanupSteps ==
    ASSUME [NextWithCleanup]_allVars
    PROVE  \/ [Next]_vars /\ UNCHANGED cleanupVars
           \/ UNCHANGED vars /\ (CleanStart \/ CleanSelect \/ CleanSnapshot \/ CleanKilled)
           \/ UNCHANGED vars /\ \E t \in Token : CleanLock(t)
           \/ UNCHANGED vars /\ cleaner' = NoRun
           \/ CleanDelete
<1>1. CASE Served(Next) \/ \E w \in Worker : Served(Fail(w))
  BY <1>1 DEF Served, Next
<1>2. CASE \E w \in Worker, t \in Token : RevokeLock(w, t)
  BY <1>2 DEF RevokeLock
<1>3. ASSUME NEW w \in Worker, DeadlockAbort(w)
      PROVE  Served(Fail(w)) \/ (UNCHANGED vars /\ cleaner' = NoRun)
  BY <1>3 DEF DeadlockAbort
<1>4. CASE CleanStart \/ CleanProceed \/ CleanKilled
  BY <1>4 DEF CleanProceed, CleanStart, CleanSelect, CleanLock, CleanSnapshot, CleanKilled
<1>5. CASE UNCHANGED allVars
  BY <1>5 DEF allVars, vars, cleanupVars
<1>. QED BY <1>1, <1>2, <1>3, <1>4, <1>5 DEF NextWithCleanup, Recorded

LEMMA AtType ==
    ASSUME NEW pc \in {"idle", "select", "unlink", "delete"},
           NEW table \in {"codes", "tokens", "sessions"}, NEW cutoff \in Nat
    PROVE  /\ At(pc, table, cutoff) \in Run
           /\ At(pc, table, cutoff).cutoff = cutoff
           /\ At(pc, table, cutoff).doomed = {}
BY DEF At, Run

LEMMA ClockMoves ==
    ASSUME [Next]_vars
    PROVE  clock' = clock \/ clock' = clock + 1
<1>1. ASSUME NEW w \in Worker, Arrive(w)
      PROVE  clock' = clock
  BY <1>1 DEF Arrive, ReuseRead, LogoutHint, CodeRead, RefreshRead, LogoutToken
<1>2. ASSUME NEW w \in Worker, Proceed(w)
      PROVE  clock' = clock
  BY <1>2 DEF Proceed, ReuseTouch, ReuseIssue, ReuseDenied, ReuseCommit, CodeConsume,
     CodeRejected, CodeIssue, CodeIssueDenied, CodeCommit, RefreshLock, RefreshLockRejected,
     RefreshCheck, RefreshRejected, RefreshRotate, RefreshRotateDenied, RefreshCommit,
     RefreshReuse, LogoutLock, LogoutRevoke
<1>3. ASSUME NEW w \in Worker, Fail(w) \/ Recover(w)
      PROVE  clock' = clock
  BY <1>3 DEF Fail, Recover
<1>4. CASE UNCHANGED vars
  BY <1>4 DEF vars
<1>. QED BY <1>1, <1>2, <1>3, <1>4 DEF Next, Login, PasswordGrant, Tick, SetEnabled

LEMMA RunStep ==
    ASSUME TypeOK, cleaner \in Run, RunBehind, [NextWithCleanup]_allVars
    PROVE  cleaner' \in Run /\ RunBehind'
<1>. USE DEF RunBehind
<1>c. clock \in Nat /\ cleaner.cutoff \in Nat /\ cleaner.table \in {"codes", "tokens", "sessions"}
  BY DEF TypeOK, Run
<1>n. NoRun \in Run /\ NoRun.cutoff = 0 /\ NoRun.doomed = {}
  BY AtType DEF NoRun
<1>1. CASE [Next]_vars /\ UNCHANGED cleanupVars
  <2>1. cleaner' = cleaner
    BY <1>1 DEF cleanupVars
  <2>2. cleaner.cutoff <= clock'
    BY <1>1, <1>c, ClockMoves
  <2>. QED BY <2>1, <2>2
<1>2. CASE CleanStart
  BY <1>2, <1>c, AtType DEF CleanStart, vars
<1>3. CASE CleanSelect /\ UNCHANGED vars
  <2>1. CASE cleaner' = AfterTable
    BY <1>3, <1>c, <1>n, <2>1, AtType DEF AfterTable, vars
  <2>2. ASSUME NEW batch \in Batches(Matching(Inactive)),
               cleaner' = [cleaner EXCEPT !.pc = "unlink", !.batch = batch]
        PROVE  cleaner' \in Run /\ RunBehind'
    <3>1. batch \subseteq Row
      BY MatchingRows DEF Batches
    <3>2. cleaner.doomed = {}
      BY <1>3 DEF CleanSelect
    <3>. QED BY <1>3, <1>c, <2>2, <3>1, <3>2 DEF Run, vars
  <2>. QED BY <1>3, <2>1, <2>2 DEF CleanSelect
<1>4. CASE CleanSnapshot /\ UNCHANGED vars
  BY <1>4, <1>c DEF CleanSnapshot, Run, Inactive, vars
<1>5. CASE CleanKilled /\ UNCHANGED vars
  BY <1>5, <1>c, <1>n DEF CleanKilled, vars
<1>6. CASE CleanDelete
  BY <1>6, <1>c, <1>n, AtType DEF CleanDelete
<1>7. ASSUME NEW t \in Token, CleanLock(t), UNCHANGED vars
      PROVE  cleaner' \in Run /\ RunBehind'
  BY <1>7, <1>c DEF CleanLock, Run, vars
<1>8. CASE cleaner' = NoRun /\ UNCHANGED vars
  BY <1>8, <1>c, <1>n DEF vars
<1>. QED BY <1>1, <1>2, <1>3, <1>4, <1>5, <1>6, <1>7, <1>8, CleanupSteps

\* A token is granted to one side only, and every end of a transaction lets go of its own.
LEMMA LocksStep ==
    ASSUME TypeOK, cleaner \in Run, LocksApart, [NextWithCleanup]_allVars
    PROVE  LocksApart'
<1>. USE DEF LocksApart, Revoking
<1>1. ASSUME held' = [w \in Worker |-> IF req'[w] = req[w] THEN held[w] ELSE {}],
             cleaner' = cleaner
      PROVE  LocksApart'
  BY <1>1
<1>2. ASSUME NEW w \in Worker, NEW t \in Token, RevokeLock(w, t)
      PROVE  LocksApart'
  BY <1>2 DEF RevokeLock, vars, cleanupVars
<1>3. ASSUME NEW t \in Token, CleanLock(t)
      PROVE  LocksApart'
  BY <1>3 DEF CleanLock, vars, Run
<1>4. ASSUME UNCHANGED <<req, held>>, cleaner'.locked \in {{}, cleaner.locked}
      PROVE  LocksApart'
  BY <1>4
<1>5. NoRun.locked = {}
  BY DEF NoRun, At
<1>6. CASE CleanStart \/ CleanSelect \/ CleanSnapshot \/ CleanDelete \/ CleanKilled
  <2>1. req' = req /\ held' = held
    BY <1>6 DEF CleanStart, CleanSelect, CleanSnapshot, CleanDelete, CleanKilled, vars
  <2>2. AfterTable.locked = {} /\ \A pc, table, cutoff : At(pc, table, cutoff).locked = {}
    BY <1>5 DEF AfterTable, At, Run
  <2>3. cleaner'.locked \in {{}, cleaner.locked}
    <3>1. CASE CleanSelect
      BY <2>2, <3>1 DEF CleanSelect, Run
    <3>2. CASE CleanSnapshot
      BY <3>2 DEF CleanSnapshot, Run
    <3>3. CASE CleanStart \/ CleanDelete \/ CleanKilled
      BY <1>5, <2>2, <3>3 DEF CleanStart, CleanDelete, CleanKilled
    <3>. QED BY <1>6, <3>1, <3>2, <3>3
  <2>. QED BY <1>4, <2>1, <2>3
<1>7. ASSUME NEW w \in Worker, DeadlockAbort(w)
      PROVE  LocksApart'
  BY <1>1, <1>4, <1>5, <1>7 DEF DeadlockAbort, Served, vars, cleanupVars
<1>8. CASE UNCHANGED allVars
  BY <1>4, <1>8 DEF allVars
<1>9. CASE Served(Next)
  BY <1>1, <1>9 DEF Served, cleanupVars
<1>. QED BY <1>2, <1>3, <1>6, <1>7, <1>8, <1>9 DEF NextWithCleanup, Recorded, CleanProceed

-----------------------------------------------------------------------------
(* The theorems.                                                            *)

LEMMA InitCleanup == InitWithCleanup => CleanupInv
<1>. SUFFICES ASSUME InitWithCleanup PROVE CleanupInv
  OBVIOUS
<1>1. TypeOK /\ IInv
  BY InitType, InitInv DEF InitWithCleanup
<1>2. cleaner \in Run /\ RunBehind /\ LocksApart
  BY AtType DEF InitWithCleanup, Init, NoRun, At, RunBehind, LocksApart
<1>3. CodesStored /\ ClaimPinsSession /\ LinksStored
  BY DEF InitWithCleanup, Init, NoRequest, Asking, CodesStored, ClaimPinsSession, LinksStored
<1>. QED BY <1>1, <1>2, <1>3 DEF IInv, RotationAtomic, CleanupInv

LEMMA UnchangedKeeps ==
    ASSUME CleanupInv, UNCHANGED vars
    PROVE  /\ TypeOK' /\ RowsLinked' /\ RequestsLinked' /\ LocksExclusive' /\ ChecksHold'
           /\ OneFamilyPerCode' /\ NoFork' /\ Descended' /\ DeadSessionInert'
           /\ ExpiryWithinSession' /\ CodesStored' /\ ClaimPinsSession' /\ LinksStored'
<1>1. TypeOK' /\ RowsLinked' /\ RequestsLinked'
  BY DEF CleanupInv, vars, TypeOK, RowsLinked, RequestsLinked, Exists, Absent
<1>2. LocksExclusive' /\ ChecksHold'
  BY DEF CleanupInv, vars, LocksExclusive, ChecksHold
<1>3. OneFamilyPerCode' /\ NoFork' /\ Descended'
  BY DEF CleanupInv, vars, OneFamilyPerCode, NoFork, Descended, Exists
<1>4. DeadSessionInert' /\ ExpiryWithinSession'
  BY DEF CleanupInv, vars, DeadSessionInert, ExpiryWithinSession, Exists
<1>5. CodesStored' /\ ClaimPinsSession' /\ LinksStored'
  BY DEF CleanupInv, vars, CodesStored, ClaimPinsSession, LinksStored
<1>. QED BY <1>1, <1>2, <1>3, <1>4, <1>5

LEMMA CleanupInductive == CleanupInv /\ [NextWithCleanup]_allVars => CleanupInv'
<1>. SUFFICES ASSUME CleanupInv, [NextWithCleanup]_allVars
              PROVE  CleanupInv'
  OBVIOUS
<1>i. /\ TypeOK /\ cleaner \in Run
      /\ RowsLinked /\ RequestsLinked /\ LocksExclusive /\ ChecksHold
      /\ OneFamilyPerCode /\ NoFork /\ Descended /\ DeadSessionInert /\ ExpiryWithinSession
      /\ RunBehind /\ LocksApart /\ CodesStored /\ ClaimPinsSession /\ LinksStored
  BY DEF CleanupInv
<1>r. cleaner' \in Run /\ RunBehind' /\ LocksApart'
  BY <1>i, RunStep, LocksStep
<1>1. CASE [Next]_vars
  BY <1>i, <1>r, <1>1, TypeNext, NextRowsLinked, NextRequestsLinked, NextLocksExclusive,
     NextChecksHold, NextOneFamilyPerCode, NextNoFork, NextDescended, NextDeadSessionInert,
     NextExpiryWithinSession, NextCodesStored, NextClaimPinsSession, NextLinksStored
     DEF CleanupInv
<1>2. CASE UNCHANGED vars
  BY <1>r, <1>2, UnchangedKeeps DEF CleanupInv
<1>3. CASE CleanDelete
  <2>1. Shrinks /\ TypeOK' /\ req' = req
    BY <1>i, <1>3, CleanDeleteEffect
  <2>. QED BY <1>i, <1>r, <1>3, <2>1, ShrinksRows, ShrinksFamilies, ShrinksSessions,
              ShrinksStored DEF CleanupInv
<1>. QED BY <1>1, <1>2, <1>3, CleanupSteps

\* Rows, requests and the run stay well formed, and the invariant of both
\* together (RunBehind to LinksStored) holds in every state of every instance.
THEOREM CleanupInvariance == SpecWithCleanup => []CleanupInv
<1>. QED BY InitCleanup, CleanupInductive, PTL DEF SpecWithCleanup

\* What requests promise (one family per code, no fork, nothing active on a revoked
\* session, nothing beyond the maximum) they promise beside cleanup_expired.
THEOREM SafeBesideCleanup ==
    SpecWithCleanup => [](OneFamilyPerCode /\ NoFork /\ DeadSessionInert /\ ExpiryWithinSession)
<1>1. CleanupInv => OneFamilyPerCode /\ NoFork /\ DeadSessionInert /\ ExpiryWithinSession
  BY DEF CleanupInv
<1>. QED BY <1>1, CleanupInvariance, PTL

\* A code grant in progress keeps its session, which it has not locked.
THEOREM ClaimsPinSessions == SpecWithCleanup => []ClaimPinsSession
<1>1. CleanupInv => ClaimPinsSession
  BY DEF CleanupInv
<1>. QED BY <1>1, CleanupInvariance, PTL

\* The clearing of replaced_by_id leaves no link to a removed row.
THEOREM NoLinkDangles == SpecWithCleanup => []LinksStored
<1>1. CleanupInv => LinksStored
  BY DEF CleanupInv
<1>. QED BY <1>1, CleanupInvariance, PTL

\* A session, revoked or not, is removed only when it has expired by its own row,
\* whatever extended it since it was selected.
THEOREM RetentionForLogout == SpecWithCleanup => RetainedForLogout
<1>1. ASSUME CleanupInv, [NextWithCleanup]_allVars
      PROVE  RetainedStep
  <2>i. TypeOK /\ RequestsLinked /\ cleaner \in Run /\ RunBehind
    BY <1>1 DEF CleanupInv
  <2>. SUFFICES ASSUME NEW s \in Session, sessions[s].st = "present",
                       sessions'[s].st = "deleted"
                PROVE  sessions[s].idle <= clock \/ sessions[s].max <= clock
    BY DEF RetainedStep
  <2>1. CASE [Next]_vars
    BY <2>i, <2>1, NextRowsKept DEF RowsKept, Absent
  <2>2. CASE UNCHANGED vars
    BY <2>2 DEF vars
  <2>3. CASE CleanDelete
    <3>1. Expired(s)
      BY <2>i, <2>3, CleanDeleteEffect DEF Shrinks
    <3>2. /\ sessions[s].idle \in Nat /\ sessions[s].max \in Nat /\ clock \in Nat
          /\ cleaner.cutoff \in Nat /\ cleaner.cutoff <= clock
      BY <2>i, FieldTypes DEF Run, RunBehind
    <3>. QED BY <3>1, <3>2 DEF Expired
  <2>. QED BY <1>1, <2>1, <2>2, <2>3, CleanupSteps
<1>. QED BY <1>1, InitCleanup, CleanupInductive, PTL DEF SpecWithCleanup, RetainedForLogout

-----------------------------------------------------------------------------
(* What cleanup removed would be good for nothing.                          *)

\* A session that nothing hangs on any more, or one that was revived.
Spent(s) == ~Absent(sessions, s) /\ (~Usable(s) \/ s \in revived)

\* A row that has passed its expiry or has been used up, or whose session is spent.
CodeWasted(c) == codes[c].exp <= clock \/ codes[c].consumed \/ Spent(codes[c].sess)
TokenWasted(t) == tokens[t].exp <= clock \/ tokens[t].revoked \/ Spent(tokens[t].sess)

\* The sessions a DELETE has found inactive are still spent when it decides, and
\* what earlier ones removed is still waste.
WasteStays ==
    /\ \A s \in cleaner.inactive : Spent(s)
    /\ \A c \in Code : codes[c].st = "deleted" => CodeWasted(c)
    /\ \A t \in Token : tokens[t].st = "deleted" => TokenWasted(t)

\* An expiry that moves from the past into the future is recorded.
LEMMA RevivalsRecorded ==
    ASSUME TypeOK, [NextWithCleanup]_allVars, NEW s \in Session
    PROVE  /\ s \in revived => s \in revived'
           /\ sessions[s].st = "present" /\ sessions[s].idle <= clock /\ sessions'[s].idle > clock
                => s \in revived'
<1>1. CASE UNCHANGED allVars
  <2>1. sessions[s].idle \in Nat /\ clock \in Nat
    BY FieldTypes
  <2>. QED BY <1>1, <2>1 DEF allVars
<1>2. CASE revived' = revived \cup Revived
  BY <1>2 DEF Revived
<1>. QED BY <1>1, <1>2 DEF NextWithCleanup, Recorded

\* What a row has lost in a step of the requests it has lost for good.
LossesStay ==
    /\ \A s \in Session : ~Absent(sessions, s) /\ sessions[s].revoked => sessions'[s].revoked
    /\ \A c \in Code : ~Absent(codes, c) => codes'[c].exp = codes[c].exp
    /\ \A t \in Token : Exists(t) /\ tokens[t].revoked => tokens'[t].revoked

\* Requests remove no row.
NoneRemoved ==
    /\ \A c \in Code : codes'[c].st = "deleted" => codes[c].st = "deleted"
    /\ \A t \in Token : tokens'[t].st = "deleted" => tokens[t].st = "deleted"

LEMMA NextLossesStay ==
    ASSUME TypeOK, RequestsLinked, [Next]_vars
    PROVE  LossesStay /\ NoneRemoved
<1>. USE DEF LossesStay, NoneRemoved, Absent, Exists
<1>1. ASSUME NEW s \in Session, NEW c \in Code, Login(s, c)
      PROVE  LossesStay /\ NoneRemoved
  BY <1>1, LoginEffect DEF Opens, Codes
<1>2. ASSUME NEW s \in Session, NEW t \in Token, PasswordGrant(s, t)
      PROVE  LossesStay /\ NoneRemoved
  BY <1>2, PasswordGrantEffect DEF Opens, Founds
<1>3. ASSUME NEW w \in Worker, ReuseCommit(w)
      PROVE  LossesStay /\ NoneRemoved
  BY <1>3, ReuseCommitEffect DEF Codes, SetsIdle
<1>4. ASSUME NEW w \in Worker, CodeCommit(w)
      PROVE  LossesStay /\ NoneRemoved
  BY <1>4, CodeCommitEffect DEF Founds
<1>5. ASSUME NEW w \in Worker, RefreshCommit(w)
      PROVE  LossesStay /\ NoneRemoved
  BY <1>5, RefreshCommitEffect DEF Rotates, SetsIdle
<1>6. ASSUME NEW w \in Worker, RefreshReuse(w) \/ LogoutRevoke(w)
      PROVE  LossesStay /\ NoneRemoved
  BY <1>6, RevokeEffect DEF Revokes
<1>7. CASE UNCHANGED <<sessions, codes, tokens>>
  BY <1>7
<1>. QED BY <1>1, <1>2, <1>3, <1>4, <1>5, <1>6, <1>7, StepKinds DEF TableStep

\* The same, and the time, in every step.
LEMMA NothingRecovers ==
    ASSUME CleanupInv, [NextWithCleanup]_allVars
    PROVE  /\ LossesStay /\ RowsStable
           /\ \A s \in Session : ~Absent(sessions, s) =>
                 sessions'[s].st = sessions[s].st \/ sessions'[s].st = "deleted"
           /\ clock \in Nat /\ clock' \in Nat /\ clock <= clock'
<1>i. TypeOK /\ RequestsLinked /\ cleaner \in Run /\ RunBehind /\ clock \in Nat
  BY DEF CleanupInv, TypeOK
<1>1. CASE [Next]_vars
  <2>1. LossesStay /\ RowsStable /\ RowsKept
    BY <1>i, <1>1, NextLossesStay, StableRows, NextRowsKept
  <2>2. clock' = clock \/ clock' = clock + 1
    BY <1>1, ClockMoves
  <2>. QED BY <1>i, <2>1, <2>2 DEF RowsKept
<1>2. CASE UNCHANGED vars
  BY <1>i, <1>2 DEF vars, LossesStay, RowsStable, Absent, Exists
<1>3. CASE CleanDelete
  <2>1. Shrinks /\ clock' = clock
    BY <1>i, <1>3, CleanDeleteEffect
  <2>2. LossesStay /\ RowsStable
    BY <2>1 DEF Shrinks, Deletes, LossesStay, RowsStable, Absent, Exists
  <2>3. \A s \in Session : sessions'[s].st = sessions[s].st \/ sessions'[s].st = "deleted"
    BY <2>1 DEF Shrinks, Deletes
  <2>. QED BY <1>i, <2>1, <2>2, <2>3
<1>. QED BY <1>1, <1>2, <1>3, CleanupSteps

\* A session is spent for good, or is recorded.
LEMMA SpentStays ==
    ASSUME CleanupInv, [NextWithCleanup]_allVars, NEW s \in Session, Spent(s)
    PROVE  Spent(s)'
<1>1. TypeOK
  BY DEF CleanupInv
<1>2. TypeOK'
  BY CleanupInductive DEF CleanupInv
<1>3. /\ ~Absent(sessions, s) /\ ~Absent(sessions', s)
      /\ sessions'[s].st = sessions[s].st \/ sessions'[s].st = "deleted"
      /\ sessions[s].revoked => sessions'[s].revoked
      /\ sessions'[s].max = sessions[s].max
  BY NothingRecovers DEF Spent, LossesStay, RowsStable, Absent
<1>4. /\ clock \in Nat /\ clock' \in Nat /\ clock <= clock'
      /\ sessions[s].max \in Nat /\ sessions[s].idle \in Nat /\ sessions'[s].idle \in Nat
  BY <1>1, <1>2, NothingRecovers DEF TypeOK, SessionRow
<1>5. CASE s \in revived
  BY <1>1, <1>3, <1>5, RevivalsRecorded DEF Spent, Absent
<1>6. CASE ~Usable(s)
  <2>1. CASE sessions[s].st = "present" /\ sessions[s].idle <= clock /\ sessions'[s].idle > clock
    BY <1>1, <1>3, <2>1, RevivalsRecorded DEF Spent, Absent
  <2>2. CASE ~(sessions[s].st = "present" /\ sessions[s].idle <= clock /\ sessions'[s].idle > clock)
    <3>1. ~Usable(s)'
      BY <1>3, <1>4, <1>6, <2>2 DEF Usable
    <3>. QED BY <1>3, <3>1 DEF Spent, Absent
  <2>. QED BY <2>1, <2>2
<1>. QED BY <1>5, <1>6 DEF Spent

\* So is a row.
LEMMA WasteStaysWaste ==
    ASSUME CleanupInv, [NextWithCleanup]_allVars
    PROVE  /\ \A c \in Code : ~Absent(codes, c) /\ CodeWasted(c) => CodeWasted(c)'
           /\ \A t \in Token : Exists(t) /\ TokenWasted(t) => TokenWasted(t)'
<1>i. TypeOK /\ RowsLinked
  BY DEF CleanupInv
<1>n. LossesStay /\ RowsStable /\ clock \in Nat /\ clock' \in Nat /\ clock <= clock'
  BY NothingRecovers
<1>1. ASSUME NEW c \in Code, ~Absent(codes, c), CodeWasted(c)
      PROVE  CodeWasted(c)'
  <2>1. /\ codes'[c].sess = codes[c].sess /\ codes'[c].exp = codes[c].exp
        /\ codes[c].consumed => codes'[c].consumed
    BY <1>n, <1>1 DEF LossesStay, RowsStable
  <2>2. codes[c].sess \in Session /\ codes[c].exp \in Nat
    BY <1>i, <1>1 DEF RowsLinked, TypeOK, CodeRow, Absent
  <2>3. Spent(codes[c].sess) => Spent(codes[c].sess)'
    BY <2>1, <2>2, SpentStays
  <2>. QED BY <1>n, <1>1, <2>1, <2>2, <2>3 DEF CodeWasted
<1>2. ASSUME NEW t \in Token, Exists(t), TokenWasted(t)
      PROVE  TokenWasted(t)'
  <2>1. /\ tokens'[t].sess = tokens[t].sess /\ tokens'[t].exp = tokens[t].exp
        /\ tokens[t].revoked => tokens'[t].revoked
    BY <1>n, <1>2 DEF LossesStay, RowsStable
  <2>2. tokens[t].sess \in Session /\ tokens[t].exp \in Nat
    BY <1>i, <1>2 DEF RowsLinked, TypeOK, TokenRow, Exists
  <2>3. Spent(tokens[t].sess) => Spent(tokens[t].sess)'
    BY <2>1, <2>2, SpentStays
  <2>. QED BY <1>n, <1>2, <2>1, <2>2, <2>3 DEF TokenWasted
<1>. QED BY <1>1, <1>2

\* A DELETE decides on the row as it is, and on the sessions of its snapshot.
LEMMA BatchIsWaste ==
    ASSUME CleanupInv, WasteStays, CleanDelete
    PROVE  /\ \A c \in Code : Deletes(codes, c) => CodeWasted(c)
           /\ \A t \in Token : Deletes(tokens, t) => TokenWasted(t)
<1>c. TypeOK /\ cleaner \in Run /\ RunBehind
  BY DEF CleanupInv
<1>i. /\ TypeOK /\ cleaner \in Run
      /\ clock \in Nat /\ cleaner.cutoff \in Nat /\ cleaner.cutoff <= clock
  BY <1>c, FieldTypes DEF Run, RunBehind
<1>. DEFINE gone == cleaner.doomed \cap Matching(cleaner.inactive)
            unlinked == Unlinked(cleaner.batch)
<1>1. ASSUME NEW c \in Code, Deletes(codes, c)
      PROVE  CodeWasted(c)
  <2>1. c \in gone
    <3>1. CASE codes' = codes
      BY <1>1, <3>1 DEF Deletes
    <3>2. CASE codes' = Removed(codes, gone)
      BY <1>i, <1>1, <3>2 DEF Deletes, Removed, TypeOK
    <3>. QED BY <3>1, <3>2 DEF CleanDelete
  <2>2. codes[c].exp <= cleaner.cutoff \/ codes[c].sess \in cleaner.inactive
    BY <1>i, <2>1, KeyAssumption DEF Matching, Run
  <2>3. codes[c].exp \in Nat
    BY <1>i DEF TypeOK, CodeRow
  <2>. QED BY <1>i, <2>2, <2>3 DEF CodeWasted, WasteStays
<1>2. ASSUME NEW t \in Token, Deletes(tokens, t)
      PROVE  TokenWasted(t)
  <2>1. t \in gone
    <3>1. CASE tokens' = tokens
      BY <1>2, <3>1 DEF Deletes
    <3>2. CASE tokens' = Removed(unlinked, gone)
      <4>1. tokens[t] \in TokenRow /\ tokens[t].st = "present" /\ tokens'[t].st = "deleted"
        BY <1>i, <1>2 DEF Deletes, TypeOK
      <4>2. unlinked[t].st = "present"
        BY <4>1 DEF Unlinked, TokenRow
      <4>. QED BY <3>2, <4>1, <4>2 DEF Removed, Unlinked
    <3>. QED BY <3>1, <3>2 DEF CleanDelete
  <2>2. \/ tokens[t].exp <= cleaner.cutoff \/ tokens[t].revoked
        \/ tokens[t].sess \in cleaner.inactive
    BY <1>i, <2>1, KeyAssumption DEF Matching, Run
  <2>3. tokens[t].exp \in Nat
    BY <1>i DEF TypeOK, TokenRow
  <2>. QED BY <1>i, <2>2, <2>3 DEF TokenWasted, WasteStays
<1>. QED BY <1>1, <1>2

\* The sessions a snapshot finds are spent, and other steps find none.
LEMMA SnapshotSpent ==
    ASSUME CleanupInv, WasteStays, [NextWithCleanup]_allVars, NEW s \in cleaner'.inactive
    PROVE  s \in Session /\ Spent(s)
<1>i. /\ TypeOK /\ cleaner \in Run /\ cleaner.inactive \subseteq Session
      /\ clock \in Nat /\ cleaner.cutoff \in Nat /\ cleaner.cutoff <= clock
  BY DEF CleanupInv, TypeOK, Run, RunBehind
<1>1. CASE cleaner'.inactive \subseteq cleaner.inactive
  BY <1>i, <1>1 DEF WasteStays
<1>2. CASE CleanSnapshot
  <2>1. cleaner'.inactive = Inactive
    BY <1>i, <1>2 DEF CleanSnapshot, Run
  <2>2. /\ s \in Session /\ sessions[s].st = "present"
        /\ \/ sessions[s].idle <= cleaner.cutoff \/ sessions[s].max <= cleaner.cutoff
           \/ sessions[s].revoked
    BY <2>1 DEF Inactive, Expired
  <2>3. sessions[s].idle \in Nat /\ sessions[s].max \in Nat
    BY <1>i, <2>2, FieldTypes
  <2>. QED BY <1>i, <2>2, <2>3 DEF Spent, Usable, Absent
<1>3. CASE CleanStart \/ CleanKilled \/ CleanDelete
  BY <1>1, <1>3 DEF CleanStart, CleanKilled, CleanDelete, At, NoRun
<1>4. CASE CleanSelect
  <2>1. ASSUME NEW batch, cleaner' = [cleaner EXCEPT !.pc = "unlink", !.batch = batch]
        PROVE  s \in Session /\ Spent(s)
    BY <1>i, <1>1, <2>1 DEF Run
  <2>2. CASE cleaner' = AfterTable
    BY <1>1, <1>i, <2>2 DEF AfterTable, At, NoRun, Run
  <2>. QED BY <1>4, <2>1, <2>2 DEF CleanSelect
<1>5. CASE cleaner' = NoRun \/ \E t \in Token : CleanLock(t)
  <2>1. cleaner'.inactive \subseteq cleaner.inactive
    BY <1>5, <1>i DEF CleanLock, NoRun, At, Run
  <2>. QED BY <1>1, <2>1
<1>. QED BY <1>1, <1>2, <1>3, <1>4, <1>5, CleanupSteps DEF cleanupVars

LEMMA WasteInductive ==
    ASSUME CleanupInv, WasteStays, [NextWithCleanup]_allVars
    PROVE  WasteStays'
<1>i. TypeOK /\ RequestsLinked /\ cleaner \in Run /\ RunBehind
  BY DEF CleanupInv
<1>1. \A s \in cleaner'.inactive : Spent(s)'
  BY SnapshotSpent, SpentStays
<1>2. ASSUME NEW c \in Code, codes'[c].st = "deleted"
      PROVE  CodeWasted(c)'
  <2>1. ~Absent(codes, c) /\ CodeWasted(c)
    <3>1. CASE codes[c].st = "deleted"
      BY <3>1 DEF WasteStays, Absent
    <3>2. CASE codes[c].st # "deleted"
      <4>1. CleanDelete
        BY <1>i, <1>2, <3>2, NextLossesStay, CleanupSteps DEF NoneRemoved, vars
      <4>2. Deletes(codes, c)
        BY <1>i, <1>2, <3>2, <4>1, CleanDeleteEffect DEF Shrinks
      <4>. QED BY <4>1, <4>2, BatchIsWaste DEF Deletes, Absent
    <3>. QED BY <3>1, <3>2
  <2>. QED BY <2>1, WasteStaysWaste
<1>3. ASSUME NEW t \in Token, tokens'[t].st = "deleted"
      PROVE  TokenWasted(t)'
  <2>1. Exists(t) /\ TokenWasted(t)
    <3>1. CASE tokens[t].st = "deleted"
      BY <3>1 DEF WasteStays, Exists
    <3>2. CASE tokens[t].st # "deleted"
      <4>1. CleanDelete
        BY <1>i, <1>3, <3>2, NextLossesStay, CleanupSteps DEF NoneRemoved, vars
      <4>2. Deletes(tokens, t)
        BY <1>i, <1>3, <3>2, <4>1, CleanDeleteEffect DEF Shrinks
      <4>. QED BY <4>1, <4>2, BatchIsWaste DEF Deletes, Exists
    <3>. QED BY <3>1, <3>2
  <2>. QED BY <2>1, WasteStaysWaste
<1>. QED BY <1>1, <1>2, <1>3 DEF WasteStays

LEMMA WasteNotKept == CleanupInv /\ WasteStays => LiveArtifactsKept
BY DEF WasteStays, CodeWasted, TokenWasted, Spent, LiveArtifactsKept, RemovedUseless

\* Cleanup removes nothing that is good for anything, however requests extend and
\* revoke sessions around its batches: what hangs on a session that its DELETE has
\* found inactive is waste, unless a request revived that session afterwards.
THEOREM LiveArtifactsStay == SpecWithCleanup => []LiveArtifactsKept
<1>1. InitWithCleanup => WasteStays
  BY DEF InitWithCleanup, Init, NoRun, At, WasteStays
<1>2. CleanupInv /\ WasteStays /\ [NextWithCleanup]_allVars => CleanupInv' /\ WasteStays'
  BY CleanupInductive, WasteInductive
<1>. QED BY <1>1, <1>2, InitCleanup, WasteNotKept, PTL DEF SpecWithCleanup

\* A row that cleanup deletes keeps, for the ledger, what it said; a deleted session
\* stays closed.
LEMMA BatchDoesNotShow ==
    ASSUME CleanupInv, CleanDelete
    PROVE  UNCHANGED Ledger!vars /\ (AbsentBlank => AbsentBlank')
<1>1. Shrinks
  BY CleanDeleteEffect DEF CleanupInv
<1>2. KeepsSessions /\ \A t \in Token : SameEntry(t)
  BY <1>1 DEF Shrinks, Deletes, KeepsSessions, SameEntry
<1>3. AbsentBlank => AbsentBlank'
  BY <1>1 DEF Shrinks, Deletes, AbsentBlank, Absent
<1>. QED BY <1>2, <1>3, QuietStep

\* The tables are a ledger of grants beside cleanup_expired as well: what it deletes
\* was handed out all the same, and nothing it deletes can be handed out again.
THEOREM LedgerBesideCleanup == SpecWithCleanup => ImplementsLedger
<1>1. ASSUME CleanupInv, AbsentBlank, [NextWithCleanup]_allVars
      PROVE  AbsentBlank' /\ [Ledger!Next]_(Ledger!vars)
  <2>i. TypeOK /\ RowsLinked /\ RequestsLinked /\ ChecksHold
    BY <1>1 DEF CleanupInv
  <2>1. CASE [Next]_vars
    BY <1>1, <2>i, <2>1, NextBlank, LedgerStep
  <2>2. CASE UNCHANGED vars
    <3>1. KeepsSessions /\ \A t \in Token : SameEntry(t)
      BY <2>2 DEF vars, KeepsSessions, SameEntry
    <3>2. AbsentBlank'
      BY <1>1, <2>2 DEF vars, AbsentBlank, Absent
    <3>. QED BY <3>1, <3>2, QuietStep
  <2>3. CASE CleanDelete
    BY <1>1, <2>3, BatchDoesNotShow
  <2>. QED BY <1>1, <2>1, <2>2, <2>3, CleanupSteps
<1>2. InitWithCleanup => Init
  BY DEF InitWithCleanup
<1>. QED BY <1>1, <1>2, InitBlank, LedgerInit, CleanupInvariance, PTL
         DEF SpecWithCleanup, ImplementsLedger, Ledger!Spec
=============================================================================
