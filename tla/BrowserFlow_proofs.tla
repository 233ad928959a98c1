--------------------------- MODULE BrowserFlow_proofs ---------------------------
(* Proofs about BrowserFlow, for any number of requests, users and commits. *)
EXTENDS BrowserFlow, FiniteSetTheorems, TLAPS

-----------------------------------------------------------------------------
(* The row between requests.                                                *)

\* A tab in progress.  The flow goes forward only: a user is selected with the
\* first execution, and whatever order selector answers and links take, the
\* password execution and the pending update come together.
Pending(t) ==
    /\ t \in Tab /\ t.execution # "authenticated"
    /\ t.action = t.completed
    /\ t.action => Succeeded(t) = Execution /\ t.current = None /\ ~t.selector
    /\ t.user # None => "choose" \in Succeeded(t)
    /\ "email" \in Succeeded(t) => t.user # None
    /\ "password" \in Succeeded(t) => Eligible(t)
    /\ t.required => "password" \in Succeeded(t)
    /\ t.delivery # None => t.delivery = t.user

\* A tab that has been completed, by a password or by the whole reset flow.
Finished(t) ==
    /\ t \in Tab /\ t.execution = "authenticated"
    /\ ~t.action /\ ~t.completed /\ ~t.required /\ ~t.selector
    /\ t.user # None
    /\ t.delivery # None => t.delivery = t.user /\ Succeeded(t) = Execution

\* What later steps may rely on when one of them has made `r` of `t`.
Keeps(t, r) ==
    /\ r.generation = t.generation /\ r.delivery = t.delivery
    /\ t.user # None => r.user = t.user

\* What a handler may make of a tab in progress: it completes exactly with a login,
\* and records a delivery exactly with a message.
Move(t, o) ==
    /\ o.send \in BOOLEAN /\ o.login \in BOOLEAN /\ o.change \in BOOLEAN
    /\ IF o.login THEN Finished(o.row) ELSE Pending(o.row) /\ ~o.change
    /\ o.row.generation = t.generation
    /\ t.user # None => o.row.user = t.user
    /\ IF o.send THEN t.delivery = None /\ o.row.delivery # None
                 ELSE o.row.delivery = t.delivery

LEMMA MoveAfter ==
    ASSUME NEW t, NEW r, NEW o, Keeps(t, r), Move(r, o)
    PROVE  Move(t, o)
BY DEF Keeps, Move

LEMMA PlainMoves ==
    ASSUME NEW t, Pending(t), NEW r, Pending(r), Keeps(t, r), NEW o \in Plain(r)
    PROVE  Move(t, o)
<1>1. o = [row |-> r, send |-> FALSE, login |-> FALSE, change |-> FALSE]
  BY DEF Plain, Outcome
<1>2. o.row = r /\ o.send = FALSE /\ o.login = FALSE /\ o.change = FALSE
  BY <1>1
<1>. QED BY <1>2 DEF Move, Keeps

-----------------------------------------------------------------------------
(* The operators of the flow, in the order of BrowserFlow.                  *)

\* process_result adds an execution to those that have succeeded, or leaves them.
LEMMA ResultEffect ==
    ASSUME NEW t \in Tab, NEW e \in Execution, NEW s \in FlowStatus, e \notin Succeeded(t)
    PROVE  LET r == ProcessResult(t, e, s) IN
           /\ r \in Tab
           /\ Succeeded(r) = IF s = "SUCCESS" THEN Succeeded(t) \cup {e} ELSE Succeeded(t)
           /\ r.execution = e /\ r.current = e /\ r.completed = FALSE
           /\ r.version = t.version /\ r.generation = t.generation
           /\ r.user = t.user /\ r.proof = t.proof /\ r.delivery = t.delivery
           /\ r.selector = t.selector /\ r.required = t.required /\ r.action = t.action
           /\ r.scheduled = t.scheduled
<1>1. ProcessResult(t, e, s) \in Tab
  BY DEF ProcessResult, Tab
<1>2. \A x \in Execution :
        ProcessResult(t, e, s).status[x] = IF x = e THEN s ELSE t.status[x]
  BY DEF ProcessResult, Tab
<1>. QED BY <1>1, <1>2 DEF ProcessResult, Tab, Succeeded

\* An execution that has not succeeded keeps the tab in progress.
LEMMA ResultPending ==
    ASSUME NEW t, Pending(t), NEW e \in Execution, e \notin Succeeded(t),
           NEW s \in FlowStatus,
           s = "SUCCESS" => e = "email" /\ t.user # None
    PROVE  /\ Pending(ProcessResult(t, e, s))
           /\ Keeps(t, ProcessResult(t, e, s))
<1>. DEFINE r == ProcessResult(t, e, s)
<1>1. t \in Tab /\ ~t.action /\ ~t.completed
  BY DEF Pending
<1>2. /\ r \in Tab /\ r.execution = e /\ r.completed = FALSE
      /\ Succeeded(r) = IF s = "SUCCESS" THEN Succeeded(t) \cup {e} ELSE Succeeded(t)
      /\ r.generation = t.generation /\ r.user = t.user /\ r.delivery = t.delivery
      /\ r.required = t.required /\ r.action = t.action /\ r.scheduled = t.scheduled
  BY <1>1, ResultEffect
<1>. HIDE DEF r
<1>3. Keeps(t, r)
  BY <1>2 DEF Keeps
<1>4. Succeeded(t) \subseteq Succeeded(r)
  BY <1>2
<1>5. r.execution # "authenticated" /\ r.action = FALSE
  BY <1>1, <1>2 DEF Execution, Tab
<1>6. Pending(r)
  <2>1. r.action = r.completed
    BY <1>2, <1>5
  <2>2. r.user # None => "choose" \in Succeeded(r)
    BY <1>2, <1>4 DEF Pending
  <2>3. "email" \in Succeeded(r) => r.user # None
    BY <1>2 DEF Pending
  <2>4. "password" \in Succeeded(r) => Eligible(r)
    BY <1>2 DEF Pending, Eligible
  <2>5. r.required => "password" \in Succeeded(r)
    BY <1>2 DEF Pending
  <2>6. r.delivery # None => r.delivery = r.user
    BY <1>2 DEF Pending
  <2>. QED BY <1>2, <1>5, <2>1, <2>2, <2>3, <2>4, <2>5, <2>6 DEF Pending
<1>. QED BY <1>3, <1>6 DEF r

LEMMA CompleteMoves ==
    ASSUME NEW t \in Tab, NEW u \in User, NEW c \in BOOLEAN,
           t.execution # "authenticated", ~t.action,
           t.delivery # None => t.delivery = t.user /\ Succeeded(t) = Execution,
           NEW o \in Complete(t, u, c)
    PROVE  Move(t, o) /\ o.login
<1>. DEFINE r == [t EXCEPT !.user = u, !.execution = "authenticated", !.completed = FALSE,
                           !.current = None, !.selector = FALSE]
<1>1. /\ o = Outcome(r, FALSE, TRUE, c)
      /\ ~t.required /\ t.user \in {None, u}
  BY DEF Complete, Refused
<1>2. r \in Tab /\ r.status = t.status
  BY DEF Tab
<1>3. Finished(r)
  BY <1>1, <1>2, NoneAssumption DEF Finished, Tab, Succeeded
<1>. QED BY <1>1, <1>3 DEF Outcome, Move, Tab

\* The whole flow has succeeded: the form of the required action comes next.
LEMMA FlowSuccessfulMoves ==
    ASSUME NEW t, Pending(t), Succeeded(t) = Execution, NEW o \in FlowSuccessful(t)
    PROVE  Move(t, o)
<1>. DEFINE c == [t EXCEPT !.completed = TRUE, !.current = None, !.selector = FALSE]
            r == [c EXCEPT !.action = TRUE]
<1>1. t \in Tab /\ Eligible(t)
  BY DEF Pending, Execution
<1>2. Eligible(c) /\ c.required
  BY <1>1 DEF Eligible, Tab
<1>3. o \in Plain(r)
  BY <1>2 DEF FlowSuccessful, FlowResponse
<1>4. r \in Tab /\ Succeeded(r) = Execution
  BY <1>1 DEF Tab, Succeeded
<1>5. Pending(r) /\ Keeps(t, r)
  BY <1>1, <1>4 DEF Pending, Keeps, Tab, Eligible
<1>. QED BY <1>3, <1>5, PlainMoves

LEMMA ResetPasswordPending ==
    ASSUME NEW t, Pending(t), "password" \notin Succeeded(t), NEW r \in ResetPassword(t)
    PROVE  /\ Pending(r) /\ Keeps(t, r)
           /\ Succeeded(r) = Succeeded(t) \cup {"password"}
<1>. DEFINE s == [t EXCEPT !.required = TRUE, !.scheduled = TRUE]
<1>1. t.user # None /\ r = ProcessResult(s, "password", "SUCCESS")
  BY DEF ResetPassword
<1>2. t \in Tab /\ ~t.action /\ ~t.completed
  BY DEF Pending, Execution
<1>3. s \in Tab /\ Succeeded(s) = Succeeded(t)
  BY <1>2 DEF Tab, Succeeded
<1>4. /\ s.execution = t.execution /\ s.user = t.user /\ s.delivery = t.delivery
      /\ s.generation = t.generation /\ s.action = t.action /\ s.selector = t.selector
      /\ s.required = TRUE /\ s.scheduled = TRUE
  BY <1>2 DEF Tab
<1>5. "password" \in Execution /\ "SUCCESS" \in FlowStatus
  BY DEF Execution, FlowStatus
<1>. HIDE DEF s
<1>6. "password" \notin Succeeded(s)
  BY <1>3
<1>. DEFINE p == ProcessResult(s, "password", "SUCCESS")
<1>7. /\ p \in Tab /\ Succeeded(p) = Succeeded(s) \cup {"password"}
      /\ p.execution = "password" /\ p.completed = FALSE /\ p.action = s.action
      /\ p.user = s.user /\ p.delivery = s.delivery /\ p.generation = s.generation
      /\ p.required = s.required /\ p.scheduled = s.scheduled
  BY <1>3, <1>5, <1>6, ResultEffect
<1>. HIDE DEF p
<1>8. p.action = p.completed /\ p.execution # "authenticated"
  BY <1>2, <1>4, <1>7 DEF Tab
<1>9. p.user # None => "choose" \in Succeeded(p)
  BY <1>3, <1>4, <1>7 DEF Pending
<1>10. Eligible(p)
  BY <1>1, <1>4, <1>7 DEF Eligible
<1>11. p.delivery # None => p.delivery = p.user
  BY <1>4, <1>7 DEF Pending
<1>12. Keeps(t, p)
  BY <1>4, <1>7 DEF Keeps
<1>13. Pending(p)
  BY <1>1, <1>4, <1>7, <1>8, <1>9, <1>10, <1>11 DEF Pending
<1>. QED BY <1>1, <1>3, <1>7, <1>12, <1>13 DEF p

LEMMA EmailForkMoves ==
    ASSUME NEW t, Pending(t), "email" \notin Succeeded(t), NEW o \in EmailFork(t)
    PROVE  Move(t, o)
<1>. DEFINE s == [t EXCEPT !.delivery = t.user]
            plain == ProcessResult(t, "email", "FORK")
            mailed == ProcessResult(s, "email", "FORK")
<1>1. t \in Tab /\ "email" \in Execution /\ "FORK" \in FlowStatus
  BY DEF Pending, Execution, FlowStatus
<1>2. CASE o = Outcome(plain, FALSE, FALSE, FALSE)
  BY <1>1, <1>2, ResultPending DEF Outcome, Move, Keeps
<1>3. CASE t.user # None /\ t.delivery # t.user /\ o = Outcome(mailed, TRUE, FALSE, FALSE)
  <2>1. Pending(s) /\ Succeeded(s) = Succeeded(t) /\ s.generation = t.generation
        /\ s.user = t.user /\ s.delivery = t.user
    BY <1>1 DEF Pending, Tab, Succeeded, Eligible
  <2>. HIDE DEF s
  <2>2. Pending(mailed) /\ Keeps(s, mailed)
    BY <1>1, <2>1, ResultPending
  <2>3. t.delivery = None
    BY <1>3 DEF Pending
  <2>. QED BY <1>3, <2>1, <2>2, <2>3 DEF Outcome, Move, Keeps
<1>. QED BY <1>2, <1>3 DEF EmailFork

LEMMA TraversePasswordMoves ==
    ASSUME NEW t, Pending(t), {"choose", "email"} \subseteq Succeeded(t),
           NEW o \in TraversePassword(t)
    PROVE  Move(t, o)
<1>1. CASE "password" \in Succeeded(t)
  BY <1>1, FlowSuccessfulMoves DEF TraversePassword, Succeeded, Execution
<1>2. CASE "password" \notin Succeeded(t)
  <2>1. PICK r \in ResetPassword(t) : o \in FlowSuccessful(r)
    BY <1>2 DEF TraversePassword
  <2>2. Pending(r) /\ Keeps(t, r) /\ Succeeded(r) = Execution
    BY <1>2, <2>1, ResetPasswordPending DEF Succeeded, Execution
  <2>. QED BY <2>1, <2>2, FlowSuccessfulMoves, MoveAfter
<1>. QED BY <1>1, <1>2

LEMMA TraverseEmailMoves ==
    ASSUME NEW t, Pending(t), "choose" \in Succeeded(t), NEW consumed,
           NEW o \in TraverseEmail(t, consumed)
    PROVE  Move(t, o)
<1>1. CASE "email" \in Succeeded(t)
  BY <1>1, TraversePasswordMoves DEF TraverseEmail
<1>2. CASE "email" \notin Succeeded(t) /\ Validated(t, consumed)
  <2>. DEFINE r == ProcessResult(t, "email", "SUCCESS")
  <2>1. t \in Tab /\ "email" \in Execution /\ "SUCCESS" \in FlowStatus /\ t.user # None
    BY <1>2 DEF Pending, Execution, FlowStatus, Validated
  <2>2. Pending(r) /\ Keeps(t, r) /\ Succeeded(r) = Succeeded(t) \cup {"email"}
    BY <1>2, <2>1, ResultPending, ResultEffect
  <2>3. o \in TraversePassword(r)
    BY <1>2 DEF TraverseEmail
  <2>. HIDE DEF r
  <2>. QED BY <2>2, <2>3, TraversePasswordMoves, MoveAfter
<1>3. CASE "email" \notin Succeeded(t) /\ ~Validated(t, consumed)
  BY <1>3, EmailForkMoves DEF TraverseEmail
<1>. QED BY <1>1, <1>2, <1>3

\* The account form comes back, and nobody is selected yet.
LEMMA ChooseMoves ==
    ASSUME NEW t, Pending(t), "choose" \notin Succeeded(t),
           NEW o \in Plain(ProcessResult(t, "choose", "CHALLENGE"))
    PROVE  Move(t, o)
<1>1. "choose" \in Execution /\ "CHALLENGE" \in FlowStatus
  BY DEF Execution, FlowStatus
<1>. QED BY <1>1, ResultPending, PlainMoves

LEMMA TraverseMoves ==
    ASSUME NEW t, Pending(t), NEW consumed, NEW o \in Traverse(t, consumed)
    PROVE  Move(t, o)
<1>1. CASE "choose" \in Succeeded(t)
  BY <1>1, TraverseEmailMoves DEF Traverse
<1>2. CASE "choose" \notin Succeeded(t)
  BY <1>2, ChooseMoves DEF Traverse
<1>. QED BY <1>1, <1>2

LEMMA ProcessFlowMoves ==
    ASSUME NEW t, Pending(t), NEW consumed, NEW o \in ProcessFlow(t, consumed)
    PROVE  Move(t, o)
<1>1. Keeps(t, t)
  BY DEF Keeps
<1>. QED BY <1>1, TraverseMoves, PlainMoves DEF ProcessFlow

\* An answer to the selector, before or after the flow has come that far.
LEMMA AuthenticateMoves ==
    ASSUME NEW t, Pending(t), NEW e \in Execution, NEW consumed,
           NEW o \in Authenticate(t, e, consumed)
    PROVE  Move(t, o)
<1>1. CASE e \in Succeeded(t)
  BY <1>1, TraverseMoves DEF Authenticate
<1>2. CASE e = "choose" /\ e \notin Succeeded(t)
  BY <1>2, ChooseMoves DEF Authenticate
<1>3. CASE e = "email" /\ e \notin Succeeded(t) /\ Validated(t, consumed)
  <2>. DEFINE r == ProcessResult(t, e, "SUCCESS")
  <2>1. Pending(r) /\ Keeps(t, r)
    BY <1>3, ResultPending DEF FlowStatus, Validated
  <2>2. o \in Traverse(r, consumed)
    BY <1>3 DEF Authenticate
  <2>. HIDE DEF r
  <2>. QED BY <2>1, <2>2, TraverseMoves, MoveAfter
<1>4. CASE e = "email" /\ e \notin Succeeded(t) /\ ~Validated(t, consumed)
  BY <1>4, EmailForkMoves DEF Authenticate
<1>5. CASE e = "password" /\ e \notin Succeeded(t)
  <2>1. PICK r \in ResetPassword(t) : o \in Traverse(r, consumed)
    BY <1>5 DEF Authenticate
  <2>. QED BY <1>5, <2>1, ResetPasswordPending, TraverseMoves, MoveAfter
<1>. QED BY <1>1, <1>2, <1>3, <1>4, <1>5 DEF Execution

\* The account form selects a user where none was, and forgets nothing that counts.
LEMMA ChosenPending ==
    ASSUME NEW t, Pending(t), "choose" \notin Succeeded(t), NEW u \in User \cup {None}
    PROVE  LET r == ProcessResult([t EXCEPT !.user = u, !.scheduled = FALSE,
                                            !.proof = None, !.delivery = None],
                                  "choose", "SUCCESS")
           IN  Pending(r) /\ Keeps(t, r)
<1>. DEFINE s == [t EXCEPT !.user = u, !.scheduled = FALSE, !.proof = None, !.delivery = None]
            p == ProcessResult(s, "choose", "SUCCESS")
<1>1. t \in Tab /\ ~t.action /\ t.user = None /\ t.delivery = None
  BY DEF Pending, Execution
<1>2. Succeeded(t) = {} /\ ~t.required
  BY <1>1 DEF Pending, Succeeded, Execution, Eligible
<1>3. s \in Tab /\ Succeeded(s) = {}
  BY <1>1, <1>2 DEF Tab, Succeeded
<1>4. /\ s.user = u /\ s.delivery = None /\ s.generation = t.generation
      /\ s.action = t.action /\ s.required = t.required
  BY <1>1 DEF Tab
<1>. HIDE DEF s
<1>5. /\ p \in Tab /\ Succeeded(p) = Succeeded(s) \cup {"choose"}
      /\ p.execution = "choose" /\ p.completed = FALSE /\ p.action = s.action
      /\ p.user = s.user /\ p.delivery = s.delivery /\ p.generation = s.generation
      /\ p.required = s.required
  <2>1. "choose" \in Execution /\ "SUCCESS" \in FlowStatus /\ "choose" \notin Succeeded(s)
    BY <1>3 DEF Execution, FlowStatus
  <2>. QED BY <1>3, <2>1, ResultEffect
<1>. HIDE DEF p
<1>6. p.action = FALSE /\ Succeeded(p) = {"choose"}
  BY <1>1, <1>3, <1>4, <1>5 DEF Tab
<1>7. Pending(p)
  BY <1>2, <1>4, <1>5, <1>6 DEF Pending
<1>8. Keeps(t, p)
  BY <1>1, <1>4, <1>5 DEF Keeps
<1>. QED BY <1>7, <1>8 DEF p, s

LEMMA ActionMoves ==
    ASSUME NEW t, Pending(t), NEW e \in Execution, NEW u \in User \cup {None}, NEW consumed,
           NEW o \in Action(t, e, u, consumed)
    PROVE  Move(t, o)
<1>1. e \notin Succeeded(t)
  BY DEF Action, Refused
<1>2. CASE e = "choose"
  <2>1. PICK r : Pending(r) /\ Keeps(t, r) /\ o \in Traverse(r, consumed)
    BY <1>1, <1>2, ChosenPending DEF Action
  <2>. QED BY <2>1, TraverseMoves, MoveAfter
<1>3. CASE e = "email"
  <2>. DEFINE r == ProcessResult(t, e, "SUCCESS")
  <2>1. t.user # None /\ o \in Traverse(r, consumed)
    BY <1>1, <1>3 DEF Action, Refused
  <2>2. Pending(r) /\ Keeps(t, r)
    BY <1>1, <1>3, <2>1, ResultPending DEF FlowStatus
  <2>. HIDE DEF r
  <2>. QED BY <2>1, <2>2, TraverseMoves, MoveAfter
<1>4. CASE e = "password"
  <2>1. PICK r \in ResetPassword(t) : o \in Traverse(r, consumed)
    BY <1>1, <1>4 DEF Action
  <2>. QED BY <1>1, <1>4, <2>1, ResetPasswordPending, TraverseMoves, MoveAfter
<1>. QED BY <1>2, <1>3, <1>4 DEF Execution

\* Asking for the selector, or taking it away, changes nothing else.
LEMMA SelectorPending ==
    ASSUME NEW t, Pending(t), t.current # None, t.current \in Execution
    PROVE  /\ Pending([t EXCEPT !.execution = t.current, !.selector = TRUE])
           /\ Keeps(t, [t EXCEPT !.execution = t.current, !.selector = TRUE])
           /\ Pending([t EXCEPT !.selector = FALSE])
           /\ Keeps(t, [t EXCEPT !.selector = FALSE])
<1>. DEFINE a == [t EXCEPT !.execution = t.current, !.selector = TRUE]
            b == [t EXCEPT !.selector = FALSE]
<1>1. t \in Tab /\ ~t.action
  BY DEF Pending
<1>2. a \in Tab /\ Succeeded(a) = Succeeded(t) /\ b \in Tab /\ Succeeded(b) = Succeeded(t)
  BY <1>1 DEF Tab, Succeeded
<1>3. a.execution # "authenticated"
  BY <1>1 DEF Tab, Execution
<1>4. Pending(a)
  BY <1>1, <1>2, <1>3 DEF Pending, Eligible, Tab
<1>5. Pending(b)
  BY <1>1, <1>2 DEF Pending, Eligible, Tab
<1>6. Keeps(t, a) /\ Keeps(t, b)
  BY <1>1 DEF Keeps, Tab
<1>. QED BY <1>4, <1>5, <1>6

LEMMA ProcessActionMoves ==
    ASSUME NEW t, Pending(t), NEW u \in User \cup {None}, NEW consumed,
           NEW o \in ProcessAction(t, u, consumed)
    PROVE  Move(t, o)
<1>. DEFINE a == [t EXCEPT !.execution = t.current, !.selector = TRUE]
            b == [t EXCEPT !.selector = FALSE]
<1>1. t.current # None /\ t.current \in Execution
  BY DEF ProcessAction, Refused, Pending, Tab
<1>2. Pending(a) /\ Keeps(t, a) /\ Pending(b) /\ Keeps(t, b)
  BY <1>1, SelectorPending
<1>3. \/ o \in Plain(a) \/ o \in Action(t, t.current, u, consumed)
      \/ \E e \in Execution : o \in Authenticate(b, e, consumed)
  BY <1>1 DEF ProcessAction
<1>. HIDE DEF a, b
<1>. QED BY <1>1, <1>2, <1>3, PlainMoves, ActionMoves, AuthenticateMoves, MoveAfter

-----------------------------------------------------------------------------
(* The requests.                                                            *)

LEMMA LoginMoves ==
    ASSUME NEW t, Pending(t), Succeeded(t) = {}, NEW u \in User,
           NEW o \in Complete([t EXCEPT !.completed = TRUE], u, FALSE)
    PROVE  Move(t, o)
<1>. DEFINE r == [t EXCEPT !.completed = TRUE]
<1>1. t \in Tab /\ ~t.action /\ t.delivery = None
  BY DEF Pending, Execution
<1>2. r \in Tab /\ r.execution # "authenticated" /\ ~r.action /\ r.delivery = None /\ Keeps(t, r)
  BY <1>1 DEF Tab, Pending, Keeps
<1>. HIDE DEF r
<1>. QED BY <1>2, CompleteMoves, MoveAfter DEF r

LEMMA RequiredActionMoves ==
    ASSUME NEW t, Pending(t), t.action,
           NEW o \in Complete(PasswordReplaced(t), t.user, TRUE)
    PROVE  Move(t, o)
<1>. DEFINE r == PasswordReplaced(t)
<1>1. t \in Tab /\ Succeeded(t) = Execution /\ Eligible(t)
  BY DEF Pending, Execution
<1>2. r \in Tab /\ Succeeded(r) = Execution /\ Keeps(t, r)
  BY <1>1 DEF PasswordReplaced, Tab, Succeeded, Keeps
<1>3. r.execution # "authenticated" /\ ~r.action /\ (r.delivery # None => r.delivery = r.user)
  BY <1>1 DEF PasswordReplaced, Tab, Pending
<1>4. t.user \in User
  BY <1>1 DEF Eligible, Tab
<1>. HIDE DEF r
<1>5. ASSUME NEW q \in Complete(r, t.user, TRUE) PROVE Move(r, q)
  BY <1>2, <1>3, <1>4, CompleteMoves
<1>. QED BY <1>2, <1>5, MoveAfter DEF r

LEMMA ResumedEffect ==
    ASSUME NEW t \in Tab
    PROVE  /\ Resumed(t) \in Tab /\ Succeeded(Resumed(t)) = Succeeded(t)
           /\ Resumed(t).generation = t.generation + 1 /\ Resumed(t).selector = FALSE
           /\ Resumed(t).user = t.user /\ Resumed(t).delivery = t.delivery
           /\ Resumed(t).execution = t.execution /\ Resumed(t).current = t.current
           /\ Resumed(t).required = t.required /\ Resumed(t).scheduled = t.scheduled
           /\ Resumed(t).action = t.action /\ Resumed(t).completed = t.completed
<1>. DEFINE r == [t EXCEPT !.proof = t.user, !.selector = FALSE,
                           !.generation = t.generation + 1]
<1>1. Resumed(t) = r
  BY DEF Resumed, Tab
<1>2. t.generation + 1 \in Nat /\ t.user \in User \cup {None}
  BY DEF Tab
<1>3. r \in Tab
  BY <1>2 DEF Tab
<1>. QED BY <1>1, <1>3 DEF Tab, Succeeded

\* A link moves a tab in progress to another browser; one that has been completed
\* by the reset flow refuses it.
LEMMA ResumedMoves ==
    ASSUME NEW t, Pending(t), NEW consumed, NEW o \in ProcessFlow(Resumed(t), consumed)
    PROVE  Move(Resumed(t), o)
<1>1. t \in Tab
  BY DEF Pending
<1>2. Pending(Resumed(t))
  BY <1>1, ResumedEffect DEF Pending, Eligible
<1>. QED BY <1>2, ProcessFlowMoves

LEMMA FinishedRefuses ==
    ASSUME NEW t, Finished(t), Succeeded(t) = Execution, NEW consumed
    PROVE  ProcessFlow(Resumed(t), consumed) = {}
<1>. DEFINE r == Resumed(t)
            c == [r EXCEPT !.completed = TRUE, !.current = None, !.selector = FALSE]
<1>1. t \in Tab
  BY DEF Finished
<1>2. /\ r \in Tab /\ Succeeded(r) = Execution /\ r.selector = FALSE
      /\ r.required = t.required /\ r.execution = "authenticated" /\ r.user = t.user
  BY <1>1, ResumedEffect DEF Finished
<1>. HIDE DEF r
<1>3. ProcessFlow(r, consumed) = FlowSuccessful(r)
  BY <1>2 DEF ProcessFlow, Traverse, TraverseEmail, TraversePassword, Execution
<1>4. ~c.required /\ c.user = t.user /\ c.execution = "authenticated"
  BY <1>2 DEF Tab, Finished
<1>. HIDE DEF c
<1>5. FlowResponse(c) = {}
  BY <1>4 DEF FlowResponse, Complete, Refused, Finished
<1>. QED BY <1>3, <1>5 DEF FlowSuccessful, r, c

-----------------------------------------------------------------------------
(* The inductive invariant.                                                 *)

\* Versions and session codes go up together, and no request has seen more.
Versions ==
    /\ tab.version = issued /\ tab.code = issued
    /\ \A w \in Worker : req[w].version \in 0 .. issued

\* The codes that have been accepted are those before the current one.
CodesSpent == \A c \in Code : uses[c] <= IF c < issued THEN 1 ELSE 0

\* What the commit of `r` will do if it finds the version it has loaded.
Due(r) ==
    /\ Pending(tab)
    /\ r.code \in Code \cap {0, tab.code}
    /\ r.generation \in {None, tab.generation}
    /\ IF r.message = None THEN Move(tab, r.outcome)
       ELSE r.message \in MessageId /\ Move(Resumed(tab), r.outcome)

RequestsDue ==
    /\ req = [w \in Worker |-> req[w]]
    /\ \A w \in Worker :
          /\ req[w].pc \in {"idle", "commit"}
          /\ req[w].pc = "commit" /\ req[w].version = tab.version => Due(req[w])

IInv ==
    /\ TypeOK /\ (Pending(tab) \/ Finished(tab))
    /\ Versions /\ CodesSpent /\ RequestsDue
    /\ CompletesOnce /\ MessagePerDelivery /\ BindingFollowsMessage

LEMMA InitInv == Init => IInv
<1>. SUFFICES ASSUME Init PROVE IInv
  OBVIOUS
<1>1. NewTab \in Tab /\ Succeeded(NewTab) = {}
  BY DEF NewTab, Tab, Succeeded, Execution, FlowStatus
<1>2. Pending(tab)
  BY <1>1 DEF Init, Pending, NewTab, Eligible
<1>3. messages = <<>> /\ Len(messages) = 0 /\ MessageId = {}
  BY DEF Init, MessageId
<1>4. TypeOK
  BY <1>1, <1>3 DEF Init, TypeOK
<1>5. Versions /\ CodesSpent /\ RequestsDue
  BY MaxCommitsAssumption DEF Init, Versions, CodesSpent, RequestsDue, NewTab, Idle, Code
<1>6. CompletesOnce /\ MessagePerDelivery
  BY <1>3 DEF Init, CompletesOnce, MessagePerDelivery, NewTab
<1>7. BindingFollowsMessage
  BY <1>3, FS_EmptySet DEF Init, BindingFollowsMessage, NewTab
<1>. QED BY <1>2, <1>4, <1>5, <1>6, <1>7 DEF IInv

\* A request that has computed its answer waits for its commit.
LEMMA ComputeInv ==
    ASSUME IInv, NEW w \in Worker, NEW code \in {0, tab.code},
           NEW generation \in {None, tab.generation}, NEW message \in MessageId \cup {None},
           NEW outcomes, NEW a \in Answers(code, generation, message, outcomes),
           req' = [req EXCEPT ![w] = a], issued < MaxCommits,
           UNCHANGED <<tab, life, messages, issued, uses, logins, changes>>,
           \A o \in outcomes :
               Pending(tab) /\ Move(IF message = None THEN tab ELSE Resumed(tab), o)
    PROVE  IInv'
<1>1. PICK o \in outcomes :
        a = [pc |-> "commit", version |-> tab.version, code |-> code,
             generation |-> generation, message |-> message, outcome |-> o]
  BY DEF Answers
<1>2. UNCHANGED <<tab, life, messages, issued, uses, logins, changes>> /\ issued < MaxCommits
  OBVIOUS
<1>3. code \in Code
  BY <1>2, MaxCommitsAssumption DEF IInv, Versions, TypeOK, Code
<1>4. /\ req'[w] = [pc |-> "commit", version |-> tab.version, code |-> code,
                    generation |-> generation, message |-> message, outcome |-> o]
      /\ \A v \in Worker \ {w} : req'[v] = req[v]
      /\ req' = [v \in Worker |-> req'[v]]
  BY <1>1 DEF IInv, RequestsDue
<1>5. Due(req[w])'
  BY <1>2, <1>3, <1>4 DEF Due, MessageId
<1>6. RequestsDue'
  <2>1. ASSUME NEW v \in Worker \ {w}, (req[v].pc = "commit" /\ req[v].version = tab.version)'
        PROVE  Due(req[v])'
    BY <1>2, <1>4, <2>1 DEF IInv, RequestsDue, Due, MessageId
  <2>2. \A v \in Worker : req'[v].pc \in {"idle", "commit"}
    BY <1>4 DEF IInv, RequestsDue
  <2>. QED BY <1>4, <1>5, <2>1, <2>2 DEF RequestsDue
<1>7. Versions'
  BY <1>2, <1>4 DEF IInv, Versions, TypeOK
<1>8. /\ TypeOK' /\ (Pending(tab) \/ Finished(tab))' /\ CodesSpent'
      /\ CompletesOnce' /\ MessagePerDelivery' /\ BindingFollowsMessage'
  BY <1>2 DEF IInv, TypeOK, CodesSpent, CompletesOnce, MessagePerDelivery,
              BindingFollowsMessage, MessageId
<1>. QED BY <1>6, <1>7, <1>8 DEF IInv

\* What a message in the table says of the tab.
LEMMA OneMessage ==
    ASSUME IInv, NEW m \in MessageId
    PROVE  /\ messages \in Seq(Message) /\ Len(messages) = 1 /\ m = 1 /\ MessageId = {1}
           /\ tab.delivery # None /\ tab.delivery = tab.user
           /\ messages[1] \in Message /\ messages[1].user = tab.user
<1>1. messages \in Seq(Message) /\ m \in 1 .. Len(messages)
  BY DEF IInv, TypeOK, MessageId
<1>2. Len(messages) = 1 /\ tab.delivery # None
  BY <1>1 DEF IInv, MessagePerDelivery
<1>3. tab.delivery = tab.user
  BY <1>2 DEF IInv, Pending, Finished
<1>4. m = 1 /\ MessageId = {1} /\ messages[1] \in Message
  BY <1>1, <1>2 DEF MessageId
<1>. QED BY <1>1, <1>2, <1>3, <1>4 DEF IInv, MessagePerDelivery

LEMMA RequestsInv ==
    ASSUME IInv, NEW w \in Worker,
           \/ Login(w) \/ ResetEntry(w) \/ ResetAction(w) \/ RequiredAction(w) \/ ActionToken(w)
    PROVE  IInv'
<1>1. Open => Pending(tab)
  BY DEF Open, IInv, Finished
<1>2. Pending(tab) => Keeps(tab, tab)
  BY DEF Keeps
<1>. DEFINE Taken(a) == /\ req' = [req EXCEPT ![w] = a] /\ issued < MaxCommits
                        /\ UNCHANGED <<tab, life, messages, issued, uses, logins, changes>>
<1>3. CASE Login(w)
  <2>. DEFINE outcomes == Plain(tab) \cup
                UNION {Complete([tab EXCEPT !.completed = TRUE], u, FALSE) : u \in User}
  <2>1. Pending(tab) /\ Succeeded(tab) = {}
    BY <1>1, <1>3 DEF Login, LoginAnswers, Compute
  <2>2. \A o \in outcomes : Move(tab, o)
    BY <1>2, <2>1, PlainMoves, LoginMoves
  <2>3. PICK a \in Answers(tab.code, tab.generation, None, outcomes) : Taken(a)
    BY <1>3 DEF Login, LoginAnswers, Compute
  <2>. HIDE DEF outcomes
  <2>. QED BY <2>1, <2>2, <2>3, ComputeInv
<1>4. CASE ResetEntry(w)
  <2>. DEFINE outcomes == ProcessFlow(tab, ConsumedUsers(messages))
  <2>1. Pending(tab) /\ \E a \in Answers(0, tab.generation, None, outcomes) : Taken(a)
    BY <1>1, <1>4 DEF ResetEntry, EntryAnswers, Compute
  <2>2. \A o \in outcomes : Move(tab, o)
    BY <2>1, ProcessFlowMoves
  <2>. HIDE DEF outcomes
  <2>3. PICK a \in Answers(0, tab.generation, None, outcomes) : Taken(a)
    BY <2>1
  <2>. QED BY <2>1, <2>2, <2>3, ComputeInv
<1>5. CASE ResetAction(w)
  <2>. DEFINE outcomes == UNION {ProcessAction(tab, u, ConsumedUsers(messages))
                                   : u \in User \cup {None}}
  <2>1. Pending(tab) /\ \E a \in Answers(tab.code, tab.generation, None, outcomes) : Taken(a)
    BY <1>1, <1>5 DEF ResetAction, FormAnswers, Compute
  <2>2. \A o \in outcomes : Move(tab, o)
    BY <2>1, ProcessActionMoves
  <2>. HIDE DEF outcomes
  <2>3. PICK a \in Answers(tab.code, tab.generation, None, outcomes) : Taken(a)
    BY <2>1
  <2>. QED BY <2>1, <2>2, <2>3, ComputeInv
<1>6. CASE RequiredAction(w)
  <2>. DEFINE outcomes == Plain(tab) \cup Complete(PasswordReplaced(tab), tab.user, TRUE)
  <2>1. /\ Pending(tab) /\ tab.action
        /\ \E a \in Answers(tab.code, tab.generation, None, outcomes) : Taken(a)
    BY <1>1, <1>6 DEF RequiredAction, RequiredAnswers, Compute
  <2>2. \A o \in outcomes : Move(tab, o)
    BY <1>2, <2>1, PlainMoves, RequiredActionMoves
  <2>. HIDE DEF outcomes
  <2>3. PICK a \in Answers(tab.code, tab.generation, None, outcomes) : Taken(a)
    BY <2>1
  <2>. QED BY <2>1, <2>2, <2>3, ComputeInv
<1>7. CASE ActionToken(w)
  <2>. DEFINE outcomes == ProcessFlow(Resumed(tab), ConsumedUsers(messages) \cup {tab.user})
  <2>0. PICK a \in LinkAnswers : Taken(a)
    BY <1>7 DEF ActionToken, Compute
  <2>1. PICK m \in MessageId : a \in Answers(0, None, m, outcomes)
    BY <2>0 DEF LinkAnswers
  <2>2. m # None /\ tab.delivery # None
    BY OneMessage, NoneAssumption
  <2>3. \A o \in outcomes : Pending(tab) /\ Move(Resumed(tab), o)
    <3>1. CASE Pending(tab)
      BY <3>1, ResumedMoves
    <3>2. CASE Finished(tab)
      BY <2>2, <3>2, FinishedRefuses DEF Finished
    <3>. QED BY <3>1, <3>2 DEF IInv
  <2>. HIDE DEF outcomes
  <2>. QED BY <2>0, <2>1, <2>2, <2>3, ComputeInv
<1>. QED BY <1>3, <1>4, <1>5, <1>6, <1>7

-----------------------------------------------------------------------------
(* The commit.                                                              *)

\* Version and session code say nothing of the flow.
Stamp(r, n) == [r EXCEPT !.version = n, !.code = n]

LEMMA Stamped ==
    ASSUME NEW r \in Tab, NEW n \in Nat
    PROVE  LET s == Stamp(r, n) IN
           /\ Pending(r) => Pending(s)
           /\ Finished(r) => Finished(s)
           /\ s.version = n /\ s.code = n /\ s.generation = r.generation
           /\ s.user = r.user /\ s.delivery = r.delivery
<1>. DEFINE s == Stamp(r, n)
<1>1. /\ s \in Tab /\ Succeeded(s) = Succeeded(r)
      /\ s.version = n /\ s.code = n /\ s.generation = r.generation
      /\ s.user = r.user /\ s.delivery = r.delivery /\ s.execution = r.execution
      /\ s.action = r.action /\ s.completed = r.completed /\ s.required = r.required
      /\ s.current = r.current /\ s.selector = r.selector /\ s.scheduled = r.scheduled
  BY DEF Stamp, Tab, Succeeded
<1>2. Pending(r) => Pending(s)
  BY <1>1 DEF Pending, Eligible
<1>3. Finished(r) => Finished(s)
  BY <1>1 DEF Finished
<1>. QED BY <1>1, <1>2, <1>3

\* The row and the counters a commit leaves, in terms of what was promised.
LEMMA CommitEffect ==
    ASSUME IInv, NEW w \in Worker, Commit(w)
    PROVE  /\ Pending(tab) /\ Due(req[w])
           /\ tab'.version = issued + 1 /\ tab'.code = issued + 1 /\ issued' = issued + 1
           /\ IF req[w].outcome.login THEN Finished(tab') ELSE Pending(tab')
           /\ tab'.user = req[w].outcome.row.user /\ (tab.user # None => tab'.user = tab.user)
           /\ tab'.delivery = req[w].outcome.row.delivery
           /\ tab'.generation = tab.generation + IF req[w].message = None THEN 0 ELSE 1
<1>. DEFINE r == req[w].outcome.row  n == issued + 1
<1>1. Due(req[w]) /\ Pending(tab) /\ req[w].version = issued /\ n \in Nat
  BY DEF Commit, Fresh, IInv, RequestsDue, Due, Versions, TypeOK
<1>2. tab' = Stamp(r, n) /\ issued' = n
  BY <1>1 DEF Commit, Write, Stamp
<1>3. IF req[w].outcome.login THEN Finished(r) ELSE Pending(r)
  BY <1>1 DEF Due, Move
<1>4. /\ r \in Tab /\ (tab.user # None => r.user = tab.user)
      /\ r.generation = tab.generation + IF req[w].message = None THEN 0 ELSE 1
  <2>1. r \in Tab /\ tab \in Tab
    BY <1>1, <1>3 DEF Pending, Finished
  <2>2. CASE req[w].message = None
    BY <1>1, <2>1, <2>2 DEF Due, Move, Tab
  <2>3. CASE req[w].message # None
    <3>1. Move(Resumed(tab), req[w].outcome)
      BY <1>1, <2>3 DEF Due
    <3>2. Resumed(tab).generation = tab.generation + 1 /\ Resumed(tab).user = tab.user
      BY <2>1, ResumedEffect
    <3>. QED BY <2>1, <2>3, <3>1, <3>2 DEF Move
  <2>. QED BY <2>2, <2>3
<1>. HIDE DEF r, n
<1>5. /\ IF req[w].outcome.login THEN Finished(tab') ELSE Pending(tab')
      /\ tab'.version = n /\ tab'.code = n /\ tab'.generation = r.generation
      /\ tab'.user = r.user /\ tab'.delivery = r.delivery
  <2>1. /\ Pending(r) => Pending(tab')
        /\ Finished(r) => Finished(tab')
        /\ tab'.version = n /\ tab'.code = n /\ tab'.generation = r.generation
        /\ tab'.user = r.user /\ tab'.delivery = r.delivery
    BY <1>1, <1>2, <1>4, Stamped
  <2>. QED BY <1>3, <2>1
<1>. QED BY <1>1, <1>2, <1>4, <1>5 DEF r, n

\* With a message, it is the only one, and it is consumed; without, one may be added.
LEMMA CommitMessages ==
    ASSUME IInv, NEW w \in Worker, Commit(w)
    PROVE  messages' \in Seq(Message) /\ MessagePerDelivery' /\ BindingFollowsMessage'
<1>. DEFINE r == req[w]  o == req[w].outcome
<1>1. /\ Pending(tab) /\ Due(r) /\ tab'.user = o.row.user
      /\ (tab.user # None => tab'.user = tab.user) /\ tab'.delivery = o.row.delivery
      /\ tab'.generation = tab.generation + IF r.message = None THEN 0 ELSE 1
      /\ (Pending(tab') \/ Finished(tab'))
  BY CommitEffect
<1>2. messages \in Seq(Message) /\ tab \in Tab /\ tab.generation \in Nat
  BY <1>1 DEF IInv, TypeOK, Tab
<1>. DEFINE claimed == [m \in MessageId |-> [messages[m] EXCEPT !.consumed = @ \/ m = r.message]]
<1>3. messages' = IF o.send THEN Append(claimed, [user |-> o.row.user, consumed |-> FALSE,
                                                 linked |-> TRUE])
                  ELSE claimed
  BY DEF Commit, Write, NextMessages
<1>4. CASE r.message # None
  <2>1. r.message \in MessageId
    BY <1>1, <1>4 DEF Due
  <2>2. /\ Len(messages) = 1 /\ r.message = 1 /\ MessageId = {1}
        /\ tab.delivery # None /\ tab.delivery = tab.user
        /\ messages[1] \in Message /\ messages[1].user = tab.user
    BY <2>1, OneMessage
  <2>3. ~messages[1].consumed /\ tab.generation = 0
    <3>1. ~messages[1].consumed
      BY <1>4, <2>2 DEF Commit, Write, Claimable
    <3>2. {m \in MessageId : messages[m].consumed} = {}
      BY <2>2, <3>1
    <3>. QED BY <3>1, <3>2, FS_EmptySet DEF IInv, BindingFollowsMessage
  <2>4. ~o.send /\ tab'.delivery = tab.delivery /\ tab'.user = tab.user
    BY <1>1, <1>2, <1>4, <2>2, ResumedEffect DEF Due, Move
  <2>5. messages' = claimed /\ claimed[1] = [messages[1] EXCEPT !.consumed = TRUE]
    BY <1>3, <2>2, <2>4 DEF Message
  <2>6. claimed \in Seq(Message) /\ Len(claimed) = 1 /\ DOMAIN claimed = {1}
        /\ claimed[1].consumed /\ claimed[1].user = tab.user
    <3>1. claimed[1] \in Message /\ claimed[1].consumed /\ claimed[1].user = tab.user
      BY <2>2, <2>5 DEF Message
    <3>2. DOMAIN claimed = 1 .. 1 /\ claimed = [m \in 1 .. 1 |-> claimed[m]]
      BY <2>2
    <3>. HIDE DEF claimed
    <3>. QED BY <3>1, <3>2
  <2>7. MessagePerDelivery'
    BY <2>2, <2>4, <2>5, <2>6 DEF MessagePerDelivery, MessageId
  <2>8. BindingFollowsMessage'
    <3>1. {m \in MessageId' : messages'[m].consumed} = {1}
      BY <2>5, <2>6 DEF MessageId
    <3>. QED BY <1>1, <1>4, <2>3, <3>1, FS_Singleton DEF BindingFollowsMessage
  <2>. QED BY <2>5, <2>6, <2>7, <2>8
<1>5. CASE r.message = None
  <2>1. claimed = messages
    <3>1. \A m \in MessageId : messages[m] \in Message /\ m # None
      BY <1>2, NoneAssumption DEF MessageId
    <3>2. \A m \in MessageId : claimed[m] = messages[m]
      BY <1>5, <3>1 DEF Message
    <3>. QED BY <1>2, <3>2 DEF MessageId
  <2>2. tab'.generation = tab.generation
    BY <1>1, <1>2, <1>5
  <2>3. CASE ~o.send
    <3>1. messages' = messages /\ tab'.delivery = tab.delivery
      BY <1>1, <1>3, <1>5, <2>1, <2>3 DEF Due, Move
    <3>2. MessagePerDelivery'
      BY <1>1, <3>1, OneMessage DEF IInv, MessagePerDelivery, MessageId
    <3>. QED BY <1>2, <2>2, <3>1, <3>2 DEF IInv, BindingFollowsMessage, MessageId
  <2>4. CASE o.send
    <3>1. tab.delivery = None /\ tab'.delivery # None
      BY <1>1, <1>5, <2>4 DEF Due, Move
    <3>2. tab'.user = tab'.delivery /\ tab'.user \in User
      BY <1>1, <3>1 DEF Pending, Finished, Tab
    <3>3. messages = <<>>
      BY <1>2, <3>1 DEF IInv, MessagePerDelivery
    <3>4. messages' = <<[user |-> tab'.user, consumed |-> FALSE, linked |-> TRUE]>>
      <4>1. messages' = Append(<<>>, [user |-> o.row.user, consumed |-> FALSE, linked |-> TRUE])
        BY <1>3, <2>1, <2>4, <3>3
      <4>. QED BY <1>1, <4>1
    <3>5. MessageId' = {1} /\ Len(messages') = 1 /\ messages' \in Seq(Message)
      BY <3>2, <3>4 DEF MessageId, Message
    <3>6. {m \in MessageId' : messages'[m].consumed} = {} /\ MessageId = {}
      BY <3>3, <3>4, <3>5 DEF MessageId
    <3>7. BindingFollowsMessage'
      BY <2>2, <3>6, FS_EmptySet DEF IInv, BindingFollowsMessage
    <3>. QED BY <3>1, <3>4, <3>5, <3>7 DEF MessagePerDelivery
  <2>. QED BY <1>1, <1>5, <2>3, <2>4 DEF Due, Move
<1>. QED BY <1>4, <1>5

LEMMA CommitInv ==
    ASSUME IInv, NEW w \in Worker, Commit(w)
    PROVE  IInv'
<1>. DEFINE r == req[w]
<1>1. /\ Pending(tab) /\ Due(r)
      /\ tab'.version = issued + 1 /\ tab'.code = issued + 1 /\ issued' = issued + 1
      /\ IF r.outcome.login THEN Finished(tab') ELSE Pending(tab')
  BY CommitEffect
<1>2. messages' \in Seq(Message) /\ MessagePerDelivery' /\ BindingFollowsMessage'
  BY CommitMessages
<1>3. /\ issued \in Nat /\ logins \in Nat /\ changes \in Nat /\ uses \in [Code -> Nat]
      /\ life' = life
  BY DEF IInv, TypeOK, Commit, Write
<1>4. /\ r.outcome.login \in BOOLEAN /\ r.outcome.change \in BOOLEAN
      /\ (r.outcome.change => r.outcome.login)
  BY <1>1 DEF Due, Move
<1>5. /\ logins' = logins + IF r.outcome.login THEN 1 ELSE 0
      /\ changes' = changes + IF r.outcome.change THEN 1 ELSE 0
      /\ req' = [req EXCEPT ![w] = Idle]
      /\ uses' = IF r.code = 0 THEN uses ELSE [uses EXCEPT ![r.code] = @ + 1]
  BY DEF Commit, Write
<1>. HIDE DEF r
<1>6. TypeOK' /\ (Pending(tab) \/ Finished(tab))'
  <2>1. tab' \in Tab
    BY <1>1 DEF Pending, Finished
  <2>2. logins' \in Nat /\ changes' \in Nat
    BY <1>3, <1>4, <1>5
  <2>3. uses' \in [Code -> Nat]
    <3>1. CASE r.code = 0
      BY <1>3, <1>5, <3>1
    <3>2. CASE r.code # 0
      <4>1. r.code \in Code /\ uses[r.code] + 1 \in Nat
        BY <1>1, <1>3 DEF Due
      <4>. QED BY <1>3, <1>5, <3>2, <4>1
    <3>. QED BY <3>1, <3>2
  <2>. QED BY <1>1, <1>2, <1>3, <2>1, <2>2, <2>3 DEF IInv, TypeOK
<1>7. /\ req'[w] = Idle /\ \A v \in Worker \ {w} : req'[v] = req[v]
      /\ req' = [v \in Worker |-> req'[v]]
  BY <1>5 DEF IInv, RequestsDue
<1>8. Versions'
  BY <1>1, <1>3, <1>7 DEF IInv, Versions, Idle
<1>9. CodesSpent'
  <2>1. issued \in Nat /\ issued' = issued + 1 /\ tab.code = issued
    BY <1>1, <1>3 DEF IInv, Versions
  <2>2. CASE r.code = 0
    BY <1>3, <1>5, <2>1, <2>2 DEF IInv, CodesSpent, Code
  <2>3. CASE r.code # 0
    <3>1. r.code = issued /\ r.code \in Code /\ uses' = [uses EXCEPT ![r.code] = @ + 1]
      BY <1>1, <1>5, <2>1, <2>3 DEF Due
    <3>. QED BY <1>3, <2>1, <3>1 DEF IInv, CodesSpent, Code
  <2>. QED BY <2>2, <2>3
<1>10. RequestsDue'
  <2>1. \A v \in Worker : req'[v].pc = "commit" => req'[v].version # tab'.version
    BY <1>1, <1>3, <1>7 DEF IInv, Versions, Idle
  <2>2. \A v \in Worker : req'[v].pc \in {"idle", "commit"}
    BY <1>7 DEF IInv, RequestsDue, Idle
  <2>. QED BY <1>7, <2>1, <2>2 DEF RequestsDue
<1>11. CompletesOnce'
  <2>1. logins = 0 /\ changes = 0
    BY <1>1, <1>3 DEF IInv, CompletesOnce, Pending
  <2>2. CASE r.outcome.login
    BY <1>1, <1>4, <1>5, <2>1, <2>2 DEF CompletesOnce, Finished
  <2>3. CASE ~r.outcome.login
    BY <1>1, <1>4, <1>5, <2>1, <2>3 DEF CompletesOnce, Pending
  <2>. QED BY <2>2, <2>3
<1>. QED BY <1>2, <1>6, <1>8, <1>9, <1>10, <1>11 DEF IInv

\* A request that gives up, and a tab that expires.
LEMMA QuietInv ==
    ASSUME IInv, (\E w \in Worker : Rollback(w)) \/ Expire \/ UNCHANGED vars
    PROVE  IInv'
<1>1. UNCHANGED <<tab, messages, issued, uses, logins, changes>>
  BY DEF Rollback, Expire, vars
<1>2. TypeOK'
  BY <1>1 DEF IInv, TypeOK, Rollback, Expire, vars
<1>3. req' = [v \in Worker |-> req'[v]] /\ \A v \in Worker : req'[v] \in {req[v], Idle}
  BY DEF Rollback, Expire, vars, IInv, RequestsDue
<1>4. Versions'
  BY <1>1, <1>3 DEF IInv, Versions, TypeOK, Idle
<1>5. RequestsDue'
  BY <1>1, <1>3 DEF IInv, RequestsDue, Due, MessageId, Idle
<1>. QED BY <1>1, <1>2, <1>4, <1>5 DEF IInv, CodesSpent, CompletesOnce, MessagePerDelivery,
                                        BindingFollowsMessage, MessageId

\* Cleanup cuts the messages loose and leaves everything else of them.
LEMMA CleanInv ==
    ASSUME IInv, Clean
    PROVE  IInv'
<1>1. /\ UNCHANGED <<tab, req, issued, uses, logins, changes>> /\ life' = "deleted"
      /\ messages' = [m \in MessageId |-> [messages[m] EXCEPT !.linked = FALSE]]
  BY DEF Clean
<1>2. messages \in Seq(Message)
  BY DEF IInv, TypeOK
<1>3. /\ messages' \in Seq(Message) /\ MessageId' = MessageId /\ Len(messages') = Len(messages)
      /\ \A m \in MessageId : /\ messages'[m].user = messages[m].user
                              /\ messages'[m].consumed = messages[m].consumed
  <2>1. \A m \in 1 .. Len(messages) : messages[m] \in Message
    BY <1>2
  <2>2. \A m \in 1 .. Len(messages) :
           /\ messages'[m] \in Message /\ messages'[m].user = messages[m].user
           /\ messages'[m].consumed = messages[m].consumed
    <3>1. SUFFICES ASSUME NEW m \in 1 .. Len(messages)
                   PROVE  /\ messages'[m] \in Message
                          /\ messages'[m].user = messages[m].user
                          /\ messages'[m].consumed = messages[m].consumed
      OBVIOUS
    <3>2. MessageId = 1 .. Len(messages)
      BY <1>2 DEF MessageId
    <3>3. messages'[m] = [messages[m] EXCEPT !.linked = FALSE]
      BY <1>1, <3>2, Zenon
    <3>4. messages[m] \in Message
      BY <2>1
    <3>. QED BY <3>3, <3>4 DEF Message
  <2>3. messages' = [m \in 1 .. Len(messages) |-> messages'[m]]
    BY <1>1, <1>2 DEF MessageId
  <2>. QED BY <1>2, <2>2, <2>3 DEF MessageId
<1>4. MessagePerDelivery'
  BY <1>1, <1>3 DEF IInv, MessagePerDelivery
<1>5. BindingFollowsMessage'
  <2>1. {m \in MessageId' : messages'[m].consumed} = {m \in MessageId : messages[m].consumed}
    BY <1>3
  <2>. QED BY <1>1, <2>1 DEF IInv, BindingFollowsMessage
<1>. QED BY <1>1, <1>3, <1>4, <1>5 DEF IInv, TypeOK, Versions, CodesSpent, RequestsDue, Due,
                                        CompletesOnce

LEMMA NextInv == IInv /\ [Next]_vars => IInv'
BY RequestsInv, CommitInv, QuietInv, CleanInv DEF Next

-----------------------------------------------------------------------------
(* The theorems.                                                            *)

\* Between requests the tab is in progress or finished, and every request in
\* flight either will do what the flow allows or has been overtaken.
THEOREM Invariance == Spec => []IInv
BY InitInv, NextInv, PTL DEF Spec

\* The row, the messages and the counters stay well formed.
THEOREM TypeCorrect == Spec => []TypeOK
<1>1. IInv => TypeOK
  BY DEF IInv
<1>. QED BY <1>1, Invariance, PTL

\* SessionCodeChecks with the version column: one commit per session code.
THEOREM CodesAreSingleUse == Spec => []CodeAcceptedOnce
<1>1. IInv => CodeAcceptedOnce
  BY DEF IInv, CodesSpent, CodeAcceptedOnce, TypeOK
<1>. QED BY <1>1, Invariance, PTL

\* complete_authentication: one login, and one password at most, per tab.
THEOREM TabCompletesOnce == Spec => []CompletesOnce
<1>1. IInv => CompletesOnce
  BY DEF IInv
<1>. QED BY <1>1, Invariance, PTL

\* The flow engine: no order of forms, selector answers and links reaches the
\* password form before every execution has succeeded.
THEOREM FlowBeforePassword == Spec => []PasswordFormAfterFlow
<1>1. IInv => PasswordFormAfterFlow
  <2>1. ASSUME Pending(tab) PROVE PasswordFormAfterFlow
    BY <2>1 DEF Pending, PasswordFormAfterFlow, Execution
  <2>2. ASSUME Finished(tab) PROVE PasswordFormAfterFlow
    BY <2>2 DEF Finished, PasswordFormAfterFlow
  <2>. QED BY <2>1, <2>2 DEF IInv
<1>. QED BY <1>1, Invariance, PTL

\* ResetCredentialEmail: one message per delivery, for the selected account.
THEOREM OneMessagePerDelivery == Spec => []MessagePerDelivery
<1>1. IInv => MessagePerDelivery
  BY DEF IInv
<1>. QED BY <1>1, Invariance, PTL

\* The action token handler: the binding moves as often as messages are consumed.
THEOREM BindingWithMessage == Spec => []BindingFollowsMessage
<1>1. IInv => BindingFollowsMessage
  BY DEF IInv
<1>. QED BY <1>1, Invariance, PTL

\* A browser that has lost the tab commits nothing more.
THEOREM LostBindingIsRefused == Spec => BindingChecked
<1>1. IInv /\ [Next]_vars => BindingStep
  <2>. SUFFICES ASSUME IInv, [Next]_vars, NEW w \in Worker,
                       req[w].pc = "commit", req'[w].pc = "idle", tab' # tab
                PROVE  req[w].generation \in {None, tab.generation}
    BY DEF BindingStep
  <2>1. PICK v \in Worker : Commit(v)
    BY DEF Next, vars, Login, ResetEntry, ResetAction, RequiredAction, ActionToken, Compute,
           Rollback, Expire, Clean
  <2>2. v = w
    BY <2>1 DEF Commit, IInv, RequestsDue
  <2>. QED BY <2>1, <2>2, CommitEffect DEF Due
<1>. QED BY <1>1, Invariance, PTL DEF Spec, BindingChecked

-----------------------------------------------------------------------------
(* One request at a time.                                                   *)

\* What a request in flight will write, if it still may, is what its handler
\* would answer now.
StillAnswers ==
    \A w \in Worker :
        req[w].pc = "commit" /\ req[w].version = tab.version /\ life # "deleted"
            => req[w] \in AnswersNow

LEMMA AnswersFrame ==
    ASSUME UNCHANGED <<tab, messages>>
    PROVE  AnswersNow' = AnswersNow
BY DEF AnswersNow, LoginAnswers, EntryAnswers, FormAnswers, RequiredAnswers, LinkAnswers, Answers,
       Open, MessageId

\* A request that is being served is served by one of the handlers.
LEMMA ComputeAnswers ==
    ASSUME IInv, NEW w \in Worker,
           \/ Login(w) \/ ResetEntry(w) \/ ResetAction(w) \/ RequiredAction(w) \/ ActionToken(w)
    PROVE  /\ UNCHANGED visible
           /\ req' = [req EXCEPT ![w] = req'[w]] /\ req'[w] \in AnswersNow
<1>1. PICK answers \in {LoginAnswers, EntryAnswers, FormAnswers, RequiredAnswers, LinkAnswers} :
        Compute(w, answers)
  BY DEF Login, ResetEntry, ResetAction, RequiredAction, ActionToken
<1>2. answers \subseteq AnswersNow
  BY DEF AnswersNow
<1>3. PICK a \in answers : req' = [req EXCEPT ![w] = a]
  BY <1>1 DEF Compute
<1>4. req'[w] = a
  BY <1>3 DEF IInv, RequestsDue
<1>. QED BY <1>1, <1>2, <1>3, <1>4 DEF Compute, visible

\* Whatever changes what the handlers answer overtakes the requests in flight.
LEMMA NextStillAnswers == IInv /\ StillAnswers /\ [Next]_vars => StillAnswers'
<1>. SUFFICES ASSUME IInv, StillAnswers, [Next]_vars PROVE StillAnswers'
  OBVIOUS
<1>1. ASSUME UNCHANGED <<tab, messages>>, life = "deleted" => life' = "deleted",
             \A v \in Worker : req'[v] = req[v] \/ req'[v].pc = "idle" \/ req'[v] \in AnswersNow
      PROVE  StillAnswers'
  BY <1>1, AnswersFrame DEF StillAnswers
<1>2. ASSUME NEW w \in Worker,
             \/ Login(w) \/ ResetEntry(w) \/ ResetAction(w) \/ RequiredAction(w) \/ ActionToken(w)
      PROVE  StillAnswers'
  <2>1. /\ UNCHANGED visible
        /\ req' = [req EXCEPT ![w] = req'[w]] /\ req'[w] \in AnswersNow
    BY <1>2, ComputeAnswers
  <2>2. \A v \in Worker \ {w} : req'[v] = req[v]
    BY <2>1 DEF IInv, RequestsDue
  <2>. QED BY <1>1, <2>1, <2>2 DEF visible
<1>3. ASSUME NEW w \in Worker, Commit(w)
      PROVE  StillAnswers'
  <2>1. tab'.version = issued + 1 /\ issued \in Nat
    BY <1>3, CommitEffect DEF IInv, TypeOK
  <2>2. \A v \in Worker : req'[v] \in {req[v], Idle}
    BY <1>3 DEF Commit, IInv, RequestsDue
  <2>3. \A v \in Worker : req'[v].pc = "commit" => req'[v].version \in 0 .. issued
    BY <2>2 DEF IInv, Versions, Idle
  <2>. QED BY <2>1, <2>3 DEF StillAnswers
<1>4. ASSUME (\E w \in Worker : Rollback(w)) \/ Expire \/ UNCHANGED vars
      PROVE  StillAnswers'
  <2>1. /\ UNCHANGED <<tab, messages>> /\ (life = "deleted" => life' = "deleted")
        /\ \A v \in Worker : req'[v] \in {req[v], Idle}
    BY <1>4 DEF Rollback, Expire, vars, IInv, RequestsDue
  <2>. QED BY <1>1, <2>1 DEF Idle
<1>5. CASE Clean
  BY <1>5 DEF Clean, StillAnswers
<1>. QED BY <1>2, <1>3, <1>4, <1>5 DEF Next

\* The version column: however requests on one tab overlap, what they leave is what
\* they leave when they are served one after the other.
THEOREM TabIsServedOneByOne == Spec => ServedOneByOne
<1>1. Init => StillAnswers
  BY DEF Init, StillAnswers, Idle
<1>2. IInv /\ StillAnswers /\ [Next]_vars => [Serve \/ Expire \/ Clean]_visible
  <2>. SUFFICES ASSUME IInv, StillAnswers, [Next]_vars
                PROVE  Serve \/ Expire \/ Clean \/ UNCHANGED visible
    OBVIOUS
  <2>1. ASSUME NEW w \in Worker, Commit(w) PROVE Serve
    <3>1. req[w] \in AnswersNow /\ life # "deleted" /\ Write(req[w])
      BY <2>1 DEF Commit, Fresh, StillAnswers
    <3>. QED BY <3>1 DEF Serve
  <2>2. ASSUME NEW w \in Worker,
               \/ Login(w) \/ ResetEntry(w) \/ ResetAction(w) \/ RequiredAction(w) \/ ActionToken(w)
        PROVE  UNCHANGED visible
    BY <2>2, ComputeAnswers
  <2>3. ASSUME (\E w \in Worker : Rollback(w)) \/ UNCHANGED vars PROVE UNCHANGED visible
    BY <2>3 DEF Rollback, vars, visible
  <2>. QED BY <2>1, <2>2, <2>3 DEF Next
<1>3. Spec => []StillAnswers
  BY <1>1, NextStillAnswers, Invariance, PTL DEF Spec
<1>. QED BY <1>2, <1>3, Invariance, PTL DEF Spec, ServedOneByOne
=============================================================================
