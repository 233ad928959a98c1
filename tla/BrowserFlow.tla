------------------------------ MODULE BrowserFlow ------------------------------
(***************************************************************************)
(* One login transaction of a browser, an authentication session ("tab"),  *)
(* from the login page to the authorization code: password login, the      *)
(* reset-credentials flow, the mailed action token and the required        *)
(* password update, served by concurrent requests.                         *)
(*                                                                         *)
(* A request loads the tab once (the ORM keeps what it has loaded),        *)
(* computes the new row and writes it at its commit, if the version is     *)
(* still the one it loaded.  Other rows it writes commit with it.          *)
(***************************************************************************)
EXTENDS Naturals, FiniteSets, Sequences

CONSTANTS
    Worker,     \* request handlers
    User,       \* users of the realm, enabled ones
    None,       \* no value
    MaxCommits  \* bound: commits that write the tab

ASSUME NoneAssumption == None \notin User \cup Nat
ASSUME MaxCommitsAssumption == MaxCommits \in Nat

VARIABLES
    tab,       \* the row of authentication_sessions
    life,      \* whether it is live, past expires_at, or deleted by cleanup
    messages,  \* rows of reset_emails for this tab
    req,       \* the transaction each worker runs
    issued,    \* number of session codes handed out so far
    uses,      \* history: commits that accepted each session code
    logins,    \* user sessions (and codes, and LOGIN events) created from the tab
    changes    \* passwords replaced from the tab

vars == <<tab, life, messages, req, issued, uses, logins, changes>>

-----------------------------------------------------------------------------
\* The executions of the built-in reset flow, in the order of their priority.
Execution == {"choose", "email", "password"}
FlowStatus == {"none", "SUCCESS", "CHALLENGE", "FORK"}

Code == 0 .. MaxCommits   \* session codes in the order they were issued; 0: none presented

\* `current`, `selector`, `completed`, `proof` and `delivery` are the notes
\* current.authentication.execution, auth.selector.screen.rendered,
\* authentication.flow.completed, action.token.user.id and reset.email.delivery.
\* UPDATE_PASSWORD is the only required action: `required` says it is pending,
\* `action` that it is the current one, `scheduled` that it may be carried out
\* (password_update_allowed, or a note with the same life in the other mode).
Tab == [version : Nat, code : Nat, generation : Nat,
        execution : Execution \cup {"authenticated"},
        status : [Execution -> FlowStatus],
        current : Execution \cup {None}, selector : BOOLEAN, completed : BOOLEAN,
        user : User \cup {None}, proof : User \cup {None}, delivery : User \cup {None},
        required : BOOLEAN, action : BOOLEAN, scheduled : BOOLEAN]

Message == [user : User, consumed : BOOLEAN, linked : BOOLEAN]

\* What a handler makes of the tab: the row without version and code, and the
\* other writes of the transaction.
Outcome(t, send, login, change) == [row |-> t, send |-> send, login |-> login, change |-> change]
Refused == {}                      \* an exception or abort: rolled back
Plain(t) == {Outcome(t, FALSE, FALSE, FALSE)}

Succeeded(t) == {e \in Execution : t.status[e] = "SUCCESS"}

-----------------------------------------------------------------------------
(* complete_authentication, through AuthorizationService.issue.             *)

\* Mutant: a tab that is already authenticated is accepted.
Complete_Again(t, u, change) ==
    IF ~t.required /\ t.completed /\ t.user \in {None, u}
    THEN {Outcome([t EXCEPT !.user = u, !.execution = "authenticated",
                            !.completed = FALSE, !.current = None, !.selector = FALSE],
                  FALSE, TRUE, change)}
    ELSE Refused

Complete(t, u, change) ==
    IF ~t.required /\ t.completed /\ t.execution # "authenticated" /\ t.user \in {None, u}
    THEN {Outcome([t EXCEPT !.user = u, !.execution = "authenticated",
                            !.completed = FALSE, !.current = None, !.selector = FALSE],
                  FALSE, TRUE, change)}
    ELSE Refused

\* UpdatePassword._eligible
Eligible(t) == t.user # None /\ t.required /\ t.scheduled

\* _flow_response of a complete flow: the required action first.  A challenge
\* that is not eligible is an error page, which aborts.
FlowResponse(t) ==
    IF t.required
    THEN IF Eligible(t) THEN Plain([t EXCEPT !.action = TRUE]) ELSE Refused
    ELSE IF t.user = None THEN Refused ELSE Complete(t, t.user, FALSE)

-----------------------------------------------------------------------------
(* DefaultAuthenticationFlow and the three authenticators.                  *)

\* process_result
ProcessResult(t, e, s) ==
    [t EXCEPT !.execution = e, !.status[e] = s, !.current = e, !.completed = FALSE]

\* on_flow_executions_successful
FlowSuccessful(t) ==
    FlowResponse([t EXCEPT !.completed = TRUE, !.current = None, !.selector = FALSE])

\* ResetPassword schedules the update; without a user it fails, and the failure
\* aborts the transaction.
ResetPassword(t) ==
    IF t.user = None THEN {}
    ELSE {ProcessResult([t EXCEPT !.required = TRUE, !.scheduled = TRUE], "password", "SUCCESS")}

\* email_proof.validated_user; `consumed` holds the users whose message this
\* transaction sees consumed.
Validated(t, consumed) == t.user # None /\ t.proof = t.user /\ t.user \in consumed

\* Mutant: the delivery is not looked up.
EmailFork_Resend(t) ==
    {Outcome(ProcessResult([t EXCEPT !.delivery = t.user], "email", "FORK"),
             t.user # None, FALSE, FALSE)}

\* A message is issued and mailed once per delivery, to a user with an address.
EmailFork(t) ==
    {Outcome(ProcessResult(t, "email", "FORK"), FALSE, FALSE, FALSE)} \cup
    IF t.user # None /\ t.delivery # t.user
    THEN {Outcome(ProcessResult([t EXCEPT !.delivery = t.user], "email", "FORK"),
                  TRUE, FALSE, FALSE)}
    ELSE {}

\* _traverse, from each execution on: one that has succeeded is skipped.
TraversePassword(t) ==
    IF "password" \in Succeeded(t) THEN FlowSuccessful(t)
    ELSE UNION {FlowSuccessful(r) : r \in ResetPassword(t)}

TraverseEmail(t, consumed) ==
    IF "email" \in Succeeded(t) THEN TraversePassword(t)
    ELSE IF Validated(t, consumed) THEN TraversePassword(ProcessResult(t, "email", "SUCCESS"))
    ELSE EmailFork(t)

Traverse(t, consumed) ==
    IF "choose" \in Succeeded(t) THEN TraverseEmail(t, consumed)
    ELSE Plain(ProcessResult(t, "choose", "CHALLENGE"))

\* process_flow: the selector stays until it is answered.
ProcessFlow(t, consumed) ==
    IF t.selector /\ t.current # None THEN Plain(t) ELSE Traverse(t, consumed)

\* Mutant: success out of turn ends the flow.
Authenticate_NoTraverse(t, e, consumed) ==
    CASE e \in Succeeded(t) -> Traverse(t, consumed)
      [] e = "choose" /\ e \notin Succeeded(t) -> Plain(ProcessResult(t, e, "CHALLENGE"))
      [] e = "email" /\ e \notin Succeeded(t) ->
            IF Validated(t, consumed) THEN Traverse(ProcessResult(t, e, "SUCCESS"), consumed)
                                      ELSE EmailFork(t)
      [] e = "password" /\ e \notin Succeeded(t) ->
            UNION {FlowSuccessful(r) : r \in ResetPassword(t)}

\* Authenticating one execution out of turn, from the selector.
Authenticate(t, e, consumed) ==
    CASE e \in Succeeded(t) -> Traverse(t, consumed)
      [] e = "choose" /\ e \notin Succeeded(t) -> Plain(ProcessResult(t, e, "CHALLENGE"))
      [] e = "email" /\ e \notin Succeeded(t) ->
            IF Validated(t, consumed) THEN Traverse(ProcessResult(t, e, "SUCCESS"), consumed)
                                      ELSE EmailFork(t)
      [] e = "password" /\ e \notin Succeeded(t) ->
            UNION {Traverse(r, consumed) : r \in ResetPassword(t)}

\* The form of the current execution, which must not have succeeded; the account
\* form names a user `u`, or nobody.
Action(t, e, u, consumed) ==
    CASE e \in Succeeded(t) -> Refused
      [] e = "choose" /\ e \notin Succeeded(t) ->
            Traverse(ProcessResult([t EXCEPT !.user = u, !.scheduled = FALSE,
                                             !.proof = None, !.delivery = None], e, "SUCCESS"),
                     consumed)
      [] e = "email" /\ e \notin Succeeded(t) ->
            IF t.user = None THEN Refused ELSE Traverse(ProcessResult(t, e, "SUCCESS"), consumed)
      [] e = "password" /\ e \notin Succeeded(t) ->
            UNION {Traverse(r, consumed) : r \in ResetPassword(t)}

\* process_action: answering the selector, asking for it, or the form.
ProcessAction(t, u, consumed) ==
    IF t.current = None THEN Refused
    ELSE Plain([t EXCEPT !.execution = t.current, !.selector = TRUE])
         \cup Action(t, t.current, u, consumed)
         \cup IF t.selector
              THEN UNION {Authenticate([t EXCEPT !.selector = FALSE], e, consumed) : e \in Execution}
              ELSE {}

-----------------------------------------------------------------------------
(* Requests.                                                                *)

NoOutcome == Outcome(None, FALSE, FALSE, FALSE)

\* `version` is the one loaded, `code` the session code presented (0: none is
\* needed), `generation` the browser binding presented (None: not needed),
\* `message` the reset message to be consumed.
Idle == [pc |-> "idle", version |-> 0, code |-> 0, generation |-> None,
         message |-> None, outcome |-> NoOutcome]

\* Messages are numbered in the order of their creation.
MessageId == DOMAIN messages

ConsumedUsers(ms) == {ms[m].user : m \in {i \in DOMAIN ms : ms[i].consumed /\ ms[i].linked}}

\* The row as it is once a browser has received the login page.
NewTab ==
    [version |-> 1, code |-> 1, generation |-> 0,
     execution |-> "choose", status |-> [e \in Execution |-> "none"],
     current |-> None, selector |-> FALSE, completed |-> FALSE,
     user |-> None, proof |-> None, delivery |-> None,
     required |-> FALSE, action |-> FALSE, scheduled |-> FALSE]

Init ==
    /\ tab = NewTab
    /\ life = "live"
    /\ messages = <<>>
    /\ req = [w \in Worker |-> Idle]
    /\ issued = 1
    /\ uses = [c \in Code |-> 0]
    /\ logins = 0
    /\ changes = 0

\* What a handler that loads the tab now makes of the request, down to the commit.
Answers(code, generation, message, outcomes) ==
    {[pc |-> "commit", version |-> tab.version, code |-> code, generation |-> generation,
      message |-> message, outcome |-> o] : o \in outcomes}

Compute(w, answers) ==
    /\ req[w].pc = "idle"
    /\ life = "live"
    /\ issued < MaxCommits
    /\ \E a \in answers : req' = [req EXCEPT ![w] = a]
    /\ UNCHANGED <<tab, life, messages, issued, uses, logins, changes>>

\* SessionCodeChecks.validate: not for a tab that has been authenticated.
Open == tab.execution # "authenticated"

\* LoginActionsService.authenticate: a wrong password only changes the session
\* code; a right one completes the tab.
LoginAnswers ==
    IF Open /\ Succeeded(tab) = {}
    THEN Answers(tab.code, tab.generation, None,
           Plain(tab) \cup UNION {Complete([tab EXCEPT !.completed = TRUE], u, FALSE) : u \in User})
    ELSE {}

\* reset_credentials, GET: the browser binding suffices.
EntryAnswers ==
    IF Open
    THEN Answers(0, tab.generation, None, ProcessFlow(tab, ConsumedUsers(messages)))
    ELSE {}

\* reset_credentials, POST.
FormAnswers ==
    IF Open
    THEN Answers(tab.code, tab.generation, None,
           UNION {ProcessAction(tab, u, ConsumedUsers(messages)) : u \in User \cup {None}})
    ELSE {}

\* UpdatePassword.action and the end of the required action.
PasswordReplaced(t) ==
    [t EXCEPT !.scheduled = FALSE, !.proof = None, !.required = FALSE, !.action = FALSE]

\* required_action: UpdatePassword.action replaces the password and the tab is
\* completed in the same transaction, or the form comes back.
RequiredAnswers ==
    IF Open /\ tab.action /\ tab.required /\ Eligible(tab)
    THEN Answers(tab.code, tab.generation, None,
           Plain(tab) \cup Complete(PasswordReplaced(tab), tab.user, TRUE))
    ELSE {}

\* ResetCredentialsActionTokenHandler: the user is the one already selected.
Resumed(t) == [t EXCEPT !.proof = t.user, !.selector = FALSE, !.generation = @ + 1]

\* action_token: no code and no binding, the message is the proof.  The tab moves
\* to the browser that opened the link.
LinkAnswers ==
    UNION {Answers(0, None, m, ProcessFlow(Resumed(tab), ConsumedUsers(messages) \cup {tab.user})) :
             m \in {i \in MessageId : /\ ~messages[i].consumed /\ messages[i].linked
                                      /\ tab.user = messages[i].user}}

Login(w)          == Compute(w, LoginAnswers)
ResetEntry(w)     == Compute(w, EntryAnswers)
ResetAction(w)    == Compute(w, FormAnswers)
RequiredAction(w) == Compute(w, RequiredAnswers)
ActionToken(w)    == Compute(w, LinkAnswers)

-----------------------------------------------------------------------------
(* Commits.                                                                 *)

\* Mutant: the mapper has no version column.
Fresh_NoVersion(w) == life # "deleted"

\* The UPDATE of the tab finds the version that was loaded.
Fresh(w) == life # "deleted" /\ tab.version = req[w].version

\* consume_reset_email: the UPDATE finds the message still unconsumed and linked.
Claimable(r) ==
    r.message # None => ~messages[r.message].consumed /\ messages[r.message].linked

NextMessages(r) ==
    LET o == r.outcome
        claimed == [m \in MessageId |-> [messages[m] EXCEPT !.consumed = @ \/ m = r.message]]
    IN  IF o.send
        THEN Append(claimed, [user |-> o.row.user, consumed |-> FALSE, linked |-> TRUE])
        ELSE claimed

\* The tab, the message and whatever else the request writes, together.
Write(r) ==
    /\ Claimable(r)
    /\ tab' = [r.outcome.row EXCEPT !.version = r.version + 1, !.code = issued + 1]
    /\ messages' = NextMessages(r)
    /\ issued' = issued + 1
    /\ uses' = IF r.code = 0 THEN uses ELSE [uses EXCEPT ![r.code] = @ + 1]
    /\ logins' = logins + IF r.outcome.login THEN 1 ELSE 0
    /\ changes' = changes + IF r.outcome.change THEN 1 ELSE 0
    /\ UNCHANGED life

Commit(w) ==
    /\ req[w].pc = "commit"
    /\ Fresh(w)
    /\ Write(req[w])
    /\ req' = [req EXCEPT ![w] = Idle]

\* Mutant: the message is consumed in a transaction of its own.
Rollback_KeepsClaim(w) ==
    /\ req[w].pc = "commit"
    /\ req' = [req EXCEPT ![w] = Idle]
    /\ messages' = [m \in MessageId |->
                      [messages[m] EXCEPT !.consumed = @ \/ m = req[w].message]]
    /\ UNCHANGED <<tab, life, issued, uses, logins, changes>>

\* StaleDataError, a message that is taken, a killed worker: everything is
\* rolled back.
Rollback(w) ==
    /\ req[w].pc = "commit"
    /\ req' = [req EXCEPT ![w] = Idle]
    /\ UNCHANGED <<tab, life, messages, issued, uses, logins, changes>>

\* expires_at passes.
Expire ==
    /\ life = "live"
    /\ life' = "expired"
    /\ UNCHANGED <<tab, messages, req, issued, uses, logins, changes>>

\* cleanup_expired: the messages are unlinked, the tab is deleted.
Clean ==
    /\ life = "expired"
    /\ life' = "deleted"
    /\ messages' = [m \in MessageId |-> [messages[m] EXCEPT !.linked = FALSE]]
    /\ UNCHANGED <<tab, req, issued, uses, logins, changes>>

Next ==
    \/ \E w \in Worker :
         \/ Login(w) \/ ResetEntry(w) \/ ResetAction(w)
         \/ RequiredAction(w) \/ ActionToken(w)
         \/ Commit(w) \/ Rollback(w)
    \/ Expire \/ Clean

Spec == Init /\ [][Next]_vars

-----------------------------------------------------------------------------
(* Properties.                                                              *)

\* The row, the messages and the counters are well formed.
TypeOK ==
    /\ tab \in Tab
    /\ life \in {"live", "expired", "deleted"}
    /\ messages \in Seq(Message)
    /\ issued \in Nat /\ logins \in Nat /\ changes \in Nat
    /\ uses \in [Code -> Nat]

\* A session code is accepted by one commit: of the requests that validated the
\* same code before any of them wrote, all but one fail.
CodeAcceptedOnce == \A c \in Code : uses[c] <= 1

\* A tab yields one user session, exactly when it is authenticated, and at most
\* one password, replaced together with that.
CompletesOnce ==
    /\ logins = IF tab.execution = "authenticated" THEN 1 ELSE 0
    /\ changes <= logins

\* The update-password form is current only after every execution has succeeded,
\* and then the flow is complete and the update pending: no order of selector
\* answers, forms and links reaches it earlier or leaves it half scheduled.
PasswordFormAfterFlow ==
    /\ tab.action <=> tab.completed
    /\ tab.action => Succeeded(tab) = Execution /\ Eligible(tab)

\* One message per delivery, for the account the tab has selected: concurrent
\* visits of the flow issue one.
MessagePerDelivery ==
    /\ Len(messages) = IF tab.delivery = None THEN 0 ELSE 1
    /\ \A m \in MessageId : messages[m].user = tab.user

\* The browser binding changes exactly when a message is consumed: neither is
\* committed without the other, and no message moves the tab twice.
BindingFollowsMessage ==
    tab.generation = Cardinality({m \in MessageId : messages[m].consumed})

\* No request of a browser that has lost the tab commits after the link was
\* opened elsewhere, even one that was validated before.
BindingStep ==
    \A w \in Worker :
        req[w].pc = "commit" /\ req'[w].pc = "idle" /\ tab' # tab =>
            req[w].generation \in {None, tab.generation}
BindingChecked == [][BindingStep]_vars

-----------------------------------------------------------------------------
(* The promise behind the version column.                                   *)

\* What can be seen of a tab between requests.
visible == <<tab, life, messages, issued, uses, logins, changes>>

AnswersNow ==
    LoginAnswers \cup EntryAnswers \cup FormAnswers \cup RequiredAnswers \cup LinkAnswers

\* A request served by itself: loaded, computed and committed in one step.
Serve == life # "deleted" /\ \E r \in AnswersNow : Write(r)

\* Requests on one tab are served one at a time: however they overlap, those that
\* commit leave what the same handlers leave when each loads the tab after the
\* commit of the one before, checks of codes, bindings and messages included.
ServedOneByOne == Init /\ [][Serve \/ Expire \/ Clean]_visible
=============================================================================
