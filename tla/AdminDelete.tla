------------------------------ MODULE AdminDelete ------------------------------
(***************************************************************************)
(* DELETE of a client or of a whole realm through the admin API, beside    *)
(* the requests that keep adding rows to it: login pages, logins, browser  *)
(* SSO, code redemptions, refreshes and reset messages; and beside the     *)
(* revocations, by a logout or a refresh token that is used again.         *)
(*                                                                         *)
(* A deletion is one transaction of many statements.  Each has its own     *)
(* snapshot (READ COMMITTED), waits for the rows it must lock and keeps    *)
(* them.  Inserting a child row shares the lock on its parents' keys; a    *)
(* DELETE of a parent waits for those shares and is refused by the foreign *)
(* key if a child is left.  Uncommitted writes are kept in req[w].         *)
(***************************************************************************)
EXTENDS FiniteSets

CONSTANTS
    Client,   \* clients of the realm (primary keys)
    Session,  \* primary keys of user_sessions
    Code,     \* primary keys of authorization_codes
    Token,    \* primary keys of refresh_tokens
    Tab,      \* primary keys of authentication_sessions
    Web,      \* request handlers that serve browsers and relying parties
    Admin,    \* request handlers that serve the admin API; some may do both
    None      \* SQL NULL, or a field that is not used

\* Keys of different tables are different, and a key is not a row.
ASSUME KeysAssumption ==
    /\ None \notin Client \cup Session \cup Code \cup Token \cup Tab
    /\ Client \cap (Session \cup Code \cup Token \cup Tab) = {}
    /\ Session \cap (Code \cup Token \cup Tab) = {}
    /\ (Code \cup Token) \cap Tab = {}
    /\ Tab \cap [client : Client \cup {None}, sess : Session \cup {None}] = {}

VARIABLES
    clients,   \* table clients: the keys that are stored
    sessions,  \* table user_sessions
    grants,    \* tables authorization_codes and refresh_tokens
    tabs,      \* table authentication_sessions
    used,      \* codes and tokens that are consumed, tabs whose login is complete
    revoked,   \* sessions and tokens with a revoked_at
    mailed,    \* tabs that rows of reset_emails refer to
    events,    \* the client and session links in rows of security_events
    req        \* the transaction each worker runs

tables == <<clients, sessions, grants, tabs, used, revoked, mailed, events>>
vars == <<clients, sessions, grants, tabs, used, revoked, mailed, events, req>>

-----------------------------------------------------------------------------
Worker == Web \cup Admin

Status == {"absent", "present", "deleted"}   \* keys are random and never reused
Grant  == Code \cup Token
Event  == [client : Client \cup {None}, sess : Session \cup {None}]

\* A session belongs to the client that created it; codes and tokens of other
\* clients may hang on it (browser SSO).
SessionRow == [st : Status, client : Client \cup {None}]
GrantRow   == [st : Status, client : Client \cup {None}, sess : Session \cup {None}]
TabRow     == [st : Status, client : Client \cup {None}]

\* The requests, each with the statements it still has to run.
Kind == {"visit", "sso", "login", "redeem", "refresh", "detect", "logout", "mail",
         "delete_client", "delete_realm"}
Deletion   == {"delete_client", "delete_realm"}
RequestPC  == {"lock", "claim", "revoke", "insert", "store"}
DeletionPC == {"look", "heirs", "flush", "messages", "events", "codes", "tokens", "tabs",
               "sessions", "clients", "realm", "commit"}

\* `keys`: the codes, tokens or tabs whose UPDATE a request asks for, or has done;
\* `scope`: the clients to delete; `look`: owned sessions still to be examined, `sess`
\* and `client` the one that is being examined and its heir; `moves`: the new owner of
\* each session shared with another client; `gone`: keys it has deleted; `handled`:
\* events it has unlinked and tabs whose messages it has deleted.  History: `seen`, the
\* grants of other clients on a session when it was examined; `overtaken`, whether
\* another transaction committed meanwhile.
Idle == [kind |-> "login", pc |-> "idle", client |-> None, sess |-> None, keys |-> {},
         scope |-> {}, look |-> {}, moves |-> [s \in {} |-> None], gone |-> {},
         handled |-> {}, seen |-> {}, overtaken |-> FALSE]

Asking(kind, pc, c, s, keys) ==
    [Idle EXCEPT !.kind = kind, !.pc = pc, !.client = c, !.sess = s, !.keys = keys]

Present(table) == {k \in DOMAIN table : table[k].st = "present"}
Fresh(table)   == {k \in DOMAIN table : table[k].st = "absent"}

-----------------------------------------------------------------------------
(* Locks, held to the end of the transaction.                               *)

Others(w) == Worker \ {w}

\* The shared lock that an inserted row, or a new owner, takes on its client (the tab of
\* a visit that goes on to SSO is inserted first) ...
SharesClient(v, c) ==
    \/ (req[v].pc = "store" \/ req[v].kind = "sso") /\ req[v].client = c
    \/ \E s \in DOMAIN req[v].moves : req[v].moves[s] = c

\* ... on its session ...
SharesSession(v, s) == req[v].pc = "store" /\ req[v].sess = s

\* ... and on its realm, the first foreign key of every table but
\* authentication_sessions: an INSERT that waits for its client has it already.
SharesRealm(v) ==
    \/ req[v].pc = "insert" /\ req[v].kind # "visit"
    \/ req[v].pc = "store" \/ req[v].kind = "sso"

\* The exclusive row lock of an UPDATE or DELETE of a session, ...
LocksSession(r) ==
    /\ r.kind \in {"sso", "refresh", "detect", "logout"}
    /\ r.pc \in {"claim", "revoke", "insert", "store"}

HoldsSession(v, s) ==
    \/ s \in req[v].gone \cup DOMAIN req[v].moves
    \/ LocksSession(req[v]) /\ req[v].sess = s

\* ... of a grant or a tab.
HoldsKey(v, k) ==
    k \in req[v].gone \/ (req[v].pc \in {"insert", "store"} /\ k \in req[v].keys)

\* The rows that the UPDATE of a revocation writes.
Unrevoked(s) == {t \in (Token \cap Present(grants)) \ revoked : grants[t].sess = s}

-----------------------------------------------------------------------------
(* What a deletion sees: the committed rows and its own writes.             *)

OwnerSeen(w, s) ==
    IF s \in DOMAIN req[w].moves THEN req[w].moves[s] ELSE sessions[s].client

\* The subquery user_sessions.
Owned(w) == {s \in Present(sessions) : OwnerSeen(w, s) \in req[w].scope}

GrantsHit(w, keys) ==
    {g \in keys \cap Present(grants) :
        grants[g].client \in req[w].scope \/ grants[g].sess \in Owned(w)}

TabsHit(w) == {a \in Present(tabs) : tabs[a].client \in req[w].scope}

EventsHit(w) == {e \in events : e.client \in req[w].scope \/ e.sess \in Owned(w)}

\* Rows that still refer to a session it deletes.
SessionChildren(w) ==
    {g \in Present(grants) \ req[w].gone : grants[g].sess \in Owned(w)}
    \cup {e \in events \ req[w].handled : e.sess \in Owned(w)}

\* Rows that still refer to a client it deletes.
ClientChildren(w) ==
    {s \in Present(sessions) \ req[w].gone : OwnerSeen(w, s) \in req[w].scope}
    \cup {g \in Present(grants) \ req[w].gone : grants[g].client \in req[w].scope}
    \cup {e \in events \ req[w].handled : e.client \in req[w].scope}
    \cup {a \in TabsHit(w) : a \notin req[w].gone \/ (a \in mailed /\ a \notin req[w].handled)}

-----------------------------------------------------------------------------
\* The transactions whose locks the next statement of w waits for.
Blockers(w) ==
    LET r == req[w] IN
    {v \in Others(w) :
       CASE r.pc = "lock" -> HoldsSession(v, r.sess)
         [] r.pc = "claim" -> \E k \in r.keys : HoldsKey(v, k)
         [] r.pc = "revoke" -> \E t \in Unrevoked(r.sess) : HoldsKey(v, t)
         [] r.pc = "insert" -> {r.client, r.sess} \cap req[v].gone # {}
         [] r.pc = "flush" -> HoldsSession(v, r.sess) \/ r.client \in req[v].gone
         [] r.pc = "messages" -> TabsHit(w) \cap mailed \cap req[v].handled # {}
         [] r.pc = "events" -> EventsHit(w) \cap req[v].handled # {}
         [] r.pc = "codes" -> \E g \in GrantsHit(w, Code) : HoldsKey(v, g)
         [] r.pc = "tokens" -> \E g \in GrantsHit(w, Token) : HoldsKey(v, g)
         [] r.pc = "tabs" -> \E a \in TabsHit(w) : HoldsKey(v, a)
         [] r.pc = "sessions" -> \E s \in Owned(w) : HoldsSession(v, s) \/ SharesSession(v, s)
         [] r.pc = "clients" -> \E c \in r.scope \cap clients :
              c \in req[v].gone \/ SharesClient(v, c)
         [] r.pc = "realm" -> SharesRealm(v)
         [] OTHER -> FALSE}

\* The statement of w at `pc` gets its locks.
Runs(w, pc) == req[w].pc = pc /\ Blockers(w) = {}

Goto(w, pc) == req' = [req EXCEPT ![w].pc = pc]
Finish(w)   == req' = [req EXCEPT ![w] = Idle]

\* The commit of w: whoever is deleting has been overtaken, and a row that refers
\* to what it has handled is a new one.
Ended(w, new) ==
    req' = [v \in Worker |->
              IF v = w THEN Idle
              ELSE IF req[v].pc \in DeletionPC
              THEN [req[v] EXCEPT !.overtaken = TRUE, !.handled = @ \ new]
              ELSE req[v]]

Linked(c, s) == [client |-> c, sess |-> s]
NewGrant(c, s) == [st |-> "present", client |-> c, sess |-> s]

-----------------------------------------------------------------------------
Init ==
    /\ clients = Client
    /\ sessions = [s \in Session |-> [st |-> "absent", client |-> None]]
    /\ grants = [g \in Grant |-> [st |-> "absent", client |-> None, sess |-> None]]
    /\ tabs = [a \in Tab |-> [st |-> "absent", client |-> None]]
    /\ used = {} /\ revoked = {} /\ mailed = {} /\ events = {}
    /\ req = [w \in Worker |-> Idle]

-----------------------------------------------------------------------------
(* The requests beside it.                                                  *)

Arrives(w, kind, pc, c, s, keys) ==
    /\ req[w].pc = "idle" /\ c \in clients
    /\ req' = [req EXCEPT ![w] = Asking(kind, pc, c, s, keys)]
    /\ UNCHANGED tables

\* authorize inserts a tab; a password grant inserts a session.
Visit(w, c) == Arrives(w, "visit", "insert", c, None, {})
Login(w, c) == Arrives(w, "login", "insert", c, None, {})

\* A login through the browser completes a tab first, a visit of the reset flow that
\* mails a message updates it.
Submit(w, a) ==
    a \in Present(tabs) \ used /\ Arrives(w, "login", "claim", tabs[a].client, None, {a})
Mail(w, a) ==
    a \in Present(tabs) \ used /\ Arrives(w, "mail", "claim", tabs[a].client, None, {a})

\* grant_type=authorization_code: the session is read, not locked.
Redeem(w, k) ==
    /\ k \in Present(grants) \ used
    /\ Arrives(w, "redeem", "claim", grants[k].client, grants[k].sess, {k})

\* grant_type=refresh_token: session first, then token.
Refresh(w, t) ==
    /\ t \in Present(grants)
    /\ Arrives(w, "refresh", "lock", grants[t].client, grants[t].sess, {t})

\* logout, with an ID or refresh token that was issued with token t, perhaps long gone.
Logout(w, t) ==
    /\ grants[t].st # "absent" /\ grants[t].sess \in Present(sessions)
    /\ Arrives(w, "logout", "lock", grants[t].client, grants[t].sess, {})

\* The browser of a visit has a session, perhaps of another client: it is read after
\* the tab was inserted, and updated next.
Reuse(w, s) ==
    /\ req[w].pc = "store" /\ req[w].kind = "visit"
    /\ s \in Present(sessions) \ revoked
    /\ req' = [req EXCEPT ![w] = [req[w] EXCEPT !.kind = "sso", !.pc = "lock", !.sess = s]]
    /\ UNCHANGED tables

\* A session is there to be updated; lock_session wants it, and the token that is read
\* again under the lock, not revoked.
Lockable(r) ==
    /\ r.sess \in Present(sessions)
    /\ r.kind = "refresh" => r.sess \notin revoked /\ r.keys \subseteq Present(grants) \ revoked

\* The UPDATE of the session: SSO has nothing else to wait for, a refresh goes on with
\* its token, a logout or a second use of the token revokes all tokens of the session.
LockSession(w) ==
    LET r == req[w] IN
    /\ Runs(w, "lock")
    /\ \/ ~Lockable(r) /\ Finish(w)
       \/ Lockable(r) /\ r.kind = "sso" /\ Goto(w, "store")
       \/ Lockable(r) /\ r.kind = "logout" /\ Goto(w, "revoke")
       \/ Lockable(r) /\ r.kind = "refresh" /\ ~(r.keys \subseteq used) /\ Goto(w, "claim")
       \/ /\ Lockable(r) /\ r.kind = "refresh" /\ r.keys \subseteq used
          /\ req' = [req EXCEPT ![w] = [r EXCEPT !.kind = "detect", !.pc = "revoke"]]
    /\ UNCHANGED tables

\* The UPDATE of the code, token or tab; the session of a code is read next.
Claim(w) ==
    LET r == req[w] IN
    /\ Runs(w, "claim")
    /\ IF /\ r.keys \subseteq (Present(tabs) \cup Present(grants)) \ (used \cup revoked)
          /\ r.kind = "redeem" => r.sess \in Present(sessions) \ revoked
       THEN Goto(w, "insert") ELSE Finish(w)
    /\ UNCHANGED tables

\* The UPDATE of all tokens of the session.
Revoke(w) ==
    /\ Runs(w, "revoke")
    /\ req' = [req EXCEPT ![w] =
                 [req[w] EXCEPT !.pc = "insert", !.keys = Unrevoked(req[w].sess)]]
    /\ UNCHANGED tables

\* The INSERT; a client or session that is gone by now is a foreign key error.  The
\* event of a detected reuse is then left out: its revocation stands.
Insert(w) ==
    LET r == req[w] IN
    /\ Runs(w, "insert")
    /\ IF r.client \in clients /\ r.sess \in Present(sessions) \cup {None}
       THEN Goto(w, "store")
       ELSE IF r.kind = "detect"
       THEN req' = [req EXCEPT ![w] = [r EXCEPT !.pc = "store", !.client = None]]
       ELSE Finish(w)
    /\ UNCHANGED tables

\* The commits: a session with its first grant, ...
StoreLogin(w) ==
    LET r == req[w] IN
    /\ r.pc = "store" /\ r.kind = "login"
    /\ \E s \in Fresh(sessions), g \in (IF r.keys = {} THEN Token ELSE Code) \cap Fresh(grants) :
         /\ sessions' = [sessions EXCEPT ![s] = [st |-> "present", client |-> r.client]]
         /\ grants' = [grants EXCEPT ![g] = NewGrant(r.client, s)]
         /\ events' = events \cup {Linked(r.client, s)}
         /\ Ended(w, {Linked(r.client, s)})
    /\ used' = used \cup r.keys
    /\ UNCHANGED <<clients, tabs, revoked, mailed>>

\* ... another code, with its tab, or a token for the code or token it was bought with, ...
StoreGrant(w) ==
    LET r == req[w] IN
    /\ r.pc = "store"
    /\ \/ /\ r.kind = "sso"
          /\ \E g \in Code \cap Fresh(grants), a \in Fresh(tabs) :
               /\ grants' = [grants EXCEPT ![g] = NewGrant(r.client, r.sess)]
               /\ tabs' = [tabs EXCEPT ![a] = [st |-> "present", client |-> r.client]]
               /\ used' = used \cup {a}
       \/ /\ r.kind \in {"redeem", "refresh"}
          /\ \E g \in Token \cap Fresh(grants) :
               grants' = [grants EXCEPT ![g] = NewGrant(r.client, r.sess)]
          /\ used' = used \cup r.keys
          /\ tabs' = tabs
    /\ events' = events \cup {Linked(r.client, r.sess)}
    /\ Ended(w, {Linked(r.client, r.sess)})
    /\ UNCHANGED <<clients, sessions, revoked, mailed>>

\* ... a revocation, ...
StoreRevocation(w) ==
    LET r == req[w]
        event == IF r.client = None THEN {} ELSE {Linked(r.client, r.sess)} IN
    /\ r.pc = "store" /\ r.kind \in {"detect", "logout"}
    /\ revoked' = revoked \cup {r.sess} \cup r.keys
    /\ events' = events \cup event
    /\ Ended(w, event)
    /\ UNCHANGED <<clients, sessions, grants, tabs, used, mailed>>

\* ... a tab, or its message.
StoreTab(w) ==
    LET r == req[w] IN
    /\ r.pc = "store"
    /\ \/ /\ r.kind = "visit"
          /\ \E a \in Fresh(tabs) :
               tabs' = [tabs EXCEPT ![a] = [st |-> "present", client |-> r.client]]
          /\ mailed' = mailed
       \/ /\ r.kind = "mail"
          /\ mailed' = mailed \cup r.keys
          /\ tabs' = tabs
    /\ Ended(w, r.keys)
    /\ UNCHANGED <<clients, sessions, grants, used, revoked, events>>

-----------------------------------------------------------------------------
(* delete_client and delete_realm                                           *)

\* Mutant: the client is locked first, to keep others from adding rows.
ClientDelete_Locks(w, c) ==
    /\ req[w].pc = "idle" /\ c \in clients
    /\ \A v \in Others(w) : ~SharesClient(v, c) /\ c \notin req[v].gone
    /\ req' = [req EXCEPT ![w] =
                 [Idle EXCEPT !.kind = "delete_client", !.pc = "look", !.scope = {c}, !.gone = {c},
                              !.look = {s \in Present(sessions) : sessions[s].client = c}]]
    /\ UNCHANGED tables

\* delete_client reads the sessions the client owns ...
ClientDelete(w, c) ==
    /\ req[w].pc = "idle" /\ c \in clients
    /\ req' = [req EXCEPT ![w] =
                 [Idle EXCEPT !.kind = "delete_client", !.pc = "look", !.scope = {c},
                              !.look = {s \in Present(sessions) : sessions[s].client = c}]]
    /\ UNCHANGED tables

\* ... delete_realm takes every client with all it has; no session is kept.
RealmDelete(w) ==
    /\ req[w].pc = "idle" /\ clients # {}
    /\ req' = [req EXCEPT ![w] =
                 [Idle EXCEPT !.kind = "delete_realm", !.pc = "messages", !.scope = Client]]
    /\ UNCHANGED tables

\* The grants of other clients on a session.
Foreign(w, s) ==
    {g \in Present(grants) : grants[g].sess = s /\ grants[g].client \notin req[w].scope}

\* Mutant: only refresh tokens are looked for.
Heirs_TokensOnly(w, s, keys) == {grants[g].client : g \in Foreign(w, s) \cap keys \cap Token}

\* The clients that may inherit a session: of one of its refresh tokens, or codes.
Heirs(w, s, keys) == {grants[g].client : g \in Foreign(w, s) \cap keys}

\* One turn of the loop: a plain read of the refresh tokens of a session, ...
Look(w) ==
    LET r == req[w] IN
    /\ r.pc = "look"
    /\ \/ r.look = {} /\ Goto(w, "messages")
       \/ \E s \in r.look :
            \E d \in IF Heirs(w, s, Token) = {} THEN {None} ELSE Heirs(w, s, Token) :
              req' = [req EXCEPT ![w] =
                        [r EXCEPT !.pc = IF d = None THEN "heirs" ELSE "flush",
                                  !.sess = s, !.client = d,
                                  !.look = @ \ {s}, !.seen = @ \cup Foreign(w, s)]]
    /\ UNCHANGED tables

\* ... of its codes if there is none, ...
LookForCodes(w) ==
    LET r == req[w]
        heirs == Heirs(w, r.sess, Code) IN
    /\ r.pc = "heirs"
    /\ \/ heirs = {} /\ Goto(w, "look")
       \/ \E d \in heirs : req' = [req EXCEPT ![w] = [r EXCEPT !.pc = "flush", !.client = d]]
    /\ UNCHANGED tables

\* IntegrityError or StaleDataError: the deletion is rolled back, a server error.
Refuse(w) ==
    req' = [req EXCEPT ![w] = [Idle EXCEPT !.pc = "refused", !.overtaken = req[w].overtaken]]

\* ... and the UPDATE of the session for its new owner, flushed by the next read.
Flush(w) ==
    LET r == req[w] IN
    /\ Runs(w, "flush")
    /\ IF r.sess \in Present(sessions) /\ r.client \in clients
       THEN req' = [req EXCEPT ![w] =
                      [r EXCEPT !.pc = "look",
                                !.moves = [x \in DOMAIN @ \cup {r.sess} |->
                                             IF x = r.sess THEN r.client ELSE @[x]]]]
       ELSE Refuse(w)
    /\ UNCHANGED tables

Removes(w, keys, next) ==
    req' = [req EXCEPT ![w] = [req[w] EXCEPT !.pc = next, !.gone = @ \cup keys]]

Handles(w, rows, next) ==
    req' = [req EXCEPT ![w] = [req[w] EXCEPT !.pc = next, !.handled = @ \cup rows]]

DeleteMessages(w) ==
    /\ Runs(w, "messages")
    /\ Handles(w, TabsHit(w) \cap mailed, "events")
    /\ UNCHANGED tables

\* Mutant: only the links to the client are cleared.
UnlinkEvents_ClientOnly(w) ==
    /\ Runs(w, "events")
    /\ Handles(w, {e \in events : e.client \in req[w].scope}, "codes")
    /\ UNCHANGED tables

\* The links of events to the client, and to the sessions that go (delete_realm
\* deletes the events).
UnlinkEvents(w) ==
    /\ Runs(w, "events")
    /\ Handles(w, EventsHit(w), "codes")
    /\ UNCHANGED tables

DeleteCodes(w) ==
    /\ Runs(w, "codes")
    /\ Removes(w, GrantsHit(w, Code), "tokens")
    /\ UNCHANGED tables

\* Links between tokens stay inside a family, which has one client and one
\* session: cleared first, they never reach out of what is deleted.
DeleteTokens(w) ==
    /\ Runs(w, "tokens")
    /\ Removes(w, GrantsHit(w, Token), "tabs")
    /\ UNCHANGED tables

DeleteTabs(w) ==
    /\ Runs(w, "tabs")
    /\ IF TabsHit(w) \cap mailed \subseteq req[w].handled
       THEN Removes(w, TabsHit(w), "sessions") ELSE Refuse(w)
    /\ UNCHANGED tables

\* Mutant: sessions are deleted without looking for shares of inserts (no foreign key).
DeleteSessions_NoKey(w) ==
    /\ req[w].pc = "sessions"
    /\ \A v \in Others(w), s \in Owned(w) : ~HoldsSession(v, s)
    /\ Removes(w, Owned(w), "clients")
    /\ UNCHANGED tables

DeleteSessions(w) ==
    /\ Runs(w, "sessions")
    /\ IF SessionChildren(w) = {} THEN Removes(w, Owned(w), "clients") ELSE Refuse(w)
    /\ UNCHANGED tables

DeleteClients(w) ==
    /\ Runs(w, "clients")
    /\ IF ClientChildren(w) = {}
       THEN Removes(w, req[w].scope, IF req[w].kind = "delete_realm" THEN "realm" ELSE "commit")
       ELSE Refuse(w)
    /\ UNCHANGED tables

\* The row of the realm, to which every row belongs, goes last.
DeleteRealmRow(w) ==
    /\ Runs(w, "realm")
    /\ Goto(w, "commit")
    /\ UNCHANGED tables

Without(table, keys) ==
    [k \in DOMAIN table |-> IF k \in keys /\ table[k].st = "present"
                            THEN [table[k] EXCEPT !.st = "deleted"] ELSE table[k]]

DeletionCommit(w) ==
    LET r == req[w]
        unlinked(e) == IF e \notin r.handled THEN e
                       ELSE [client |-> IF e.client \in r.scope THEN None ELSE e.client,
                             sess |-> IF e.sess \in r.gone THEN None ELSE e.sess] IN
    /\ r.pc = "commit"
    /\ clients' = clients \ r.gone
    /\ sessions' = Without([s \in Session |-> [sessions[s] EXCEPT !.client = OwnerSeen(w, s)]],
                           r.gone)
    /\ grants' = Without(grants, r.gone)
    /\ tabs' = Without(tabs, r.gone)
    /\ mailed' = mailed \ r.gone
    /\ events' = {unlinked(e) : e \in events}
    /\ Ended(w, {unlinked(e) : e \in r.handled \cap events})
    /\ UNCHANGED <<used, revoked>>

-----------------------------------------------------------------------------
(* Cleanup, failures, deadlocks                                             *)

\* cleanup_expired removes an expired code or token, and a session without them.
CleanGrant(g) ==
    /\ g \in Present(grants) /\ \A v \in Worker : ~HoldsKey(v, g)
    /\ grants' = Without(grants, {g})
    /\ Ended(None, {})
    /\ UNCHANGED <<clients, sessions, tabs, used, revoked, mailed, events>>

CleanSession(s) ==
    /\ s \in Present(sessions)
    /\ \A v \in Worker : ~HoldsSession(v, s) /\ ~SharesSession(v, s)
    /\ \A v \in Worker : \A e \in req[v].handled \ Tab : e.sess # s
    /\ \A g \in Present(grants) : grants[g].sess # s
    /\ sessions' = Without(sessions, {s})
    /\ events' = {IF e.sess = s THEN [e EXCEPT !.sess = None] ELSE e : e \in events}
    /\ Ended(None, {[e EXCEPT !.sess = None] : e \in {f \in events : f.sess = s}})
    /\ UNCHANGED <<clients, grants, tabs, used, revoked, mailed>>

\* A transaction is the victim of a deadlock, or its worker is killed.
Fail(w) ==
    /\ req[w].pc \in RequestPC \cup DeletionPC
    /\ Finish(w)
    /\ UNCHANGED tables

\* The server error of a refused deletion is answered.
Answer(w) ==
    /\ req[w].pc = "refused"
    /\ Finish(w)
    /\ UNCHANGED tables

-----------------------------------------------------------------------------
Arrive(w) ==
    \/ \E c \in Client : Visit(w, c) \/ Login(w, c)
    \/ \E k \in Code : Redeem(w, k)
    \/ \E t \in Token : Refresh(w, t) \/ Logout(w, t)
    \/ \E a \in Tab : Submit(w, a) \/ Mail(w, a)

Proceed(w) ==
    \/ \E s \in Session : Reuse(w, s)
    \/ LockSession(w) \/ Claim(w) \/ Revoke(w) \/ Insert(w)
    \/ StoreLogin(w) \/ StoreGrant(w) \/ StoreRevocation(w) \/ StoreTab(w)
    \/ Look(w) \/ LookForCodes(w) \/ Flush(w) \/ DeleteMessages(w) \/ UnlinkEvents(w)
    \/ DeleteCodes(w) \/ DeleteTokens(w) \/ DeleteTabs(w) \/ DeleteSessions(w)
    \/ DeleteClients(w) \/ DeleteRealmRow(w) \/ DeletionCommit(w) \/ Answer(w)

Next ==
    \/ \E w \in Web : Arrive(w)
    \/ \E w \in Admin : RealmDelete(w) \/ \E c \in Client : ClientDelete(w, c)
    \/ \E w \in Worker : Proceed(w) \/ Fail(w)
    \/ \E g \in Grant : CleanGrant(g)
    \/ \E s \in Session : CleanSession(s)

Spec == Init /\ [][Next]_vars

-----------------------------------------------------------------------------
(* Properties.                                                              *)

\* Rows are well formed.
TypeOK ==
    /\ clients \subseteq Client
    /\ sessions \in [Session -> SessionRow]
    /\ grants \in [Grant -> GrantRow]
    /\ tabs \in [Tab -> TabRow]
    /\ used \subseteq Grant \cup Tab /\ revoked \subseteq Session \cup Token
    /\ mailed \subseteq Tab /\ events \subseteq Event
    /\ \A w \in Worker :
         /\ req[w].kind \in Kind
         /\ req[w].pc \in RequestPC \cup DeletionPC \cup {"idle", "refused"}

\* No stored row refers to a row that is not there, however inserts and the
\* statements of a deletion overtake each other: inserts wait for what is being
\* deleted, deletions for what is being inserted.
ForeignKeysHold ==
    /\ TypeOK
    /\ \A s \in Present(sessions) : sessions[s].client \in clients
    /\ \A g \in Present(grants) :
          grants[g].client \in clients /\ grants[g].sess \in Present(sessions)
    /\ \A a \in Present(tabs) : tabs[a].client \in clients
    /\ mailed \subseteq Present(tabs)
    /\ \A e \in events : e.client \in clients \cup {None}
                      /\ e.sess \in Present(sessions) \cup {None}

\* What another client held on a session when delete_client examined it is there
\* after the deletion, with its session, unless it was cleaned up: the session
\* moves to a client that holds something on it, whatever else is going on.
SeenGrantsKept ==
    \A w \in Worker : req[w].pc \in DeletionPC =>
        req[w].seen \cap req[w].gone = {}
        /\ \A g \in req[w].seen : grants[g].st = "present" => grants[g].sess \notin req[w].gone

\* The foreign keys refuse a deletion only if another transaction has committed
\* since it began: rows that were there are found and removed in an order that no
\* reference forbids, links of other clients' events included.
RefusedOnlyIfOvertaken ==
    \A w \in Worker : req[w].pc = "refused" => req[w].overtaken

\* Every one of S waits for one of S and keeps one of S waiting.
Stuck(S) ==
    \A w \in S : Blockers(w) \cap S # {} /\ \E v \in S : w \in Blockers(v)

\* Transactions that wait for each other in a circle, of any length: a deletion is one of
\* them, and the others have locked what it needs and ask for what it has.  An SSO holds
\* the client of its tab and asks for the session, a refresh holds the session and asks
\* for its token, a revocation for all tokens; an INSERT holds the realm, if that goes
\* too.  Deletions of clients never catch who redeems a code, logs in, mails or only
\* opens a page.
DeadlockShape ==
    \A S \in SUBSET Worker : S # {} /\ Stuck(S) =>
        /\ \E w \in S : req[w].kind \in Deletion
        /\ \A w \in S :
             \/ req[w].kind \in Deletion
             \/ req[w].kind = "sso" /\ req[w].pc = "lock"
             \/ req[w].kind = "refresh" /\ req[w].pc = "claim"
             \/ req[w].kind \in {"logout", "detect"} /\ req[w].pc = "revoke"
             \/ req[w].pc = "insert" /\ \E v \in S : req[v].kind = "delete_realm"
=============================================================================
