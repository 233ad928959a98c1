# Verification of mini-keycloak

TLA+ specifications of the state machines inside `src/mini-keycloak`, an OpenID
Connect provider written with Flask and SQLAlchemy, with the TLC configurations
that check them and TLAPS proofs. Paths below are relative to
`src/mini-keycloak/mini_keycloak` unless they start with `src/`.

Contents: [inventory](#inventory-of-the-system) ·
[how the code became a model](#how-the-code-became-a-model) ·
[modules](#modules) · [runs](#runs-bounds-and-what-they-show) ·
[findings](#findings) · [proofs](#proofs) · [not modelled](#not-modelled) ·
[plan](#plan)

## Inventory of the system

Everything the program remembers is in one SQL database. Web workers are
Gunicorn processes with threads (`src/mini-keycloak/gunicorn.conf.py`): every
request has its own ORM session and, until its commit, one transaction. There
is no other shared memory. PostgreSQL at READ COMMITTED with row locks is the
production database; SQLite, which lets one writer run at a time, shows a subset
of the same interleavings. Operators run the command line (`cli.py`) against the
same database while the server works. A request that exceeds the Gunicorn
timeout is killed with its worker: the database rolls its transaction back.

| component | state | operations | talks to |
|---|---|---|---|
| user sessions, codes, refresh tokens (`services/tokens.py`, `services/authorization.py`, `services/sessions.py`, `repositories/protocol.py`, `repositories/sessions.py`, `oidc/token.py`, `oidc/logout.py`) | rows of `user_sessions`, `authorization_codes`, `refresh_tokens` | login, password grant, SSO reuse, code redemption, refresh with rotation, reuse detection, logout | signing keys, throttling, audit events, cleanup |
| realm signing keys (`services/keys.py`, `repositories/keys.py`) | rows of `realm_keys`, the row lock of `realms` | ensure the active key, rotate, sign, verify by kid, delete with the realm | realm import, `rotate-realm-key`, administration |
| login throttling (`security/login_throttling.py`) | rows of `login_failure_buckets` | check, count a failure (one upsert), clear on success | password grant, browser login, cleanup |
| browser login and session codes (`authentication/browser.py`, `login_actions.py`, `session_codes.py`, `manager.py`) | one row of `authentication_sessions` per tab, under a version column; the browser's cookie | authorize, password login, session-code rotation, completion | flow engine, sessions and codes |
| flow engine (`authentication/engine.py`, `processor.py`) | `execution_status`, `auth_notes`, `current_execution` of the tab | traverse, selector, form, success | authenticators, required actions |
| reset credentials and action tokens (`services/action_tokens.py`, `reset_credentials/*`) | rows of `reset_emails`; notes of the tab | account form, deliver, consume a link, resume on another browser | mail, flow engine |
| required actions (`authentication/required_actions.py`, `reset_credentials/update_password.py`) | `required_actions`, `current_required_action` | challenge, replace the password, complete | completion of the tab |
| cleanup (`services/cleanup.py`) | a cutoff; batches of primary keys | one pass per table, one commit per batch | every table with an expiry |
| administration (`admin.py`, `services/admin_management.py`) | all rows of a realm or client | delete realm, delete client, import | all of the above |
| realm import (`services/realm_import.py`, `services/bootstrap.py`, `services/authentication_flows.py`; `import_export/*` checks the documents) | realm, clients, users, flows, keys | preflight, release and assign email slots, ensure key and flow | keys, flows |
| audit events (`services/events.py`) | rows of `security_events`, with links to clients and sessions | record with the operation, or after its rollback | deletions and cleanup clear the links; nothing reads them |
| schema migrations (`src/mini-keycloak/migrations`: `env.py`, revisions 0005, 0007, 0008) | `alembic_version`; the rows a revision rewrites | upgrade, downgrade, in one transaction on PostgreSQL | realms and clients, pending tabs |
| the rest: configuration, validation of import documents, crypto, forms, logging, proxy, discovery, health | none that changes while serving | pure functions, start-up checks, read-only pages | |

**Behaviours that are hard.** Two requests for the same code, token, session
code or link. A row that was read before a lock was granted and is used after.
A revocation that races the insert of the row it should revoke. Times taken
before a wait. A rejected request that must still commit a revocation. A killed
worker. A failure that is counted in a transaction after the one that failed.
Selection and deletion by cleanup in several statements while requests extend what
was selected; statements that lock many tokens in no order. Lock orders of imports, rotations and deletions.
Imports that validate against what they read without a lock and write later,
column by column. Deletions of a dozen statements, each with a snapshot of its
own, beside the inserts of requests. Upgrades that rewrite what jobs still write
and where pending resets stand.

**What makes each component correct.**

- *Sessions, codes, tokens*: a code buys one family; a family is a chain, never
  a tree; a rotation happens completely or not at all; reuse of a consumed token
  is never answered by a plain rejection while its session is good; no successor
  stays usable on a revoked session, and no revoked session comes back; nothing
  outlives the absolute maximum; requests do not deadlock.
- *Keys*: exactly one active key at every commit; the keys of issued tokens stay
  until the realm goes; rotation, import and deletion end.
- *Throttling*: the block starts exactly at the threshold under any interleaving
  of failures; failures and cleanup cannot move it; a request gets one late check.
- *Browser flow*: a session code is accepted once; a tab completes once; the
  password form comes only after the whole flow; one message per delivery; a
  link moves the tab exactly when its message is consumed.
- *Cleanup*: only dead rows go; revoked sessions stay for their retention; a run
  that is repeated finishes.
- *Administration*: no row is left without its parent, whatever is inserted during a
  deletion; a session that another client has a grant on is handed over, not
  deleted; a deletion is refused only if another transaction overtook it; a
  circle of waiting transactions contains a deletion. SSO (which inserts its tab before
  it updates the session), refreshes, logouts and defensive revocations can be in one with
  the deletion of a client, inserts only with that of a realm.
- *Migrations*: an upgrade is given up only for names that collide; afterwards every
  name is normalized and unique; a pending tab stands where its release can go on,
  and an upgrade never lets it skip a step of the reset.
- *Import*: a failed import changes nothing; an exchange of addresses needs no free
  slot and is never refused half-way; a client's secret fits its type; imports end.

`PROJECT.json` lists the hazards line by line with the properties that cover
them.

## How the code became a model

- Variables hold **committed** rows. What a transaction has written and not yet
  committed is in the record of its worker (`req[w]`), together with the
  statement it executes next (`pc`) and the values it read earlier and will
  still use, a `now` above all.
- An action is one SQL statement, or several that no other transaction can
  separate, with everything the handler does up to the next point where another
  transaction can come between. Where a statement waits for a row lock, its
  guard says that no other worker holds it; READ COMMITTED then evaluates its
  WHERE clause on the row as it is after the wait, and so does the action.
- A statement that waited used a `now` from before the wait: the action chooses
  it between the time of the read and the clock.
- Every transaction can be rolled back at every statement (`Fail`,
  `Rollback`): a killed worker, a lost connection, a failed statement.
- Random primary keys, codes and tokens are members of finite sets, never used
  twice. A row is `absent`, `present` or `deleted`.
- Realm, client and user being enabled is one flag, since the code always asks
  for all three; administrators may toggle it at any time.
- Signatures are not modelled: a token that reaches the database is one the
  server has signed. `RefreshMatches` keeps those claims that may disagree with
  the row later.

## Modules

### SessionTokens

One transaction of each kind, from `pc` to `pc`:

| request | `pc` | code |
|---|---|---|
| SSO reuse | idle → reuse.touch → reuse.issue → reuse.commit | `browser.authorize`, `UserSessionService.reuse`, `AuthorizationService.issue` |
| code grant | idle → code.consume → code.issue → code.commit | `AuthorizationService.consume`, `TokenService.issue`, `_authorization_code_grant` |
| refresh | idle → refresh.lock → refresh.check → refresh.rotate → refresh.commit, or → refresh.reuse | `TokenService.refresh`, `_refresh_grant` |
| logout | idle → logout.lock → logout.revoke | `oidc/logout.py`, `UserSessionRepository.revoke` |

`Login` and `PasswordGrant` create a session nobody knows before the commit and
are one action each. Session locks are held from the touch, the conditional
UPDATE of refresh or the revocation to the end; a code is locked by its claim, a
token by its consumption. The code grant reads the session and does *not* lock
it, as in the code: that is what the finding below is about. `family` is the
generation-0 row of a family, where the code has a random string; `origin` is a
history field, the code a family was bought with.

### KeyRing

What a realm promises to those who verify its tokens: `Create` and `Provision` write its
first key, `Rotate` puts a new key in the place of the active one and retains that one,
`Issue` hands out a token under a stored key, `Delete` takes the realm with all its keys.
Each is one step; there is no lock and no moment without an active key.

### RealmKeys

Imports (`ensure.*`), rotations (`rotate.*`), deletions of the realm
(`delete.*`) and token signing (`sign.commit`) over one realm. The UPDATE that
deactivates and the DELETE that removes keys record their snapshot (`seen`) and
finish when none of those rows is locked, as PostgreSQL does. Rotation locks
the realm and then keys, deletion keys and then the realm, so they can wait for
each other; `DeadlockAbort` is the database ending one of them. Under the same variables
it implements KeyRing: the proofs have `Ring == INSTANCE KeyRing` and `Ring!Spec`.

### LoginThrottle

One bucket. `Upsert` is the `INSERT ... ON CONFLICT DO UPDATE ... WHERE` with its
CASE expressions; `Arrive`, `Verify` and `Record` are the check, the password
hash and the count, three points between which anything may happen. `late` is a
history variable: the workers that verified a password after the block began.

### BrowserFlow

One tab, one browser binding, one reset flow. A request opens the tab, computes an
answer and commits it if the version it loaded is still there (`version_id_col`). Each
handler is the set of the answers it may give to the tab as it finds it (`LoginAnswers`,
`EntryAnswers`, `FormAnswers`, `RequiredAnswers`, `LinkAnswers`; the operators from
`Complete` to `ProcessAction` follow `login_actions.py` and `engine.py` function by
function), and `Commit` is the check of the version followed by `Write` of one answer. The executions of the reset flow are
the three that `ensure_reset_flow` writes, all REQUIRED. The five notes that steer
the flow and the pending password update are fields of the row. A message row is
consumed by the commit that moves the tab. `Expire` and `Clean` end the tab's life
at any moment.

`ServedOneByOne` is the abstract tab, over the `visible` variables alone: its one step
`Serve` lets any handler answer the tab as it is now and writes the answer at once.

Which user an account form names, whether a password is right and whether it
satisfies the policy are free choices. Consent, prompts and the cookie's
signature are left out; the binding is its generation number.

### SessionCleanup

Extends SessionTokens with the cleanup command. `cleaner` is its run, and a batch takes
three of its `pc`:

| `pc` | code |
|---|---|
| select → unlink | the SELECT of the primary keys, or the next table |
| unlink → delete | the UPDATE that clears the links into the batch locks its rows one by one (`CleanLock`); `CleanSnapshot` is its end and the snapshot of the DELETE: the rows it has found and the sessions its subquery calls inactive |
| delete → select | the DELETE locks its tokens one by one and waits for the requests that hold its other rows; `CleanDelete` then decides again on each row as it is, with the subquery's old answer, and commits both statements |

A session that has a code or a token
again by then is refused by the foreign key and ends the run. One run at a
time: the command is scheduled from outside.

The requests are the actions of SessionTokens, `Served` beside these locks: a rotation
waits for its token, and the second UPDATE of a revocation
(`UserSessionRepository.revoke`) locks the unrevoked tokens of the session one by one too
(`RevokeLock`, collected in `held`) and waits for those in `cleaner.locked`. Neither side has an order, so cleanup and
a revocation can wait for each other; `Deadlocked` names the pair, and `DeadlockAbort` is
the database that rolls one of them back. A token that a code grant adds while a revocation
locks its own is taken as added before. `revived` is a
history variable: the sessions whose idle expiry was moved into the future after it had
passed, which only a request that had read them in time can do (`Recorded` keeps it
beside every step).

### RealmImport

Imports of documents into one realm, each a transaction of `import_realm`:

| `pc` | code |
|---|---|
| idle → clients | the entry points (`cli.realm_import`, `admin.realms`, `realm_resource`, `clients`, `client_resource`, `ensure_demo_realm`), validation, `realms_with_normalized_name` |
| clients → users → realm | `list_clients`, `list_users` and the checks of `_preflight` |
| realm → flush | the realm row, then one `ReleaseSlot` per stored user whose address changes |
| flush | `_apply_client` and `_apply_user`: an INSERT, or an UPDATE of the columns that differ from what was read |
| flush → commit → idle | `ensure_active_key` locks the realm; the flow alias; the caller's commit |
| conflict → idle | a unique constraint refused a statement; the caller reports it |

`realm`, `users` and `clients` are the committed rows; `req[w].users` and
`req[w].clients` the versions `w` has written. A user has the two address columns
`email` and `slot` (`email_normalized`), a client its type and whether it has a
secret hash; every other column is the flag `fields` of the document, which
decides whether a row is written at all. Usernames and client ids are the index
of the row. `present` says whether the document has the field: it tells an
omitted address from one that is cleared, and an omitted type from a given one.

A statement waits for a row that another import has written, for a slot that
another import takes or gives up, and for the realm: an insert shares the lock on
it (its foreign key), an update of its fields and `lock_realm` do not. Two imports
that both inserted a row therefore wait for each other at `LockRealm`, and
`DeadlockAbort` ends one. Within one flush the ORM inserts and updates in an order
of its own, which the guards follow: rows by key, new clients after changed ones.

`Applies(r)` is what a document asks for, in one step: it is valid for the tables as they
are, the realm is there afterwards, and every user and client becomes what `AppliedUser` and
`AppliedClient` make of it. `AppliesDocument` says that nothing else of an import shows.

`admin-bootstrap` is an import like `CreateRealm` or `UpdateRealm` that refuses an
existing user first. The fields `ensure_demo_realm` sets after the import are among
those the model leaves out.

### GrantLedger

What a relying party is promised, without requests, locks or clocks: a ledger with one
entry per token that was handed out (session, code, family, generation, spent or not)
and the set of closed sessions. `Open` founds a family for a code that has none,
`Extend` spends the last entry of a family and writes its successor, `Close` ends a
session; nothing else ever happens to an entry. `OneTip` says that of all the
tokens handed out for one code at most one can be exchanged.

SessionTokens implements it: `ClosedSessions` and `LedgerEntry` map the committed
tables to a ledger, and `ImplementsLedger` is the specification of GrantLedger under
that map. Every commit is one of the three steps or does not show.

### AdminDelete

`delete_client` and `delete_realm`, beside the requests that add rows below a client and
the revocations. A deletion is one transaction of statements with a snapshot each, in the
order of the code:

look → heirs → flush (for each owned session) → messages → events → codes → tokens →
tabs → sessions → clients (→ realm) → commit

`look` reads the refresh tokens of one owned session, `heirs` its codes if there is no
token of another client; the session's new owner is written by the autoflush of the next
read (`flush`), so its locks start there. `scope` is the clients it deletes, `moves` the new
owners of shared sessions; what it has deleted or unlinked and not committed is in `gone`
and `handled`. `delete_realm`
starts at messages with all clients in scope. The other requests are reduced to the rows
they touch:

| kind | statements |
|---|---|
| `visit` | insert of a tab, store |
| `sso` | a visit that finds a session: the tab is flushed first, with its share of the client (`Reuse`), then the UPDATE of the session, store with a code |
| `login` | claim of its tab (none for a password grant), insert, store |
| `redeem` | claim of the code, insert of the token, store |
| `refresh` | lock (the UPDATE of the session), claim of the token, insert, store |
| `detect` | a refresh that finds its token used: lock, revoke, insert of the event, store |
| `logout` | lock, revoke (the UPDATE of all tokens of the session), insert of the event, store |
| `mail` | claim of the tab, insert of the message, store |

`insert` takes the shared locks on the parents, the foreign keys: the realm first, but for
`authentication_sessions`, then client and session; `store` is the commit. `Blockers(w)`
names the transactions whose locks the next statement
waits for; `Runs` is the moment it gets them. Codes and tokens are one table `grants`,
since a deletion treats them alike. Users and flows of a realm go the way of its clients
and are left out, and so is the opening of a mailed link, which locks message and tab in the
order of the deletions.

A link in `events` that a commit renames (a client or session set to NULL) counts as a
new row for the other deletions that are running: `Ended` takes it out of their
`handled`. `CleanGrant` and `CleanSession` are cleanup as a deletion meets it, `Fail` a
killed worker or the victim of a deadlock (cleanup is one step here: its own circles are in SessionCleanup), `refused` the server error after a foreign
key or a stale UPDATE refused a statement.

### SchemaMigrations

The three revisions that rewrite rows, upgrade and downgrade, each run one transaction
over all its revisions (`env.py`): idle → lock → read → fill (0005) → convert (0007,
0008) → commit on the way up, restore → lock → drop → commit on the way down; `failed`
is the error of a collision, `Rollback` that error or a killed process. Revision 4 stands
for all before 0005, 6 for 0005 and 0006, 8 for 0007 to 0009. Jobs of either release
write realms and clients until the run has its lock (`Write`, `WriteCommit`); the web
servers are stopped for it, as `src/mini-keycloak/docs/operations.md` asks.

The tab is a tab of BrowserFlow, and what the new release does with it is BrowserFlow's
own operators, taken with INSTANCE. The release before 0007 is no longer in the
repository: `OldRelease` leaves any tab that the migrations and their tests describe.

## Runs, bounds and what they show

| run | module, bounds | shows |
|---|---|---|
| `session_tokens` | 1 session, 2 codes, 3 tokens, 2 workers, clock 0..2, lifetimes 2/3/2/1 | the safety properties of SessionTokens, and that it implements GrantLedger |
| `families_revoked` | 1 session, 1 code, 1 token, 2 workers | a finding, see below |
| `realm_keys` | 3 keys, 3 workers, fair | one active key; keys of tokens stay; rotation, import, deletion and signing end |
| `login_throttle` | 3 workers, threshold 2, window 2, lock 3, clock 0..7 | the accounting under concurrent failures |
| `browser_flow` | 2 workers, 2 users, 7 commits | codes, completion, messages and binding of a tab; overlapping requests leave what one after the other leaves |
| `session_cleanup` | 1 session, 1 code, 2 tokens, 2 workers, batches of 1, clock 0..2 | cleanup beside requests removes only what is dead |
| `revived_session` | as `session_cleanup`, with 2 codes | a finding, see below |
| `cleanup_ends` | 1 session, 1 code, 2 tokens, 1 worker, lifetimes 1/2/2/2, clock 0..2, batches of 2, one killed run, fair | every run ends and expired sessions go, whatever runs are killed, refused or aborted in a deadlock with a revocation |
| `realm_import` | 2 users, 2 addresses of which one has 2 spellings, 1 client, 4 documents, 2 workers, fair | an import is all or nothing and, unless overtaken, its document as one step; secrets fit types; no import waits for ever |
| `emails_unique` | 4 documents about one address, 2 workers | a finding, see below |
| `admin_delete` | 2 clients, 1 session, 1 code, 2 tokens, 1 tab, one handler of web and admin requests, one of admin requests; two deletions overlap while a token is still to be issued (`OverlapBound`) | references, handed-over sessions, refusals and deadlocks of deletions beside requests |
| `schema_migrations` | 2 keys, 2 scopes, 3 names of which two are one, 2 jobs, 2 users, 2 flows, 3 messages | names and pending tabs through upgrades, downgrades, rollbacks and collisions |

*Why the bounds are enough.* All properties relate at most two requests or two
rows that meet, so two workers (three where a third party breaks a tie, as for
keys and failures) show every race; sessions do not interact, so one is enough.
Three tokens are a parent, a child and a grandchild or a rival; the second code
is the rival of a retry. The clock runs past every lifetime with a step to
spare, and lifetimes differ so that each of the three limits of a refresh token
is the least one in some state (in `session_cleanup` and `session_tokens` the clock stops at 2,
where idle windows, codes and, by an earlier touch, refresh tokens have run out). Lock is longer than the window in
`login_throttle`, the harder case for the expiry of the bucket, and the clock lets
a block end and a second one begin. Seven commits allow the longest chain, entry, account form,
link, password form, completion, with two foreign commits in between. Batches of one put every
row into a batch of its own, so that requests come between any two of them; with
batches of two a parent and its child go together.
Two users are the least that can exchange addresses; the third party
of an exchange, a user that a document does not list, occurs because documents may
list one of the two. The two spellings separate a change of `email` from a change of
its slot. The client documents are those that decide about secrets: a confidential client with
one, a confidential client without (refused unless it has one), and one that says
neither; `bootstrap-demo` and the entry points of the API vary presence and preservation.
Documents repeat, so a worker imports over what it or the other wrote before. The four
of `realm_import` are an exchange of two addresses, an address that is respelt, one that
is cleared, and a flow that does not exist. `cleanup_ends` has one worker: its revocations and cleanup
wait for each other over two tokens, and that two requests do not wait for each other in a
circle is `NoStandstill` in `session_tokens`. A circle that the UPDATE of the links is in, not
the DELETE, needs a third token; it is ended by the same `DeadlockAbort`.
In `admin_delete` two clients are the owner of a session and the heir of it; of two
handlers one takes requests of both kinds, so that a deletion meets every kind of request
or another deletion. Two tokens are one that was exchanged and its successor, so a reuse is
detected and revokes; that its event is dropped, because the client has been deleted since the token was
read, needs a third one and is covered by the proof alone. With `OverlapBound`
two deletions still overlap in every order of their statements, but with at most one token issued. In `schema_migrations` two spellings of one
name collide and a third name does not; with two flows the ids of a flow that a
downgrade has dropped differ from those of the next one; three messages are one before, one during
and one after a run.
Symmetry is used over workers, rows and users, only in runs without liveness.

*Deadlock* is checked in the runs of SessionTokens, SessionCleanup and RealmImport. It is off where the model
really stops: a deleted realm or client, a finished or deleted tab, the last tick of a
bounded clock, the last message of a bounded supply. A circle of waiting requests is
not such a stop as long as another request can begin or a process be killed, so two
properties speak of it: `NoStandstill` (one of the requests that have begun can take
its next step, with ENABLED) and `DeadlockShape` (who can be in a circle, and at which statement).

*Fairness.* `FairSpec` of SessionTokens, RealmKeys and RealmImport assumes that a worker in the
middle of a transaction goes on (strong fairness of `Proceed(w)`): the database
executes a statement it has received and serves a lock queue in order, so a
request that waits is not overtaken for ever. No request is assumed to arrive,
no worker to fail and no clock to advance. `cleanup_ends` excuses a request that
waits for a primary key beyond the bound, `realm_keys` the same for a
key. `FairSpecWithCleanup` adds that the command is started again and again, as the
documentation asks of the operator, and that its statements are executed like
those of requests: strong fairness of its steps, of those of requests, and weak fairness
of `DeadlockAbort` (the database looks for deadlocks) and of `Recover`, which makes the worker of a failed request free again; a run may still be killed (once) at every statement.

### Properties

SessionTokens: `OneFamilyPerCode`, `NoFork`, `RotationAtomic`, `DeadSessionInert`,
`ExpiryWithinSession`, `NoStandstill`, `RevokedSessionFrozen`, `NoSilentReuse`,
`ImplementsLedger`.
RealmKeys: `OneActiveKey`, `SignedKeysStored`, `TransactionsEnd`.
LoginThrottle: `BlockAtThreshold`, `BlockHeld`, `OneLateCheck`.
BrowserFlow: `CodeAcceptedOnce`, `CompletesOnce`, `PasswordFormAfterFlow`,
`MessagePerDelivery`, `BindingFollowsMessage`, `ServedOneByOne`.
SessionCleanup: `LiveArtifactsKept`, `ClaimPinsSession`, `LinksStored`,
`RetainedForLogout`, `CleanupEnds`, `ExpiredRemoved`.
RealmImport: `ConflictNeedsRival`, `AppliesDocument`, `SecretFollowsType`,
`ImportsEnd`; `EmailsUnique` is a documented rule that does not hold, see the
findings.
AdminDelete: `ForeignKeysHold`, `SeenGrantsKept`, `RefusedOnlyIfOvertaken`,
`DeadlockShape`.
SchemaMigrations: `RefusedOnlyForCollision`, `IdentitiesNormalized`, `PositionsKnown`,
`UpgradeAsksAgain`.

Each is stated in words above its definition. The type invariants (`TypeOK`) and the
inductive invariants (`IInv`, `CleanupInv`, `WasteStays`, `Progress`) are theorems or
steps of their proofs and not properties of a run, and so are some consequences that are proved
only (`OneExchangeable`, `BindingChecked`, `SlotFollowsEmail`, `WaitsInOrder`, `SomeoneGoesOn`); before they were proved, TLC checked
them on the bounds above. The `TypeOK` of SchemaMigrations is a part of `PositionsKnown`,
that of AdminDelete of `ForeignKeysHold`.

For every property there is a mutant in the module, an operator named
`<Definition>_<Bug>`, and `PROJECT.json` pairs them: put in place of the
definition, it makes TLC report that property.

## Findings

1. **`AllFamiliesRevoked`** (run `families_revoked`). `revoke_session` promises to
   revoke "a realm session and all its families". A code grant that has read the
   session before the revocation inserts its first token after it, and that row
   is left unrevoked. `DeadSessionInert` shows the extent: only a first token
   that can never be rotated, on a session every check rejects.
2. **`InactiveStaysUnusable`** (run `revived_session`). The docstring of
   `cleanup_expired`: "Children of inactive sessions are unusable even if their own
   expiry is later." Inactive by idle expiry is not final. `UserSessionService.reuse`
   reads a session and later writes an expiry counted from the time of the read, by
   primary key alone: a slow browser request moves the expiry back over a refresh that
   committed meanwhile, so the new refresh token outlives its session, and a second one
   that read the session before it expired makes it good again. If the DELETE of cleanup
   takes its snapshot in between, it removes a refresh token that is unexpired, unrevoked
   and of a usable session. `LiveArtifactsKept` shows that nothing else is lost: only
   children of a session in `revived`. The attempt to prove it without that exception
   is what exposed it; one code and two tokens are too few for the trace.
3. **`EmailsUnique`** (run `emails_unique`). "Usernames, client IDs, and nonempty
   emails must be unique within a realm after normalization." The constraint is on
   `email_normalized`. An import that only respells an address writes `email` alone;
   if another import has moved the user to a new address in between, the user ends
   with the old address in `email` and the new one in `email_normalized`, and the old
   one is free for someone else. The theorem `SlotFollows` shows that it takes two imports:
   one that is not overtaken keeps the columns in step.

Some limits of what holds are in the models and are not runs of their own.

- "A block lasts a fixed interval from the threshold failure"
  (`security/login_throttling.py`) is meant of failures: `clear` deletes the bucket
  unconditionally, as the documentation says, so a success that was checked before the
  threshold failure ends the block. `BlockHeld` shows that nothing else does.
- `SecretFollowsType` speaks of imports that are not overtaken: one that
  replaces a secret and omits the type writes it as well if another has made the client
  public since it read it; authentication never uses that hash.
- `delete_client` decides from one read which sessions move to another client. A grant of
  another client that is committed between that read and the DELETEs goes with the
  session, and the session may move to a client that is being deleted itself, in which case one of the two
  deletions waits for the other. `SeenGrantsKept` states what is left: what the read saw is kept.
- Two deletions can wait for each other, and so can a deletion and an SSO (it holds the
  client of its tab and asks for the session), a refresh, a logout or a defensive revocation
  (session, then tokens; the deletion locks them the other way round), and with
  `delete_realm` any insert (it holds the realm and asks for its client): `DeadlockShape`.
  Cleanup and a revocation lock tokens in no common order and can wait for each other as well
  (`Deadlocked`). PostgreSQL ends one of the two; a request that is the victim is
  answered with a server error and no change, so a logout or the revocation after a detected
  reuse has to be asked for again.

## Proofs

Each `*_proofs` module proves its properties for every number of workers, rows
and every lifetime or threshold, from the named assumptions of the module
(lifetimes are positive, `None` is no key); GrantLedger, which is short, holds its own.
The argument is the same in all:
`Invariance` proves `Spec => []IInv` (with the type invariant), one step per
action, and the other theorems follow from it.

- **GrantLedger**. `Lineage` (the founder of a family is an entry too, and two entries
  of one code are of one family) with `OneTip` is inductive: `LedgerHasOneTip`.
- **Session_proofs**, requests among themselves. `IInv` adds to the properties: `RowsLinked` (foreign
  keys, and a token agrees with its family), `RequestsLinked` (a request works on
  existing rows of one session), `LocksExclusive` and `ChecksHold` (what was
  checked under a lock stays true until the transaction ends). The last two are
  what makes `NoFork` inductive: without the session lock two refreshes could
  both hold a token they found unused. `RevocationIsFinal` and `ReuseNeverSilent`
  are step properties proved from it. `TablesAreALedger` is the refinement: by `IInv`
  every commit maps to one step of the ledger, and `AbsentBlank` (a row that was never
  written is blank, so an entry appears exactly when its row does) is the only thing it needs
  besides. With `LedgerHasOneTip` it gives `OneExchangeable`, the ledger's promise in
  terms of the tables. `HoldersNeverWait`
  is about locks: a request that holds one has all it will ever need, since a session is
  locked before its token, so nobody waits for a request that waits, and of those under
  way one can always go on (`RequestsGoOn`, for any number of workers).
- **RealmKeys_proofs**. `LockExclusive` and `LockedReads`: the realm lock has one
  holder, and the active key that holder read is still the active one. Deletion
  does not take that lock first; `KeysNeedRealm` covers it. `TablesAreAKeyRing` is the
  refinement of KeyRing: each commit is one of its steps, though its statements were
  executed at different times. Besides `IInv` it needs `RotatesEnabled`: the realm that
  a rotation has locked is neither disabled nor deleted before its commit.
  `OnlyNamedPairsDeadlock` gives each statement a `Distance` from the release of the
  transaction's locks and proves that it falls from every waiting transaction to the one it waits for
  (`WaitsInOrder`), except between a rotation and the deletion of its key. So every
  circle, of any length, contains a pair that `Deadlocked`, the guard of `DeadlockAbort`,
  names, and `TransactionsGoOn` follows: while transactions are under way, one of them
  waits for nobody or is about to be aborted.
- **LoginThrottle_proofs**. `BlockWithinExpiry`: cleanup cannot take a bucket
  whose block is in force.

- **Session_proofs**, beside cleanup. The lemmas about requests are stated conjunct by
  conjunct, so they are used again for `SpecWithCleanup`; only `Replaced`, the
  half of `RotationAtomic` that speaks of links, does not survive cleanup, and
  `NoFork` needs no more than the other half. `CleanDeleteEffect` says what a
  committed batch does to each field of each row. `CleanupInv` adds that a run's
  cutoff lies in the past, that a stored code has its session, and that a claim
  pins both. From it follow `RetentionForLogout`, `ClaimsPinSessions`, `NoLinkDangles` and
  `LedgerBesideCleanup`. A step of a request beside cleanup is one of `Next` under more guards, so
  nothing is proved twice; `LocksApart` (a token is locked by one side only) is what lets
  cleanup's locks and a revocation's stay out of the other lemmas. Keys of different tables are assumed to be different.
  `LiveArtifactsStay` needs one more invariant, `WasteStays`: the sessions that a DELETE
  has found inactive are still `Spent` when it decides, and so is whatever earlier
  batches removed. It is inductive because nothing a row has lost comes back
  (`NothingRecovers`: revoked, consumed, expired, gone), but for an idle expiry, and
  `revived` records that. It holds for all lifetimes, codes that outlive an idle window included.

- **RealmImport_proofs**. `IInv` says that, until another import commits
  (`overtaken`), what an import has read is still what is stored (`ReadsHold`), and
  what it has written is, user by user and client by client, the part of the validated
  outcome that is no longer left to do (`UserProgress`, `ClientProgress`).
  `SlotsAreFinal` is the heart of it: once the slots are released, every user's
  slot is empty or the one it will have at the end. As the outcome has no slot twice
  (`EmailError`), no statement can be refused (`NoSlotConflict`). The step
  properties are read off the progress at the commit. Progress is stated with the
  operators of `Applies`: what is written so far is `AppliedUser` or `AppliedClient` of the
  tables as they were read, and at the commit nothing is left. `ImportIsAtomic`
  is then `ReadsHold` once more: read and stored are the same. `SecretFollows` needs only
  the document's outcome (`AppliedFits`), not the order of statements. `ImportsGoOn` is about locks.
  Within a flush the ORM's order is total enough that there is always a next statement
  (`StatementDue`, from `FlushOrder`: clients are still to be written only while at most one user
  has been), and whoever holds a lock that is waited for is itself in a transaction
  that goes on (`BlockersInFlight`). If everybody waits, the waiting
  contains a circle in the sense of `DeadlockAbort`. Documents, spellings and rows
  are arbitrary sets, rows of natural numbers (the order of primary keys in a flush; the least one exists by
  the well-foundedness of `<`); `Fold` is any function.

- **BrowserFlow_proofs**. `Move` says what a handler may make of a tab it has loaded:
  which codes, which status and notes, and which message it may use. `Due` says that of a request
  in flight: if the version it loaded is still the stored one, what it will commit is such a
  move. `Pending` and `Finished` describe a tab in the reset flow and one that has been
  completed. A commit replaces the stored version, so every other request stops being
  `Due`: that is why a code is accepted once, a tab completes once, a delivery has
  one message, and the binding and the message change in one step. The operators of the flow
  have one lemma each, from `Traverse` up to the handlers. `TabIsServedOneByOne` is the
  refinement of the abstract tab and needs one more invariant, `StillAnswers`: as long as
  the version a request has loaded is the stored one, its answer is one that a handler could give to the tab
  now. It is inductive because every commit, whatever it writes, changes the version, and what a
  handler reads beside the row, the messages, changes only in such commits.

- **AdminDelete_proofs**. `IInv` is `TypeOK`, the references, and two predicates about
  the transactions under way. `Solo` is what is true of each alone: `ShapeOK` (its fields fit
  its statement), `ParentsStored` (a request holds the parents it refers to), `MovesStored`
  (what the look saw), `SessionsEmptied` and `ClientsEmptied` (after its
  statement, a deletion has left no row below what it deletes), `SeenHandedOver`. `Apart`
  is what is true of each pair: what a deletion has written is nothing that another
  transaction `Relies` on. The lemmas show that `Blockers(w) = {}`, the guard of
  every statement, gives `Apart` for the rows that it takes, and that a commit keeps the
  `Solo` of all others. `KeysAssumption` says that the keys of different tables differ.
  A second invariant, `Progress`, turns this round: a deletion that is not `overtaken` has,
  after each of its statements, found *all* rows it had to find by then (`UpToDate`). So
  nothing is left for a foreign key to refuse (`OnlyTheOvertakenAreRefused`): the order of
  the statements is right for every database. `RequestsKeepInLine` orders the
  statements of the requests: the UPDATE of a session, then of codes, tokens or a tab, then
  the INSERT. One that waits is behind the one it waits for, SSO too: the client
  it has shared before is one that no other request waits for. So every circle, of any length, contains a
  deletion (`DeletionInCircle`), and of a request in it somebody must wait and it must wait
  for somebody: `RequestInCircle` leaves the statements that `DeadlockShape` lists. An
  INSERT waits for no deletion that has yet to remove the clients (`NoInsertWaits`), so the
  statement that is left to wait for it is the DELETE of the realm. Together they are `DeadlocksNeedDeletion`.

- **SchemaMigrations_proofs**. `IInv` has three parts. `RunOK`: a run that touches
  revision 0005 has the tables to itself from its LOCK TABLE to its commit, so the
  normalized names it has computed (`SeenOK`) are still those of the rows, and a run that
  gave up did see a collision that is there. `NamesOK`: where the column exists a name is taken
  once in its scope, the uncommitted rows of jobs included. `TabOK`: flows
  and messages are numbered as they are created, and a tab of the old release has no
  action and no linked message, which is why the first page after an upgrade is never
  beyond the mail (`UpgradesAskAgain`). What the new release makes of a tab is proved
  operator by operator of BrowserFlow's flow, for any position. `Normal`, the normalization of names, is any
  function; `None` is no user and no write, `MaxFlows` a natural number.

Left to TLC: liveness (`TransactionsEnd`, `ImportsEnd`, `CleanupEnds`,
`ExpiredRemoved`) and `NoStandstill`, since fairness and ENABLED are out of the prover's
reach; `RequestsGoOn`, `TransactionsGoOn` and `ImportsGoOn` prove the part of them that is about
locks, that somebody can always go on, for any number of workers. Also left are the
properties of the findings, which do not hold. Every other property of a run is a theorem.

## Not modelled

- *Pure functions and read-only pages*: import validation beyond the rules that RealmImport
  names, password policy, password and key cryptography, forms, headers, discovery,
  userinfo, health, logging and configuration. They have no order and no shared state.
- *Audit events*: what they say is written and never read; the models name the commit they belong
  to, and AdminDelete has their links to clients and sessions.
- *Mail*: an external SMTP server.
- *Imports*: credentials (the password of a user is replaced in the flush of that user and
  under its row lock); the reset flow an import provisions (`ensure_reset_flow`, and
  `copy_flow` of the API: a check and an insert in the caller's transaction, behind the unique
  realm and alias that lets one of two win); an import beside a deletion.
- *Administration*: listings and counts, and the refusal to delete the master realm and
  `admin-cli`, which looks at a name that never changes.
- *Flow engine*: `processor.py` refuses an execution that is not REQUIRED, so there is no
  alternative or conditional traversal. A copied flow may order
  or repeat the authenticators in ways BrowserFlow does not have.
- *Migrations* that only add tables or columns, and the SQLite branch of the others, where
  a run has the database to itself.
- The in-memory store of `store.py`, which only tests use.

## Plan

Done, each with runs and proofs: SessionTokens as a refinement of GrantLedger,
RealmKeys of KeyRing, BrowserFlow of a tab served one by one, RealmImport of atomic
applications of documents; LoginThrottle, SessionCleanup, AdminDelete, SchemaMigrations.

What is left:

1. Credentials and flows in RealmImport, then an import beside a deletion.
2. Which rows a circle of imports is about, as `WaitsInOrder` says for keys: an import of
   several new users and one of the same users can meet in more than one way.
3. Copied flows in BrowserFlow: executions as a constant sequence.
