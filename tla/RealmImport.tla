------------------------------ MODULE RealmImport ------------------------------
(***************************************************************************)
(* Imports into one realm: an operator's file, the administration API and  *)
(* the demo bootstrap, as concurrent transactions (PostgreSQL READ         *)
(* COMMITTED).  An import reads what is stored, validates the document     *)
(* against it and writes afterwards, column by column, with no lock on     *)
(* what it has read until it writes there.                                 *)
(*                                                                         *)
(* realm, users and clients hold committed rows; req[w] holds the versions *)
(* that w has written and not committed.                                   *)
(***************************************************************************)
EXTENDS Naturals, FiniteSets

CONSTANTS
    User,      \* normalized usernames, numbered in the order of primary keys
    Client,    \* normalized client ids, numbered likewise
    Spelling,  \* addresses as they are written
    Address,   \* addresses after casefold
    Fold,      \* casefold
    Document,  \* the documents that arrive
    Worker,    \* processes that import
    None       \* NULL, or a row that w has not written

VARIABLES
    realm,     \* is the realm stored
    users,     \* table users: its two address columns
    clients,   \* table clients: its type, and whether it has a secret hash
    req        \* the import each worker runs

vars == <<realm, users, clients, req>>

-----------------------------------------------------------------------------
(* Rows and documents.                                                      *)

UserRow   == [stored : BOOLEAN, email : Spelling \cup {None}, slot : Address \cup {None}]
ClientRow == [stored : BOOLEAN, public : BOOLEAN, secret : BOOLEAN]

NoUser   == [stored |-> FALSE, email |-> None, slot |-> None]
NoClient == [stored |-> FALSE, public |-> TRUE, secret |-> FALSE]

NoUsers   == [u \in User |-> NoUser]
NoClients == [c \in Client |-> NoClient]

Normalized(email) == IF email = None THEN None ELSE Fold[email]

\* A listed entity.  `present`: the document has the field "email" (for a user)
\* or "publicClient" (for a client); otherwise the value is the default.
UserEntry   == [email : Spelling \cup {None}, present : BOOLEAN]
ClientEntry == [public : BOOLEAN, present : BOOLEAN, secret : BOOLEAN]

\* `fields`: other columns of the realm and of the listed rows change as well.
\* `flowKnown`: resetCredentialsFlow is omitted or names a stored flow.
WellFormed(d) ==
    /\ d \in [fields : BOOLEAN, flowKnown : BOOLEAN,
              users : UNION {[S -> UserEntry] : S \in SUBSET User},
              clients : UNION {[S -> ClientEntry] : S \in SUBSET Client}]
    \* _Validator.entities: no address twice
    /\ \A u, v \in DOMAIN d.users :
         u # v /\ Normalized(d.users[u].email) = Normalized(d.users[v].email)
            => d.users[u].email = None

ASSUME ConstantAssumption ==
    /\ User \subseteq Nat /\ Client \subseteq Nat
    /\ Fold \in [Spelling -> Address]
    /\ None \notin Spelling \cup Address \cup UserRow \cup ClientRow
    /\ \A d \in Document : WellFormed(d)

\* _Validator.client: the rules for secrets that need no stored row.
SecretsValid(d, update) ==
    \A c \in DOMAIN d.clients :
        LET e == d.clients[c] IN
        /\ e.secret /\ e.public => update /\ ~e.present
        /\ ~e.secret /\ ~e.public => update

\* ensure_demo_realm: existing entities keep what they have.
WithoutPresence(d) ==
    [d EXCEPT !.users = [u \in DOMAIN d.users |-> [d.users[u] EXCEPT !.present = FALSE]],
              !.clients = [c \in DOMAIN d.clients |-> [d.clients[c] EXCEPT !.present = FALSE]]]

Documents == Document \cup {WithoutPresence(d) : d \in Document}

-----------------------------------------------------------------------------
(* Requests.                                                                *)

InFlight == {"clients", "users", "realm", "flush", "commit", "conflict"}
LockMode == {"insert", "share", "nokey", "update"}

\* seen: what the import has read.  free, usersLeft, clientsLeft: address slots
\* to release and entities to write.  users, clients: rows written so far.
\* overtaken: another import has committed since this one began.
Request ==
    [pc : InFlight \cup {"idle"}, doc : Documents \cup {None},
     createOnly : BOOLEAN, preserve : BOOLEAN,
     seen : [realm : BOOLEAN, users : [User -> UserRow], clients : [Client -> ClientRow]],
     free : SUBSET User, usersLeft : SUBSET User, clientsLeft : SUBSET Client,
     users : [User -> UserRow \cup {None}], clients : [Client -> ClientRow \cup {None}],
     locks : SUBSET LockMode, overtaken : BOOLEAN]

NoRequest ==
    [pc |-> "idle", doc |-> None, createOnly |-> FALSE, preserve |-> FALSE,
     seen |-> [realm |-> FALSE, users |-> NoUsers, clients |-> NoClients],
     free |-> {}, usersLeft |-> {}, clientsLeft |-> {},
     users |-> [u \in User |-> None], clients |-> [c \in Client |-> None],
     locks |-> {}, overtaken |-> FALSE]

Goto(w, r) == req' = [req EXCEPT ![w] = r]
Finish(w)  == Goto(w, NoRequest)

\* The database refuses the statement: everything is rolled back.
Conflict(w) ==
    Goto(w, [NoRequest EXCEPT !.pc = "conflict", !.overtaken = req[w].overtaken])

Version(r, u) == IF r.users[u] = None THEN users[u] ELSE r.users[u]
ClientVersion(r, c) == IF r.clients[c] = None THEN clients[c] ELSE r.clients[c]

-----------------------------------------------------------------------------
(* Locks.  Each is held to the end of the transaction.                      *)

\* Locks on the realm: its insert, FOR KEY SHARE by rows that refer to it,
\* FOR NO KEY UPDATE by an update of its fields, FOR UPDATE by lock_realm.
ConflictsWith(mode) ==
    CASE mode = "insert" -> {"insert"}
      [] mode = "share"  -> {"update"}
      [] mode = "nokey"  -> {"nokey", "update"}
      [] mode = "update" -> LockMode \ {"insert"}

RealmBlockers(w, mode) ==
    {v \in Worker \ {w} : req[v].locks \cap ConflictsWith(mode) # {}}

\* A row, or the primary of a unique key that is being inserted.
UserBlockers(w, u)   == {v \in Worker \ {w} : req[v].users[u] # None}
ClientBlockers(w, c) == {v \in Worker \ {w} : req[v].clients[c] # None}

\* Whether an address is taken is open while a row that has it, or had it, is
\* being changed.
SlotBlockers(w, a) ==
    {v \in Worker \ {w} :
        \E u \in User : /\ req[v].users[u] # None
                        /\ a # None /\ a \in {users[u].slot, req[v].users[u].slot}}

SlotTaken(w, u, a) == a # None /\ \E v \in User \ {u} : Version(req[w], v).slot = a

-----------------------------------------------------------------------------
Init ==
    /\ realm = FALSE
    /\ users = NoUsers
    /\ clients = NoClients
    /\ req = [w \in Worker |-> NoRequest]

\* realms_with_normalized_name; without --update a stored realm is refused.
Import(w, d, update, createOnly, preserve, loaded) ==
    /\ req[w].pc = "idle"
    /\ realm => update
    /\ Goto(w, [NoRequest EXCEPT !.pc = "clients", !.doc = d, !.createOnly = createOnly,
                                 !.preserve = preserve, !.seen.realm = realm,
                                 !.seen.clients = loaded])
    /\ UNCHANGED <<realm, users, clients>>

\* POST of a realm, and the command realm-import.
CreateRealm(w, d) == SecretsValid(d, FALSE) /\ Import(w, d, FALSE, FALSE, FALSE, NoClients)

\* PUT of a realm, and realm-import --update (which creates a missing realm).
UpdateRealm(w, d) == SecretsValid(d, TRUE) /\ Import(w, d, TRUE, FALSE, FALSE, NoClients)

IsClientDocument(d) ==
    Cardinality(DOMAIN d.clients) = 1 /\ DOMAIN d.users = {} /\ d.flowKnown

\* POST of a client: validated as new, imported as an update of the realm.
CreateClient(w, d) ==
    /\ realm /\ IsClientDocument(d) /\ SecretsValid(d, FALSE)
    /\ Import(w, d, TRUE, TRUE, FALSE, NoClients)

\* PUT of a client: its row is loaded here, and the session keeps the values.
UpdateClient(w, d) ==
    /\ realm /\ IsClientDocument(d) /\ SecretsValid(d, TRUE)
    /\ \A c \in DOMAIN d.clients : clients[c].stored
    /\ Import(w, d, TRUE, FALSE, FALSE, [c \in Client |-> IF c \in DOMAIN d.clients
                                                        THEN clients[c] ELSE NoClient])

\* bootstrap-demo
Bootstrap(w, d) ==
    SecretsValid(d, FALSE) /\ Import(w, WithoutPresence(d), TRUE, FALSE, TRUE, NoClients)

Start(w) ==
    \E d \in Document :
        \/ CreateRealm(w, d) \/ UpdateRealm(w, d)
        \/ CreateClient(w, d) \/ UpdateClient(w, d) \/ Bootstrap(w, d)

-----------------------------------------------------------------------------
(* _preflight                                                               *)

\* Mutant: a secret is required of new clients only.
ClientError_NewOnly(e, row, preserve) ==
    IF (IF row.stored /\ ~e.present THEN row.public ELSE e.public)
    THEN e.secret ELSE ~e.secret /\ ~row.stored

\* A secret for a client that is or becomes public, or none for a confidential
\* one that has none.
ClientError(e, row, preserve) ==
    IF (IF row.stored /\ ~e.present THEN row.public ELSE e.public)
    THEN e.secret
    ELSE ~e.secret /\ (~row.stored \/ (~preserve /\ ~row.secret))

\* The users to whom the document gives an address (or none).
Readdressed(d, rows) == {u \in DOMAIN d.users : d.users[u].present \/ ~rows[u].stored}

FinalSlot(d, rows, u) ==
    IF u \in Readdressed(d, rows) THEN Normalized(d.users[u].email) ELSE rows[u].slot

\* The final ownership of addresses, unlisted users included.
EmailError(d, rows) ==
    \E u \in Readdressed(d, rows), v \in User :
        /\ u # v
        /\ FinalSlot(d, rows, u) # None /\ FinalSlot(d, rows, u) = FinalSlot(d, rows, v)

\* list_clients: a row that is loaded already is not refreshed, and a realm that
\* was not there has none.
ReadClients(w) ==
    /\ req[w].pc = "clients"
    /\ Goto(w, [req[w] EXCEPT
                  !.pc = "users",
                  !.seen.clients = [c \in Client |->
                      IF @[c].stored \/ ~req[w].seen.realm THEN @[c] ELSE clients[c]]])
    /\ UNCHANGED <<realm, users, clients>>

Refused(d, createOnly, preserve, seen) ==
    \/ \E c \in DOMAIN d.clients :
         \/ createOnly /\ seen.clients[c].stored
         \/ ClientError(d.clients[c], seen.clients[c], preserve)
    \/ EmailError(d, seen.users)

\* Mutant: no slot is released before the new owners are written.
SlotsToRelease_None(d, rows) == {}

\* Stored users whose address changes give up their slots first.
SlotsToRelease(d, rows) ==
    {u \in DOMAIN d.users : /\ rows[u].stored /\ d.users[u].present
                            /\ rows[u].slot \notin {None, Normalized(d.users[u].email)}}

\* list_users, and the checks on all that was read.  The password policy is left
\* out: a document that fails it ends here like one with another error.
ReadUsers(w) ==
    /\ req[w].pc = "users"
    /\ LET d == req[w].doc
           seen == [req[w].seen EXCEPT !.users = IF req[w].seen.realm THEN users ELSE @]
       IN IF Refused(d, req[w].createOnly, req[w].preserve, seen)
          THEN Finish(w)
          ELSE Goto(w, [req[w] EXCEPT
                 !.pc = "realm", !.seen = seen,
                 !.free = SlotsToRelease(d, seen.users),
                 !.usersLeft = DOMAIN d.users, !.clientsLeft = DOMAIN d.clients])
    /\ UNCHANGED <<realm, users, clients>>

-----------------------------------------------------------------------------
(* import_realm: the first flush, the realm and the released slots.         *)

Locked(w, mode) == [req[w] EXCEPT !.locks = @ \cup {mode}]

\* The row of a new realm waits for other creators and is refused if there is
\* one; a known realm is written when a field of it changes.
WriteRealm(w) ==
    /\ req[w].pc = "realm"
    /\ IF ~req[w].seen.realm
       THEN /\ RealmBlockers(w, "insert") = {}
            /\ IF realm THEN Conflict(w)
                        ELSE Goto(w, [Locked(w, "insert") EXCEPT !.pc = "flush"])
       ELSE IF req[w].doc.fields
            THEN /\ RealmBlockers(w, "nokey") = {}
                 /\ Goto(w, [Locked(w, "nokey") EXCEPT !.pc = "flush"])
            ELSE Goto(w, [req[w] EXCEPT !.pc = "flush"])
    /\ UNCHANGED <<realm, users, clients>>

\* One flush updates its rows in the order of their keys.
ReleaseSlot(w, u) ==
    /\ req[w].pc = "flush"
    /\ u \in req[w].free /\ \A v \in req[w].free : u <= v
    /\ UserBlockers(w, u) = {}
    /\ Goto(w, [req[w] EXCEPT !.free = @ \ {u},
                              !.users[u] = [Version(req[w], u) EXCEPT !.slot = None]])
    /\ UNCHANGED <<realm, users, clients>>

-----------------------------------------------------------------------------
(* _apply_client and _apply_user, with the flush that writes them.          *)

\* Clients wait for the next flush, which comes with the first user.
ClientsTurn(w) ==
    /\ req[w].pc = "flush" /\ req[w].free = {}
    /\ Cardinality(DOMAIN req[w].doc.users \ req[w].usersLeft) <= 1

UsersTurn(w) ==
    /\ req[w].pc = "flush" /\ req[w].free = {}
    /\ req[w].clientsLeft = {} \/ req[w].usersLeft = DOMAIN req[w].doc.users

CreatedClient(e) == [stored |-> TRUE, public |-> e.public, secret |-> e.secret]

InsertClient(w, c) ==
    /\ ClientsTurn(w)
    /\ c \in req[w].clientsLeft /\ ~req[w].seen.clients[c].stored
    /\ \A b \in req[w].clientsLeft : ~req[w].seen.clients[b].stored  \* updates go first
    /\ ClientBlockers(w, c) = {} /\ RealmBlockers(w, "share") = {}
    /\ IF clients[c].stored
       THEN Conflict(w)
       ELSE Goto(w, [Locked(w, "share") EXCEPT
                       !.clientsLeft = @ \ {c},
                       !.clients[c] = CreatedClient(req[w].doc.clients[c])])
    /\ UNCHANGED <<realm, users, clients>>

\* The ORM writes the columns whose value differs from what was loaded.
UpdatedClient(e, seen, row, preserve) ==
    LET public == IF e.present THEN e.public ELSE seen.public IN
    [row EXCEPT !.public = IF public # seen.public THEN public ELSE @,
                !.secret = IF preserve THEN @
                           ELSE IF public THEN (IF seen.secret THEN FALSE ELSE @)
                           ELSE IF e.secret THEN TRUE ELSE @]

\* Whether the UPDATE has any column; a new secret has a new hash.
ClientChanges(w, c) ==
    LET e == req[w].doc.clients[c]
        s == req[w].seen.clients[c]
    IN \/ req[w].doc.fields
       \/ UpdatedClient(e, s, s, req[w].preserve) # s
       \/ e.secret /\ ~req[w].preserve

UpdateClientRow(w, c) ==
    /\ ClientsTurn(w)
    /\ c \in req[w].clientsLeft /\ req[w].seen.clients[c].stored
    /\ \A b \in req[w].clientsLeft : req[w].seen.clients[b].stored => c <= b
    /\ IF ClientChanges(w, c)
       THEN /\ ClientBlockers(w, c) = {}
            /\ Goto(w, [req[w] EXCEPT
                          !.clientsLeft = @ \ {c},
                          !.clients[c] = UpdatedClient(req[w].doc.clients[c],
                                            req[w].seen.clients[c], clients[c], req[w].preserve)])
       ELSE Goto(w, [req[w] EXCEPT !.clientsLeft = @ \ {c}])
    /\ UNCHANGED <<realm, users, clients>>

CreatedUser(e) == [stored |-> TRUE, email |-> e.email, slot |-> Normalized(e.email)]

InsertUser(w, u) ==
    /\ UsersTurn(w)
    /\ u \in req[w].usersLeft /\ ~req[w].seen.users[u].stored
    /\ LET row == CreatedUser(req[w].doc.users[u]) IN
       /\ UserBlockers(w, u) \cup SlotBlockers(w, row.slot) = {}
       /\ RealmBlockers(w, "share") = {}
       /\ IF users[u].stored \/ SlotTaken(w, u, row.slot)
          THEN Conflict(w)
          ELSE Goto(w, [Locked(w, "share") EXCEPT !.usersLeft = @ \ {u}, !.users[u] = row])
    /\ UNCHANGED <<realm, users, clients>>

\* Mutant: the spelling is written, the slot stays released.
UpdatedUser_NoSlot(e, seen, row) ==
    [row EXCEPT !.email = IF e.present /\ e.email # seen.email THEN e.email ELSE @]

\* An address that only changes its spelling leaves the slot alone.
UpdatedUser(e, seen, row) ==
    [row EXCEPT !.email = IF e.present /\ e.email # seen.email THEN e.email ELSE @,
                !.slot = IF e.present /\ Normalized(e.email) # seen.slot
                         THEN Normalized(e.email) ELSE @]

UserChanges(w, u) ==
    LET e == req[w].doc.users[u]
        s == req[w].seen.users[u]
    IN req[w].doc.fields \/ UpdatedUser(e, s, s) # s

UpdateUserRow(w, u) ==
    /\ UsersTurn(w)
    /\ u \in req[w].usersLeft /\ req[w].seen.users[u].stored
    /\ LET seen == req[w].seen.users[u]
           old == Version(req[w], u)
           row == UpdatedUser(req[w].doc.users[u], seen, old)
       IN IF ~UserChanges(w, u)
          THEN Goto(w, [req[w] EXCEPT !.usersLeft = @ \ {u}])
          ELSE /\ UserBlockers(w, u) = {}
               /\ row.slot # old.slot => SlotBlockers(w, row.slot) = {}
               /\ IF row.slot # old.slot /\ SlotTaken(w, u, row.slot)
                  THEN Conflict(w)
                  ELSE Goto(w, [req[w] EXCEPT !.usersLeft = @ \ {u}, !.users[u] = row])
    /\ UNCHANGED <<realm, users, clients>>

-----------------------------------------------------------------------------
(* The rest of import_realm, and the caller's commit.                       *)

AllWritten(w) ==
    req[w].pc = "flush" /\ req[w].free \cup req[w].usersLeft \cup req[w].clientsLeft = {}

\* Mutant: the realm is locked by a connection of its own.
LockRealm_OwnTransaction(w) ==
    /\ AllWritten(w)
    /\ \A v \in Worker : req[v].locks = {}
    /\ Goto(w, [Locked(w, "update") EXCEPT !.pc = "commit"])
    /\ UNCHANGED <<realm, users, clients>>

\* ensure_active_key locks the realm.  Then comes the alias of the flow, the one
\* check made after rows were written.
LockRealm(w) ==
    /\ AllWritten(w)
    /\ RealmBlockers(w, "update") = {}
    /\ IF req[w].doc.flowKnown
       THEN Goto(w, [Locked(w, "update") EXCEPT !.pc = "commit"])
       ELSE Finish(w)
    /\ UNCHANGED <<realm, users, clients>>

\* Written rows replace the stored ones.
Commit(w) ==
    /\ req[w].pc = "commit"
    /\ realm' = TRUE
    /\ users' = [u \in User |-> Version(req[w], u)]
    /\ clients' = [c \in Client |-> ClientVersion(req[w], c)]
    /\ req' = [v \in Worker |-> IF v = w THEN NoRequest
                                ELSE IF req[v].pc = "idle" THEN req[v]
                                ELSE [req[v] EXCEPT !.overtaken = TRUE]]

\* The caller reports the failure.
Report(w) ==
    /\ req[w].pc = "conflict"
    /\ Finish(w)
    /\ UNCHANGED <<realm, users, clients>>

\* Hashing, encryption, the connection or the process fails: rollback.
Fail(w) ==
    /\ req[w].pc \in InFlight \ {"conflict"}
    /\ Finish(w)
    /\ UNCHANGED <<realm, users, clients>>

\* The workers that hold what w's next statement may need.
Blockers(w) ==
    CASE req[w].pc = "realm" ->
           RealmBlockers(w, IF req[w].seen.realm THEN "nokey" ELSE "insert")
      [] AllWritten(w) -> RealmBlockers(w, "update")
      [] req[w].pc = "flush" /\ ~AllWritten(w) ->
           UNION ({UserBlockers(w, u) : u \in req[w].free \cup req[w].usersLeft}
                  \cup {SlotBlockers(w, Normalized(req[w].doc.users[u].email)) :
                          u \in req[w].usersLeft}
                  \cup {ClientBlockers(w, c) : c \in req[w].clientsLeft}
                  \cup {RealmBlockers(w, "share")})
      [] OTHER -> {}

\* Imports that wait for each other: the database ends one of them.  Two that
\* both inserted a row share the realm, which each then wants for itself.
DeadlockAbort(w) ==
    /\ \E S \in SUBSET Worker : w \in S /\ \A v \in S : Blockers(v) \cap S # {}
    /\ Finish(w)
    /\ UNCHANGED <<realm, users, clients>>

Proceed(w) ==
    \/ ReadClients(w) \/ ReadUsers(w) \/ WriteRealm(w)
    \/ \E u \in User : ReleaseSlot(w, u) \/ InsertUser(w, u) \/ UpdateUserRow(w, u)
    \/ \E c \in Client : InsertClient(w, c) \/ UpdateClientRow(w, c)
    \/ LockRealm(w) \/ Commit(w) \/ Report(w) \/ DeadlockAbort(w)

Next == \E w \in Worker : Start(w) \/ Proceed(w) \/ Fail(w)

Spec == Init /\ [][Next]_vars

\* Statements execute, lock queues are served in order, deadlocks are found.
FairSpec == Spec /\ \A w \in Worker : SF_vars(Proceed(w))

-----------------------------------------------------------------------------
(* Properties.                                                              *)

\* Every variable is well formed.
TypeOK ==
    /\ realm \in BOOLEAN
    /\ users \in [User -> UserRow]
    /\ clients \in [Client -> ClientRow]
    /\ req \in [Worker -> Request]

\* A document that passed validation is never refused by a unique constraint,
\* exchanges of addresses included, unless another import committed since this
\* one began: _preflight checks the final ownership, and the slots that change
\* are released before the first is taken (realm_import.py:95-102).
ConflictNeedsRival ==
    \A w \in Worker : req[w].pc = "conflict" => req[w].overtaken

\* w commits and has not been overtaken.
CommitsAlone(w) ==
    req[w].pc = "commit" /\ ~req[w].overtaken /\ req'[w].pc = "idle"

\* A public client has no secret and a confidential one has one.
SecretFits(row) == row.stored => row.secret = ~row.public

\* Whatever an import does to a client's type and secret, given, omitted or
\* preserved, it leaves a fitting pair as a fitting pair, unless it was overtaken
\* (the effective type in _preflight, and _apply_client, agree).
SecretFollowsType ==
    [][\A w \in Worker : CommitsAlone(w) =>
         \A c \in Client : SecretFits(clients[c]) => SecretFits(clients'[c])]_vars

\* The unique column holds the normalized form of the address.
SlotFits(row) == row.slot = Normalized(row.email)

\* An import that was not overtaken leaves both address columns of a user in
\* step, whether it releases, keeps, respells or clears the address.
SlotFollowsEmail ==
    [][\A w \in Worker : CommitsAlone(w) =>
         \A u \in User : SlotFits(users[u]) => SlotFits(users'[u])]_vars

\* What a document makes of the rows it is applied to as a whole.
AppliedUser(d, rows, u) ==
    IF u \in Readdressed(d, rows) THEN CreatedUser(d.users[u]) ELSE rows[u]

AppliedClient(d, rows, c, preserve) ==
    IF c \notin DOMAIN d.clients THEN rows[c]
    ELSE IF ~rows[c].stored THEN CreatedClient(d.clients[c])
    ELSE LET e == d.clients[c]
             public == IF e.present THEN e.public ELSE rows[c].public
         IN [stored |-> TRUE, public |-> public,
             secret |-> IF preserve THEN rows[c].secret
                        ELSE ~public /\ (e.secret \/ rows[c].secret)]

Applies(r) ==
    /\ ~Refused(r.doc, r.createOnly, r.preserve, [users |-> users, clients |-> clients])
    /\ realm'
    /\ users' = [u \in User |-> AppliedUser(r.doc, users, u)]
    /\ clients' = [c \in Client |-> AppliedClient(r.doc, clients, c, r.preserve)]

\* An import is all or nothing, and one that was not overtaken is one atomic
\* application of its document: whatever others wrote or rolled back meanwhile,
\* the document is still valid and the tables become what it makes of them as a
\* whole.  Nothing of reading, releasing, flushing and column updates shows.
AppliesDocument ==
    [][\/ UNCHANGED <<realm, users, clients>>
       \/ \E w \in Worker : /\ req[w].pc = "commit"
                            /\ req[w].overtaken \/ Applies(req[w])]_vars

\* "client IDs, and nonempty emails must be unique within a realm after
\* normalization" (README.md:194), of the addresses that are stored and used.
EmailsUnique ==
    \A u, v \in User :
        u # v /\ users[u].email # None
            => Normalized(users[u].email) # Normalized(users[v].email)

\* Every import ends, those that wait for each other included.
ImportsEnd == \A w \in Worker : req[w].pc # "idle" ~> req[w].pc = "idle"

-----------------------------------------------------------------------------
(* The inductive invariant.                                                 *)

\* There is nothing in a realm before there is a realm, or in a row before there
\* is a row.
TablesInv ==
    /\ ~realm => users = NoUsers /\ clients = NoClients
    /\ \A u \in User : ~users[u].stored => users[u] = NoUser

\* Rows stay, and only whole rows are written.
RowsStay(r) ==
    \A u \in User : /\ r.seen.users[u].stored => users[u].stored
                    /\ u \in r.free => r.seen.users[u].stored
                    /\ r.users[u] # None => r.users[u].stored

\* What an import has read is still so.
ReadsHold(r) ==
    /\ r.seen.realm = realm
    /\ IF r.pc = "clients"
       THEN \A c \in Client : r.seen.clients[c] \in {NoClient, clients[c]}
       ELSE r.seen.clients = clients
    /\ r.seen.users = IF r.pc \in {"clients", "users"} THEN NoUsers ELSE users
    /\ r.preserve => \A c \in DOMAIN r.doc.clients : ~r.doc.clients[c].present

\* What it has written is the part of the validated outcome that is not left to
\* do, user by user and client by client.
UserProgress(r, u) ==
    LET released == u \in SlotsToRelease(r.doc, r.seen.users)
        listed   == u \in DOMAIN r.doc.users
    IN /\ u \in r.free => released /\ u \in r.usersLeft
       /\ u \in r.usersLeft /\ released /\ u \notin r.free
             => r.users[u] = [users[u] EXCEPT !.slot = None]
       /\ listed /\ u \notin r.usersLeft
             => Version(r, u) = AppliedUser(r.doc, r.seen.users, u)
       /\ ~listed \/ u \in r.free \/ (u \in r.usersLeft /\ ~released) => r.users[u] = None

ClientProgress(r, c) ==
    LET listed == c \in DOMAIN r.doc.clients
    IN /\ ~listed \/ c \in r.clientsLeft => r.clients[c] = None
       /\ listed /\ c \notin r.clientsLeft
             => ClientVersion(r, c) = AppliedClient(r.doc, r.seen.clients, c, r.preserve)

Progress(r) ==
    /\ ~Refused(r.doc, r.createOnly, r.preserve, r.seen)
    /\ \A u \in User : UserProgress(r, u)
    /\ \A c \in Client : ClientProgress(r, c)
    /\ r.pc = "commit" => r.free = {} /\ r.usersLeft = {} /\ r.clientsLeft = {}

\* Reads and writes are as above as long as no other import has committed.
RequestInv(r) ==
    /\ RowsStay(r)
    /\ r.pc = "conflict" => r.overtaken
    /\ r.pc \in InFlight \ {"conflict"} => r.doc \in Documents
    /\ r.pc \in {"clients", "users"} =>
         (\A u \in User : r.users[u] = None) /\ (\A c \in Client : r.clients[c] = None)
    /\ r.pc \in {"realm", "flush", "commit"} =>
         /\ r.usersLeft \subseteq DOMAIN r.doc.users
         /\ r.clientsLeft \subseteq DOMAIN r.doc.clients
    /\ r.pc \in InFlight \ {"conflict"} /\ ~r.overtaken => ReadsHold(r)
    /\ r.pc \in {"realm", "flush", "commit"} /\ ~r.overtaken => Progress(r)

IInv == TablesInv /\ \A w \in Worker : RequestInv(req[w])
=============================================================================
