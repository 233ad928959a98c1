------------------------ MODULE RealmImport_proofs ------------------------
(***************************************************************************)
(* Theorems about RealmImport, for any number of imports, users, clients,  *)
(* addresses and documents.                                                *)
(***************************************************************************)
EXTENDS RealmImport, FiniteSetTheorems, WellFoundedInduction, TLAPS

-----------------------------------------------------------------------------
(* Documents and rows.                                                      *)

\* Stripping the presence of fields leaves a document well formed, and none of
\* its clients with a given type.
LEMMA BootstrapDocument ==
    ASSUME NEW d \in Document
    PROVE  /\ WellFormed(WithoutPresence(d))
           /\ \A c \in DOMAIN WithoutPresence(d).clients : ~WithoutPresence(d).clients[c].present
<1> DEFINE x == WithoutPresence(d)
<1>1. WellFormed(d)
  BY ConstantAssumption
<1>2. PICK S \in SUBSET User, T \in SUBSET Client :
        d.users \in [S -> UserEntry] /\ d.clients \in [T -> ClientEntry]
  BY <1>1 DEF WellFormed
<1>3. /\ x.users = [u \in S |-> [d.users[u] EXCEPT !.present = FALSE]]
      /\ x.clients = [c \in T |-> [d.clients[c] EXCEPT !.present = FALSE]]
      /\ x.fields = d.fields /\ x.flowKnown = d.flowKnown
  BY <1>1, <1>2 DEF WithoutPresence, WellFormed
<1>4. \A u \in S : x.users[u] \in UserEntry /\ x.users[u].email = d.users[u].email
  <2> TAKE u \in S
  <2>1. d.users[u] \in UserEntry
    BY <1>2
  <2>2. x.users[u] = [d.users[u] EXCEPT !.present = FALSE]
    BY <1>3
  <2> QED
    BY <2>1, <2>2 DEF UserEntry
<1>5. \A c \in T : x.clients[c] \in ClientEntry /\ ~x.clients[c].present
  <2> TAKE c \in T
  <2>1. d.clients[c] \in ClientEntry
    BY <1>2
  <2>2. x.clients[c] = [d.clients[c] EXCEPT !.present = FALSE]
    BY <1>3
  <2> QED
    BY <2>1, <2>2 DEF ClientEntry
<1>6. x.users \in [S -> UserEntry] /\ x.clients \in [T -> ClientEntry]
  BY <1>3, <1>4, <1>5
<1>7. x \in [fields : BOOLEAN, flowKnown : BOOLEAN,
             users : UNION {[R -> UserEntry] : R \in SUBSET User},
             clients : UNION {[R -> ClientEntry] : R \in SUBSET Client}]
  BY <1>1, <1>6 DEF WithoutPresence, WellFormed
<1>8. DOMAIN x.users = S /\ DOMAIN d.users = S /\ DOMAIN x.clients = T
  BY <1>2, <1>6
<1>9. \A u, v \in S :
        u # v /\ Normalized(x.users[u].email) = Normalized(x.users[v].email)
            => x.users[u].email = None
  BY <1>1, <1>4, <1>8 DEF WellFormed
<1>10. WellFormed(x)
  BY <1>7, <1>8, <1>9 DEF WellFormed
<1>11. \A c \in DOMAIN x.clients : ~x.clients[c].present
  BY <1>5, <1>8
<1> QED
  BY <1>10, <1>11

LEMMA DocumentsWellFormed ==
    \A d \in Documents : WellFormed(d)
  BY BootstrapDocument, ConstantAssumption DEF Documents

\* What a document lists, in the types the model uses.
LEMMA Listed ==
    ASSUME NEW d \in Documents
    PROVE  /\ DOMAIN d.users \subseteq User /\ DOMAIN d.clients \subseteq Client
           /\ \A u \in DOMAIN d.users : d.users[u] \in UserEntry
           /\ \A c \in DOMAIN d.clients : d.clients[c] \in ClientEntry
  BY DocumentsWellFormed DEF WellFormed

LEMMA NormalizedType ==
    ASSUME NEW e \in Spelling \cup {None}
    PROVE  /\ Normalized(e) \in Address \cup {None}
           /\ Normalized(e) = None <=> e = None
  BY ConstantAssumption DEF Normalized

LEMMA RowTypes ==
    /\ NoUser \in UserRow /\ NoClient \in ClientRow
    /\ NoUsers \in [User -> UserRow] /\ NoClients \in [Client -> ClientRow]
    /\ \A e \in UserEntry : CreatedUser(e) \in UserRow
    /\ \A e \in ClientEntry : CreatedClient(e) \in ClientRow
    /\ \A e \in UserEntry, s, row \in UserRow : UpdatedUser(e, s, row) \in UserRow
    /\ \A e \in ClientEntry, s, row \in ClientRow, p \in BOOLEAN :
         UpdatedClient(e, s, row, p) \in ClientRow
<1>1. /\ NoUser \in UserRow /\ NoClient \in ClientRow
      /\ NoUsers \in [User -> UserRow] /\ NoClients \in [Client -> ClientRow]
  BY DEF NoUser, NoClient, NoUsers, NoClients, UserRow, ClientRow
<1>2. \A e \in UserEntry : CreatedUser(e) \in UserRow
  BY NormalizedType DEF CreatedUser, UserEntry, UserRow
<1>3. \A e \in ClientEntry : CreatedClient(e) \in ClientRow
  BY DEF CreatedClient, ClientEntry, ClientRow
<1>4. \A e \in UserEntry, s, row \in UserRow : UpdatedUser(e, s, row) \in UserRow
  <2> TAKE e \in UserEntry, s, row \in UserRow
  <2> DEFINE q == UpdatedUser(e, s, row)
  <2>1. e.email \in Spelling \cup {None}
    BY DEF UserEntry
  <2>2. Normalized(e.email) \in Address \cup {None}
    BY <2>1, NormalizedType
  <2>3. row.email \in Spelling \cup {None} /\ row.slot \in Address \cup {None}
    BY DEF UserRow
  <2>4. /\ q = [row EXCEPT !.email = q.email, !.slot = q.slot]
        /\ q.email \in {e.email, row.email} /\ q.slot \in {Normalized(e.email), row.slot}
    BY DEF UpdatedUser, UserRow
  <2> HIDE DEF q
  <2>5. [row EXCEPT !.email = q.email, !.slot = q.slot] \in UserRow
    BY <2>1, <2>2, <2>3, <2>4 DEF UserRow
  <2> QED
    BY <2>4, <2>5 DEF q
<1>5. \A e \in ClientEntry, s, row \in ClientRow, p \in BOOLEAN :
         UpdatedClient(e, s, row, p) \in ClientRow
  <2> TAKE e \in ClientEntry, s, row \in ClientRow, p \in BOOLEAN
  <2> DEFINE q == UpdatedClient(e, s, row, p)
  <2>1. /\ q = [row EXCEPT !.public = q.public, !.secret = q.secret]
        /\ q.public \in BOOLEAN /\ q.secret \in BOOLEAN
    BY DEF UpdatedClient, ClientEntry, ClientRow
  <2> QED
    BY <2>1 DEF ClientRow
<1> QED
  BY <1>1, <1>2, <1>3, <1>4, <1>5

\* No worker, and no import that ends, disturbs the invariant.
LEMMA NoRequestInv == NoRequest \in Request /\ RequestInv(NoRequest)
  BY RowTypes DEF NoRequest, Request, InFlight, RequestInv, RowsStay, NoUsers, NoUser

LEMMA Change ==
    ASSUME TypeOK, IInv, NEW w \in Worker, NEW q \in Request, RequestInv(q),
           req' = [req EXCEPT ![w] = q], UNCHANGED <<realm, users, clients>>
    PROVE  TypeOK' /\ IInv'
<1>1. TypeOK'
  BY DEF TypeOK
<1>2. TablesInv'
  BY DEF IInv, TablesInv
<1>3. ASSUME NEW v \in Worker PROVE RequestInv(req[v])'
  <2>1. RequestInv(req'[v])
    BY DEF IInv, TypeOK
  <2> QED
    BY ONLY <2>1, UNCHANGED <<realm, users, clients>>
    DEF RequestInv, RowsStay, ReadsHold, Progress, UserProgress, ClientProgress, Version,
        ClientVersion
<1> QED
  BY <1>1, <1>2, <1>3 DEF IInv

\* An import that ends, or is refused after another has committed.
LEMMA Ends ==
    ASSUME TypeOK, IInv, NEW w \in Worker, Finish(w), UNCHANGED <<realm, users, clients>>
    PROVE  TypeOK' /\ IInv'
  BY NoRequestInv, Change DEF Finish, Goto

LEMMA Refusal ==
    ASSUME TypeOK, IInv, NEW w \in Worker, req[w].overtaken, Conflict(w),
           UNCHANGED <<realm, users, clients>>
    PROVE  TypeOK' /\ IInv'
<1> DEFINE q == [NoRequest EXCEPT !.pc = "conflict", !.overtaken = req[w].overtaken]
<1>1. q \in Request /\ q.pc = "conflict" /\ q.overtaken
  BY NoRequestInv DEF NoRequest, Request, InFlight
<1>2. q.seen.users = NoUsers /\ q.users = [u \in User |-> None] /\ q.free = {}
  BY DEF NoRequest
<1>3. RequestInv(q)
  BY <1>1, <1>2 DEF RequestInv, RowsStay, InFlight, NoUsers, NoUser
<1> QED
  BY <1>1, <1>3, Change DEF Conflict, Goto

-----------------------------------------------------------------------------
(* Reading.                                                                 *)

\* What any import starts from.
LEMMA ImportInv ==
    ASSUME TypeOK, IInv, NEW w \in Worker, NEW d \in Documents,
           NEW update \in BOOLEAN, NEW createOnly \in BOOLEAN, NEW preserve \in BOOLEAN,
           NEW loaded \in [Client -> ClientRow],
           \A c \in Client : loaded[c] \in {NoClient, clients[c]},
           preserve => \A c \in DOMAIN d.clients : ~d.clients[c].present,
           Import(w, d, update, createOnly, preserve, loaded)
    PROVE  TypeOK' /\ IInv'
<1> DEFINE q == [NoRequest EXCEPT !.pc = "clients", !.doc = d, !.createOnly = createOnly,
                                  !.preserve = preserve, !.seen.realm = realm,
                                  !.seen.clients = loaded]
<1>1. /\ q.pc = "clients" /\ q.doc = d /\ q.preserve = preserve /\ ~q.overtaken
      /\ q.seen.realm = realm /\ q.seen.users = NoUsers /\ q.seen.clients = loaded
      /\ q.users = [u \in User |-> None] /\ q.clients = [c \in Client |-> None]
      /\ q.free = {}
  BY DEF NoRequest
<1>2. q \in Request
  <2>1. realm \in BOOLEAN
    BY DEF TypeOK
  <2> QED
    BY <2>1, NoRequestInv DEF Request, InFlight
<1>6. Goto(w, q) /\ UNCHANGED <<realm, users, clients>>
  BY DEF Import
<1> HIDE DEF q
<1>3. RowsStay(q)
  BY <1>1 DEF RowsStay, NoUsers, NoUser
<1>4. ReadsHold(q)
  BY <1>1 DEF ReadsHold
<1>5. RequestInv(q)
  BY <1>1, <1>3, <1>4 DEF RequestInv
<1> QED
  BY <1>2, <1>5, <1>6, Change DEF Goto

LEMMA StartInv ==
    ASSUME TypeOK, IInv, NEW w \in Worker, Start(w)
    PROVE  TypeOK' /\ IInv'
<1>1. PICK d \in Document :
        \/ CreateRealm(w, d) \/ UpdateRealm(w, d)
        \/ CreateClient(w, d) \/ UpdateClient(w, d) \/ Bootstrap(w, d)
  BY DEF Start
<1>2. d \in Documents /\ WithoutPresence(d) \in Documents
  BY DEF Documents
<1>3. \A c \in Client : NoClients[c] \in {NoClient, clients[c]}
  BY DEF NoClients
<1>4. CASE CreateRealm(w, d)
  BY <1>2, <1>3, <1>4, RowTypes, ImportInv DEF CreateRealm
<1>5. CASE UpdateRealm(w, d)
  BY <1>2, <1>3, <1>5, RowTypes, ImportInv DEF UpdateRealm
<1>6. CASE CreateClient(w, d)
  BY <1>2, <1>3, <1>6, RowTypes, ImportInv DEF CreateClient
<1>7. CASE UpdateClient(w, d)
  <2> DEFINE loaded == [c \in Client |-> IF c \in DOMAIN d.clients
                                         THEN clients[c] ELSE NoClient]
  <2>1. /\ loaded \in [Client -> ClientRow]
        /\ \A c \in Client : loaded[c] \in {NoClient, clients[c]}
    BY RowTypes DEF TypeOK
  <2>2. Import(w, d, TRUE, FALSE, FALSE, loaded)
    BY <1>7 DEF UpdateClient
  <2> HIDE DEF loaded
  <2> QED
    BY <1>2, <2>1, <2>2, ImportInv
<1>8. CASE Bootstrap(w, d)
  BY <1>2, <1>3, <1>8, RowTypes, ImportInv, BootstrapDocument DEF Bootstrap
<1> QED
  BY <1>1, <1>4, <1>5, <1>6, <1>7, <1>8

\* A worker's request, taken apart.
LEMMA RequestParts ==
    ASSUME TypeOK, IInv, NEW w \in Worker
    PROVE  /\ req[w] \in Request /\ RequestInv(req[w])
           /\ req[w].seen.users \in [User -> UserRow]
           /\ req[w].seen.clients \in [Client -> ClientRow]
           /\ req[w].users \in [User -> UserRow \cup {None}]
           /\ req[w].clients \in [Client -> ClientRow \cup {None}]
           /\ \A u \in User : Version(req[w], u) \in UserRow
  BY DEF TypeOK, IInv, Request, Version

LEMMA ReadClientsInv ==
    ASSUME TypeOK, IInv, NEW w \in Worker, ReadClients(w)
    PROVE  TypeOK' /\ IInv'
<1> DEFINE r == req[w]
           new == [c \in Client |-> IF r.seen.clients[c].stored \/ ~r.seen.realm
                                    THEN r.seen.clients[c] ELSE clients[c]]
           q == [r EXCEPT !.pc = "users", !.seen.clients = new]
<1>1. /\ r \in Request /\ RequestInv(r) /\ r.pc = "clients"
      /\ new \in [Client -> ClientRow]
  BY RequestParts DEF ReadClients, TypeOK
<1>2. req' = [req EXCEPT ![w] = q] /\ UNCHANGED <<realm, users, clients>>
  BY <1>1 DEF ReadClients, Goto, Request
<1> HIDE DEF new
<1>3. /\ q \in Request /\ q.pc = "users" /\ q.doc = r.doc /\ q.preserve = r.preserve
      /\ q.overtaken = r.overtaken /\ q.users = r.users /\ q.clients = r.clients
      /\ q.seen.realm = r.seen.realm /\ q.seen.users = r.seen.users /\ q.seen.clients = new
  BY <1>1 DEF Request, InFlight
<1>4. ASSUME ~r.overtaken PROVE ReadsHold(q)
  <2>1. ReadsHold(r)
    BY <1>1, <1>4 DEF RequestInv, InFlight
  <2>2. new = clients
    <3>1. ASSUME NEW c \in Client PROVE new[c] = clients[c]
      <4>1. r.seen.clients[c] \in {NoClient, clients[c]} /\ r.seen.realm = realm
        BY <1>1, <2>1 DEF ReadsHold
      <4>2. ~realm => clients[c] = NoClient
        BY DEF IInv, TablesInv, NoClients
      <4>3. realm \in BOOLEAN /\ ~NoClient.stored
        BY DEF TypeOK, NoClient
      <4> QED
        BY <4>1, <4>2, <4>3 DEF new
    <3> QED
      BY <1>1, <3>1 DEF TypeOK
  <2> QED
    BY <1>1, <1>3, <2>1, <2>2 DEF ReadsHold
<1>5. RequestInv(q)
  BY <1>1, <1>3, <1>4 DEF RequestInv, RowsStay, InFlight
<1> HIDE DEF q
<1> QED
  BY <1>2, <1>3, <1>5, Change

LEMMA ReadUsersInv ==
    ASSUME TypeOK, IInv, NEW w \in Worker, ReadUsers(w)
    PROVE  TypeOK' /\ IInv'
<1> DEFINE r == req[w]
           d == r.doc
           new == IF r.seen.realm THEN users ELSE r.seen.users
           s == [r.seen EXCEPT !.users = new]
           free == SlotsToRelease(d, new)
           q == [r EXCEPT !.pc = "realm", !.seen = s, !.free = free,
                          !.usersLeft = DOMAIN d.users, !.clientsLeft = DOMAIN d.clients]
<1>1. /\ r \in Request /\ RequestInv(r) /\ r.pc = "users" /\ d \in Documents
      /\ new \in [User -> UserRow] /\ realm \in BOOLEAN
  BY RequestParts DEF ReadUsers, TypeOK, RequestInv, InFlight
<1>2. /\ s.users = new /\ s.realm = r.seen.realm /\ s.clients = r.seen.clients
      /\ s \in [realm : BOOLEAN, users : [User -> UserRow], clients : [Client -> ClientRow]]
  BY <1>1 DEF Request
<1>3. CASE Refused(d, r.createOnly, r.preserve, s)
  BY <1>2, <1>3, Ends DEF ReadUsers
<1>4. CASE ~Refused(d, r.createOnly, r.preserve, s)
  <2>1. Goto(w, q) /\ UNCHANGED <<realm, users, clients>>
    BY <1>2, <1>4 DEF ReadUsers
  <2>2. /\ free \subseteq DOMAIN d.users /\ \A u \in free : new[u].stored
        /\ DOMAIN d.users \subseteq User /\ DOMAIN d.clients \subseteq Client
    BY <1>1, Listed DEF SlotsToRelease
  <2>3. free = SlotsToRelease(d, new)
    OBVIOUS
  <2> HIDE DEF new, s, free
  <2>4. q \in Request
    BY <1>1, <1>2, <2>2 DEF Request, InFlight
  <2>5. /\ q.pc = "realm" /\ q.doc = d /\ q.seen = s /\ q.free = free
        /\ q.usersLeft = DOMAIN d.users /\ q.clientsLeft = DOMAIN d.clients
        /\ q.users = r.users /\ q.clients = r.clients /\ q.overtaken = r.overtaken
        /\ q.createOnly = r.createOnly /\ q.preserve = r.preserve
    BY <1>1 DEF Request
  <2> HIDE DEF q
  <2>6. \A u \in User : new[u].stored => users[u].stored
    BY <1>1 DEF RequestInv, RowsStay, new
  <2>7. ASSUME ~r.overtaken PROVE ReadsHold(q)
    <3>1. ReadsHold(r)
      BY <1>1, <2>7 DEF RequestInv, InFlight
    <3>2. new = users
      BY <1>1, <3>1 DEF ReadsHold, IInv, TablesInv, new
    <3> QED
      BY <1>1, <1>2, <2>5, <3>1, <3>2 DEF ReadsHold
  <2>8. Progress(q)
    <3>1. \A u \in User : UserProgress(q, u)
      BY <1>1, <1>2, <2>2, <2>3, <2>5 DEF UserProgress, RequestInv
    <3>2. \A c \in Client : ClientProgress(q, c)
      BY <1>1, <2>5 DEF ClientProgress, RequestInv
    <3> QED
      BY <1>4, <2>5, <3>1, <3>2 DEF Progress
  <2>9. RequestInv(q)
    BY <1>1, <1>2, <2>2, <2>5, <2>6, <2>7, <2>8 DEF RequestInv, RowsStay, InFlight
  <2> QED
    BY <2>1, <2>4, <2>9, Change DEF Goto
<1> QED
  BY <1>3, <1>4

-----------------------------------------------------------------------------
(* Writing.                                                                 *)

\* A step that keeps what was read and writes one user, one client or nothing.
LEMMA Writes ==
    ASSUME TypeOK, IInv, NEW w \in Worker, req[w].pc \in {"realm", "flush"},
           NEW q \in Request,
           q.pc \in {"flush", "commit"}, q.doc = req[w].doc, q.seen = req[w].seen,
           q.createOnly = req[w].createOnly, q.preserve = req[w].preserve,
           q.overtaken = req[w].overtaken, q.free \subseteq req[w].free,
           q.usersLeft \subseteq req[w].usersLeft,
           q.clientsLeft \subseteq req[w].clientsLeft,
           \A u \in User : q.users[u] # req[w].users[u] => q.users[u].stored,
           q.pc = "commit" => q.free = {} /\ q.usersLeft = {} /\ q.clientsLeft = {},
           ~q.overtaken /\ ReadsHold(q) /\ Progress(req[w]) =>
               /\ \A u \in User : UserProgress(q, u)
               /\ \A c \in Client : ClientProgress(q, c),
           Goto(w, q), UNCHANGED <<realm, users, clients>>
    PROVE  TypeOK' /\ IInv'
<1> DEFINE r == req[w]
<1>1. RequestInv(r)
  BY RequestParts
<1>2. RowsStay(q)
  BY <1>1 DEF RequestInv, RowsStay
<1>3. ASSUME ~q.overtaken PROVE ReadsHold(q) /\ Progress(q)
  <2>1. ReadsHold(r) /\ Progress(r)
    BY <1>1, <1>3 DEF RequestInv, InFlight
  <2>2. ReadsHold(q)
    BY <2>1 DEF ReadsHold
  <2> QED
    BY <1>3, <2>1, <2>2 DEF Progress
<1>4. RequestInv(q)
  BY <1>1, <1>2, <1>3 DEF RequestInv, InFlight
<1> QED
  BY <1>4, Change DEF Goto

LEMMA WriteRealmInv ==
    ASSUME TypeOK, IInv, NEW w \in Worker, WriteRealm(w)
    PROVE  TypeOK' /\ IInv'
<1> DEFINE r == req[w]
<1>1. /\ r \in Request /\ RequestInv(r) /\ r.pc = "realm"
  BY RequestParts DEF WriteRealm
<1>2. ASSUME NEW L \in SUBSET LockMode, Goto(w, [r EXCEPT !.locks = L, !.pc = "flush"])
      PROVE  TypeOK' /\ IInv'
  <2> DEFINE q == [r EXCEPT !.locks = L, !.pc = "flush"]
  <2>1. q \in Request
    BY <1>1 DEF Request, InFlight
  <2>2. /\ q.pc = "flush" /\ q.doc = r.doc /\ q.seen = r.seen /\ q.users = r.users
        /\ q.clients = r.clients /\ q.free = r.free /\ q.usersLeft = r.usersLeft
        /\ q.clientsLeft = r.clientsLeft /\ q.createOnly = r.createOnly
        /\ q.preserve = r.preserve /\ q.overtaken = r.overtaken
    BY <1>1 DEF Request
  <2>3. Goto(w, q) /\ UNCHANGED <<realm, users, clients>>
    BY <1>2 DEF WriteRealm
  <2> HIDE DEF q
  <2>4. Progress(r) => /\ \A u \in User : UserProgress(q, u)
                       /\ \A c \in Client : ClientProgress(q, c)
    BY <2>2 DEF Progress, UserProgress, ClientProgress, Version, ClientVersion
  <2> QED
    BY <1>1, <2>1, <2>2, <2>3, <2>4, Writes
<1>3. CASE ~r.seen.realm /\ realm
  <2>1. r.overtaken
    BY <1>1, <1>3 DEF RequestInv, ReadsHold, InFlight
  <2> QED
    BY <1>1, <1>3, <2>1, Refusal DEF WriteRealm
<1>4. CASE r.seen.realm \/ ~realm
  <2> DEFINE G(m) == Goto(w, [Locked(w, m) EXCEPT !.pc = "flush"])
             G0 == Goto(w, [r EXCEPT !.pc = "flush"])
  <2>1. G("insert") \/ G("nokey") \/ G0
    BY <1>4 DEF WriteRealm
  <2>2. r.locks \in SUBSET LockMode
    BY <1>1 DEF Request
  <2>3. CASE G0
    <3>1. [r EXCEPT !.pc = "flush"] = [r EXCEPT !.locks = r.locks, !.pc = "flush"]
      BY <1>1 DEF Request
    <3> QED
      BY <1>2, <2>2, <2>3, <3>1
  <2>4. ASSUME NEW m \in LockMode, G(m) PROVE TypeOK' /\ IInv'
    <3>1. [Locked(w, m) EXCEPT !.pc = "flush"]
            = [r EXCEPT !.locks = r.locks \cup {m}, !.pc = "flush"]
      BY <1>1 DEF Locked, Request
    <3>2. r.locks \cup {m} \in SUBSET LockMode
      BY <2>2
    <3> QED
      BY <1>2, <2>4, <3>1, <3>2
  <2>5. "insert" \in LockMode /\ "nokey" \in LockMode
    BY DEF LockMode
  <2> HIDE DEF G
  <2> QED
    BY <2>1, <2>3, <2>4, <2>5
<1> QED
  BY <1>3, <1>4

\* The slot of a user to whom the document is applied is the one that was checked.
LEMMA AppliedSlot ==
    ASSUME NEW d, NEW rows, NEW u
    PROVE  AppliedUser(d, rows, u).slot = FinalSlot(d, rows, u)
  BY DEF AppliedUser, FinalSlot, CreatedUser

\* An update of a client's row that is as it was read is the document applied to it.
LEMMA AppliedToRow ==
    ASSUME NEW d, NEW rows, NEW c \in DOMAIN d.clients, d.clients[c] \in ClientEntry,
           rows[c] \in ClientRow, rows[c].stored, NEW p \in BOOLEAN
    PROVE  UpdatedClient(d.clients[c], rows[c], rows[c], p) = AppliedClient(d, rows, c, p)
<1> DEFINE e == d.clients[c]
           row == rows[c]
           public == IF e.present THEN e.public ELSE row.public
<1>1. /\ row = [stored |-> TRUE, public |-> row.public, secret |-> row.secret]
      /\ row.public \in BOOLEAN /\ row.secret \in BOOLEAN
      /\ e.public \in BOOLEAN /\ e.secret \in BOOLEAN
  BY DEF ClientRow, ClientEntry
<1>2. UpdatedClient(e, row, row, p)
        = [row EXCEPT !.public = public,
                      !.secret = IF p THEN row.secret
                                 ELSE ~public /\ (e.secret \/ row.secret)]
  <2>1. (IF public # row.public THEN public ELSE row.public) = public
    OBVIOUS
  <2>2. ASSUME ~p
        PROVE  (IF public THEN (IF row.secret THEN FALSE ELSE row.secret)
                ELSE IF e.secret THEN TRUE ELSE row.secret)
                 = (~public /\ (e.secret \/ row.secret))
    BY <1>1
  <2> QED
    BY <1>1, <2>1, <2>2 DEF UpdatedClient, ClientRow
<1> QED
  BY <1>1, <1>2 DEF AppliedClient

\* Nothing is left undone, or done twice, when one user is written.
LEMMA OthersKeep ==
    ASSUME NEW r, NEW q, NEW v \in User, q.doc = r.doc, q.seen = r.seen,
           q.users[v] = r.users[v], v \in q.free <=> v \in r.free,
           v \in q.usersLeft <=> v \in r.usersLeft, UserProgress(r, v)
    PROVE  UserProgress(q, v)
  BY DEF UserProgress, Version

\* Unless an import was overtaken, no user that is not waiting to be released
\* holds a slot that another one is to get.
LEMMA SlotsAreFinal ==
    ASSUME TypeOK, IInv, NEW w \in Worker, ReadsHold(req[w]), Progress(req[w]),
           req[w].pc = "flush", NEW v \in User, v \notin req[w].free
    PROVE  Version(req[w], v).slot
             \in {None, FinalSlot(req[w].doc, req[w].seen.users, v)}
<1> DEFINE r == req[w]
           d == r.doc
<1>1. r.seen.users = users /\ UserProgress(r, v)
  BY DEF ReadsHold, Progress
<1>2. users[v] \in UserRow /\ None \notin UserRow
  BY ConstantAssumption DEF TypeOK
<1>3. CASE v \in DOMAIN d.users /\ v \notin r.usersLeft
  BY <1>1, <1>3, AppliedSlot DEF UserProgress
<1>4. CASE v \in r.usersLeft /\ v \in SlotsToRelease(d, r.seen.users)
  <2>1. r.users[v] = [users[v] EXCEPT !.slot = None]
    BY <1>1, <1>4 DEF UserProgress
  <2>2. r.users[v] \in UserRow /\ r.users[v].slot = None
    BY <1>2, <2>1 DEF UserRow
  <2> QED
    BY <1>2, <2>2 DEF Version
<1>5. CASE v \notin DOMAIN d.users
  BY <1>1, <1>5 DEF UserProgress, Version, FinalSlot, Readdressed
<1>6. CASE /\ v \in DOMAIN d.users /\ v \in r.usersLeft
           /\ v \notin SlotsToRelease(d, r.seen.users)
  <2>1. Version(r, v) = users[v]
    BY <1>1, <1>6 DEF UserProgress, Version
  <2>2. ~users[v].stored => users[v].slot = None
    BY DEF IInv, TablesInv, NoUser
  <2> QED
    BY <1>1, <1>6, <2>1, <2>2 DEF SlotsToRelease, FinalSlot, Readdressed
<1> QED
  BY <1>1, <1>3, <1>4, <1>5, <1>6 DEF UserProgress

\* So the unique constraint refuses no user of a validated document.
LEMMA NoSlotConflict ==
    ASSUME TypeOK, IInv, NEW w \in Worker, ReadsHold(req[w]), Progress(req[w]),
           req[w].pc = "flush", req[w].free = {}, NEW u \in User,
           u \in Readdressed(req[w].doc, req[w].seen.users)
    PROVE  ~SlotTaken(w, u, Normalized(req[w].doc.users[u].email))
<1> DEFINE r == req[w]
           final(v) == FinalSlot(r.doc, r.seen.users, v)
<1>1. ~EmailError(r.doc, r.seen.users)
  BY DEF Progress, Refused
<1>2. final(u) = Normalized(r.doc.users[u].email)
  BY DEF FinalSlot
<1>3. SUFFICES ASSUME final(u) # None, NEW v \in User \ {u},
                      Version(r, v).slot = final(u)
               PROVE  FALSE
  BY <1>2 DEF SlotTaken
<1>4. Version(r, v).slot \in {None, final(v)}
  BY SlotsAreFinal
<1>5. final(v) = final(u)
  BY <1>3, <1>4
<1> QED
  BY <1>1, <1>3, <1>5 DEF EmailError

LEMMA ReleaseSlotInv ==
    ASSUME TypeOK, IInv, NEW w \in Worker, NEW u \in User, ReleaseSlot(w, u)
    PROVE  TypeOK' /\ IInv'
<1> DEFINE r == req[w]
           row == [Version(r, u) EXCEPT !.slot = None]
           q == [r EXCEPT !.free = @ \ {u}, !.users[u] = row]
<1>1. /\ r \in Request /\ RequestInv(r) /\ r.pc = "flush" /\ u \in r.free
      /\ Version(r, u) \in UserRow /\ users[u] \in UserRow
      /\ r.users \in [User -> UserRow \cup {None}]
  BY RequestParts DEF ReleaseSlot, TypeOK
<1>2. row \in UserRow /\ row.slot = None /\ row.stored = Version(r, u).stored
  BY <1>1 DEF UserRow
<1>3. Version(r, u).stored
  BY <1>1 DEF RequestInv, RowsStay, Version
<1>4. q = [r EXCEPT !.free = r.free \ {u}, !.users = [r.users EXCEPT ![u] = row]]
  BY <1>1 DEF Request
<1>5. Goto(w, q) /\ UNCHANGED <<realm, users, clients>>
  BY DEF ReleaseSlot
<1>6. r.users[u] = None => row = [users[u] EXCEPT !.slot = None]
  BY DEF Version
<1> HIDE DEF row
<1>7. [r.users EXCEPT ![u] = row] \in [User -> UserRow \cup {None}]
  BY <1>1, <1>2
<1>8. q \in Request
  BY <1>1, <1>4, <1>7 DEF Request
<1>9. /\ q.pc = r.pc /\ q.doc = r.doc /\ q.seen = r.seen /\ q.free = r.free \ {u}
      /\ q.users = [r.users EXCEPT ![u] = row] /\ q.clients = r.clients
      /\ q.usersLeft = r.usersLeft /\ q.clientsLeft = r.clientsLeft
      /\ q.createOnly = r.createOnly /\ q.preserve = r.preserve
      /\ q.overtaken = r.overtaken
  BY <1>1, <1>4 DEF Request
<1> HIDE DEF q
<1>10. \A v \in User : q.users[v] = IF v = u THEN row ELSE r.users[v]
  BY <1>1, <1>9
<1>11. ASSUME Progress(r)
       PROVE  /\ \A v \in User : UserProgress(q, v)
              /\ \A c \in Client : ClientProgress(q, c)
  <2>1. UserProgress(r, u) /\ u \in DOMAIN r.doc.users
    BY <1>1, <1>11 DEF Progress, UserProgress, RequestInv
  <2>2. UserProgress(q, u)
    BY <1>1, <1>6, <1>9, <1>10, <2>1 DEF UserProgress
  <2>3. \A v \in User \ {u} : UserProgress(q, v)
    BY <1>9, <1>10, <1>11, OthersKeep DEF Progress
  <2>4. \A c \in Client : ClientProgress(q, c)
    BY <1>9, <1>11 DEF Progress, ClientProgress, ClientVersion
  <2> QED
    BY <2>2, <2>3, <2>4
<1> QED
  BY <1>1, <1>2, <1>3, <1>5, <1>8, <1>9, <1>10, <1>11, Writes

\* A listed user is written, as its row is to be.
LEMMA UserWritten ==
    ASSUME TypeOK, IInv, NEW w \in Worker, NEW u \in User, NEW L \in SUBSET LockMode,
           NEW row \in UserRow \cup {None}, req[w].pc = "flush", req[w].free = {},
           u \in req[w].usersLeft, row # req[w].users[u] => row.stored,
           ReadsHold(req[w]) /\ Progress(req[w]) =>
             (IF row = None THEN users[u] ELSE row)
               = AppliedUser(req[w].doc, req[w].seen.users, u),
           Goto(w, [req[w] EXCEPT !.locks = L, !.usersLeft = @ \ {u}, !.users[u] = row]),
           UNCHANGED <<realm, users, clients>>
    PROVE  TypeOK' /\ IInv'
<1> DEFINE r == req[w]
           q == [r EXCEPT !.locks = L, !.usersLeft = @ \ {u}, !.users[u] = row]
<1>1. /\ r \in Request /\ RequestInv(r)
      /\ r.users \in [User -> UserRow \cup {None}]
  BY RequestParts
<1>2. q = [r EXCEPT !.locks = L, !.usersLeft = r.usersLeft \ {u},
                    !.users = [r.users EXCEPT ![u] = row]]
  BY <1>1 DEF Request
<1>3. Goto(w, q)
  OBVIOUS
<1>4. [r.users EXCEPT ![u] = row] \in [User -> UserRow \cup {None}]
  BY <1>1
<1>5. q \in Request
  BY <1>1, <1>2, <1>4 DEF Request
<1>6. /\ q.pc = r.pc /\ q.doc = r.doc /\ q.seen = r.seen /\ q.free = r.free
      /\ q.users = [r.users EXCEPT ![u] = row] /\ q.clients = r.clients
      /\ q.usersLeft = r.usersLeft \ {u} /\ q.clientsLeft = r.clientsLeft
      /\ q.createOnly = r.createOnly /\ q.preserve = r.preserve
      /\ q.overtaken = r.overtaken
  BY <1>1, <1>2 DEF Request
<1> HIDE DEF q
<1>7. \A v \in User : q.users[v] = IF v = u THEN row ELSE r.users[v]
  BY <1>1, <1>6
<1>8. ASSUME ReadsHold(r), Progress(r)
      PROVE  /\ \A v \in User : UserProgress(q, v)
             /\ \A c \in Client : ClientProgress(q, c)
  <2>1. UserProgress(r, u) /\ u \in DOMAIN r.doc.users
    BY <1>1, <1>8 DEF Progress, RequestInv
  <2>2. Version(q, u) = IF row = None THEN users[u] ELSE row
    BY <1>7 DEF Version
  <2>3. UserProgress(q, u)
    BY <1>6, <1>8, <2>1, <2>2 DEF UserProgress
  <2>4. \A v \in User \ {u} : UserProgress(q, v)
    BY <1>6, <1>7, <1>8, OthersKeep DEF Progress
  <2>5. \A c \in Client : ClientProgress(q, c)
    BY <1>6, <1>8 DEF Progress, ClientProgress, ClientVersion
  <2> QED
    BY <2>3, <2>4, <2>5
<1>9. ReadsHold(q) => ReadsHold(r)
  BY <1>6 DEF ReadsHold
<1>10. \A v \in User : q.users[v] # r.users[v] => q.users[v].stored
  BY <1>7
<1> QED
  BY <1>1, <1>3, <1>5, <1>6, <1>8, <1>9, <1>10, Writes

LEMMA InsertUserInv ==
    ASSUME TypeOK, IInv, NEW w \in Worker, NEW u \in User, InsertUser(w, u)
    PROVE  TypeOK' /\ IInv'
<1> DEFINE r == req[w]
           e == r.doc.users[u]
           row == CreatedUser(e)
           L == r.locks \cup {"share"}
<1>1. /\ r \in Request /\ RequestInv(r) /\ r.pc = "flush" /\ r.free = {}
      /\ u \in r.usersLeft /\ ~r.seen.users[u].stored /\ r.doc \in Documents
      /\ L \in SUBSET LockMode
  BY RequestParts DEF InsertUser, UsersTurn, RequestInv, InFlight, Request, LockMode
<1>2. ASSUME ~r.overtaken
      PROVE  ReadsHold(r) /\ Progress(r) /\ u \in Readdressed(r.doc, users)
  <2>1. ReadsHold(r) /\ Progress(r)
    BY <1>1, <1>2 DEF RequestInv, InFlight
  <2>2. u \in DOMAIN r.doc.users
    BY <1>1 DEF RequestInv
  <2> QED
    BY <1>1, <2>1, <2>2 DEF ReadsHold, Readdressed
<1>3. CASE users[u].stored \/ SlotTaken(w, u, row.slot)
  <2>1. SUFFICES r.overtaken
    BY <1>3, Refusal DEF InsertUser
  <2>2. SUFFICES ASSUME ~r.overtaken PROVE FALSE
    OBVIOUS
  <2>3. ~users[u].stored
    BY <1>1, <1>2, <2>2 DEF ReadsHold
  <2>4. ~SlotTaken(w, u, Normalized(e.email))
    BY <1>1, <1>2, <2>2, NoSlotConflict DEF ReadsHold
  <2> QED
    BY <1>3, <2>3, <2>4 DEF CreatedUser
<1>4. CASE ~(users[u].stored \/ SlotTaken(w, u, row.slot))
  <2>1. Goto(w, [Locked(w, "share") EXCEPT !.usersLeft = @ \ {u}, !.users[u] = row])
    BY <1>4 DEF InsertUser
  <2>2. [Locked(w, "share") EXCEPT !.usersLeft = @ \ {u}, !.users[u] = row]
          = [r EXCEPT !.locks = L, !.usersLeft = @ \ {u}, !.users[u] = row]
    BY <1>1 DEF Locked, Request
  <2>3. UNCHANGED <<realm, users, clients>>
    BY DEF InsertUser
  <2>4. u \in DOMAIN r.doc.users
    BY <1>1 DEF RequestInv
  <2>5. row \in UserRow /\ row.stored
    BY <1>1, <2>4, Listed, RowTypes DEF CreatedUser
  <2>6. ASSUME ReadsHold(r), Progress(r)
        PROVE  row = AppliedUser(r.doc, r.seen.users, u)
    BY <1>1, <2>4, <2>6 DEF AppliedUser, Readdressed
  <2>7. None \notin UserRow
    BY ConstantAssumption
  <2> HIDE DEF row, L
  <2>8. /\ row # None
        /\ Goto(w, [r EXCEPT !.locks = L, !.usersLeft = @ \ {u}, !.users[u] = row])
    BY <2>1, <2>2, <2>5, <2>7
  <2> QED
    BY <1>1, <2>3, <2>5, <2>6, <2>8, UserWritten
<1> QED
  BY <1>3, <1>4

\* What a validated update makes of a stored user, whether or not its slot was
\* released.
LEMMA UpdatedRow ==
    ASSUME TypeOK, IInv, NEW w \in Worker, NEW u \in User,
           ReadsHold(req[w]), Progress(req[w]), req[w].pc = "flush", req[w].free = {},
           u \in req[w].usersLeft, u \in DOMAIN req[w].doc.users, users[u].stored
    PROVE  LET e == req[w].doc.users[u]
               row == UpdatedUser(e, users[u], Version(req[w], u)) IN
           /\ row = AppliedUser(req[w].doc, users, u)
           /\ row.slot # Version(req[w], u).slot
                 => e.present /\ row.slot = Normalized(e.email)
           /\ UpdatedUser(e, users[u], users[u]) = users[u]
                 => /\ req[w].users[u] = None
                    /\ users[u] = AppliedUser(req[w].doc, users, u)
<1> DEFINE r == req[w]
           d == r.doc
           e == d.users[u]
           old == Version(r, u)
           row == UpdatedUser(e, users[u], old)
           released == u \in SlotsToRelease(d, users)
<1>1. /\ UserProgress(r, u) /\ r.seen.users = users
      /\ users[u] \in UserRow /\ None \notin UserRow
  BY ConstantAssumption DEF Progress, ReadsHold, TypeOK
<1>2. released <=> e.present /\ users[u].slot \notin {None, Normalized(e.email)}
  BY DEF SlotsToRelease
<1>3. AppliedUser(d, users, u) = IF e.present THEN CreatedUser(e) ELSE users[u]
  BY DEF AppliedUser, Readdressed
<1>4. /\ old.email = users[u].email
      /\ old.slot = IF released THEN None ELSE users[u].slot
      /\ old \in UserRow /\ old.stored
      /\ ~released => old = users[u]
  <2>1. CASE released
    <3>1. r.users[u] = [users[u] EXCEPT !.slot = None]
      BY <1>1, <2>1 DEF UserProgress
    <3>2. /\ r.users[u] \in UserRow /\ r.users[u].slot = None
          /\ r.users[u].email = users[u].email /\ r.users[u].stored
      BY <1>1, <3>1 DEF UserRow
    <3> QED
      BY <1>1, <2>1, <3>2 DEF Version
  <2>2. CASE ~released
    BY <1>1, <2>2 DEF UserProgress, Version
  <2> QED
    BY <2>1, <2>2
<1>5. row = [stored |-> TRUE,
             email |-> IF e.present /\ e.email # users[u].email THEN e.email ELSE old.email,
             slot |-> IF e.present /\ Normalized(e.email) # users[u].slot
                      THEN Normalized(e.email) ELSE old.slot]
  <2>1. e \in UserEntry
    BY RequestParts, Listed DEF RequestInv, InFlight
  <2>2. row \in UserRow
    BY <1>1, <1>4, <2>1, RowTypes
  <2>3. /\ row.stored = old.stored
        /\ row.email = IF e.present /\ e.email # users[u].email THEN e.email ELSE old.email
        /\ row.slot = IF e.present /\ Normalized(e.email) # users[u].slot
                      THEN Normalized(e.email) ELSE old.slot
    BY <1>4 DEF UpdatedUser, UserRow
  <2> HIDE DEF row, old, e
  <2>4. row = [stored |-> row.stored, email |-> row.email, slot |-> row.slot]
    BY <2>2 DEF UserRow
  <2>5. row.stored = TRUE
    BY <1>4, <2>2, <2>3 DEF UserRow
  <2> QED
    BY <2>3, <2>4, <2>5
<1>6. ASSUME UpdatedUser(e, users[u], users[u]) = users[u]
      PROVE  r.users[u] = None /\ users[u] = AppliedUser(d, users, u)
  <2>1. e.present => Normalized(e.email) = users[u].slot /\ e.email = users[u].email
    BY <1>1, <1>6 DEF UpdatedUser, UserRow
  <2>2. ~released
    BY <1>2, <2>1
  <2>3. users[u] = [stored |-> TRUE, email |-> users[u].email, slot |-> users[u].slot]
    BY <1>1 DEF UserRow
  <2> QED
    BY <1>1, <1>3, <2>1, <2>2, <2>3 DEF UserProgress, CreatedUser
<1> HIDE DEF row, old, released, e, d
<1>7. row = AppliedUser(d, users, u)
  <2>1. CASE e.present
    BY <1>2, <1>3, <1>4, <1>5, <2>1 DEF CreatedUser
  <2>2. CASE ~e.present
    <3>1. old = [stored |-> TRUE, email |-> old.email, slot |-> old.slot]
      BY <1>4 DEF UserRow
    <3> QED
      BY <1>2, <1>3, <1>4, <1>5, <2>2, <3>1
  <2> QED
    BY <2>1, <2>2
<1>8. row.slot # old.slot => e.present /\ row.slot = Normalized(e.email)
  BY <1>5
<1> QED
  BY <1>6, <1>7, <1>8 DEF row, old, e, d

LEMMA UpdateUserRowInv ==
    ASSUME TypeOK, IInv, NEW w \in Worker, NEW u \in User, UpdateUserRow(w, u)
    PROVE  TypeOK' /\ IInv'
<1> DEFINE r == req[w]
           e == r.doc.users[u]
           s == r.seen.users[u]
           old == Version(r, u)
           row == UpdatedUser(e, s, old)
<1>1. /\ r \in Request /\ RequestInv(r) /\ r.pc = "flush" /\ r.free = {}
      /\ u \in r.usersLeft /\ s.stored /\ r.doc \in Documents
      /\ r.users \in [User -> UserRow \cup {None}] /\ r.locks \in SUBSET LockMode
  BY RequestParts DEF UpdateUserRow, UsersTurn, RequestInv, InFlight, Request
<1>2. u \in DOMAIN r.doc.users /\ users[u].stored /\ old.stored
  BY <1>1 DEF RequestInv, RowsStay, Version
<1>3. UNCHANGED <<realm, users, clients>>
  BY DEF UpdateUserRow
<1>4. ASSUME ~r.overtaken PROVE ReadsHold(r) /\ Progress(r) /\ s = users[u]
  BY <1>1, <1>4 DEF RequestInv, InFlight, ReadsHold
<1>5. s \in UserRow /\ old \in UserRow /\ row \in UserRow /\ row.stored
  <2>1. s \in UserRow /\ old \in UserRow
    BY RequestParts
  <2>2. row \in UserRow
    BY <1>1, <1>2, <2>1, Listed, RowTypes
  <2>3. row.stored
    BY <1>2, <2>1 DEF UpdatedUser, UserRow
  <2> QED
    BY <2>1, <2>2, <2>3
<1>6. CASE ~UserChanges(w, u)
  <2>1. Goto(w, [r EXCEPT !.usersLeft = @ \ {u}])
    BY <1>6 DEF UpdateUserRow
  <2>2. [r EXCEPT !.usersLeft = @ \ {u}]
          = [r EXCEPT !.locks = r.locks, !.usersLeft = @ \ {u}, !.users[u] = r.users[u]]
    BY <1>1 DEF Request
  <2>3. ASSUME ReadsHold(r), Progress(r)
        PROVE  /\ r.users[u] = None
               /\ users[u] = AppliedUser(r.doc, r.seen.users, u)
    <3>1. r.seen.users = users
      BY <1>1, <2>3 DEF ReadsHold
    <3>2. UpdatedUser(e, users[u], users[u]) = users[u]
      BY <1>6, <3>1 DEF UserChanges
    <3> QED
      BY <1>1, <1>2, <2>3, <3>1, <3>2, UpdatedRow
  <2> HIDE DEF r
  <2>4. Goto(w, [r EXCEPT !.locks = r.locks, !.usersLeft = @ \ {u}, !.users[u] = r.users[u]])
    BY <2>1, <2>2
  <2> QED
    BY <1>1, <1>3, <2>3, <2>4, UserWritten DEF r
<1>7. CASE UserChanges(w, u) /\ row.slot # old.slot /\ SlotTaken(w, u, row.slot)
  <2>1. SUFFICES r.overtaken
    BY <1>3, <1>7, Refusal DEF UpdateUserRow
  <2>2. SUFFICES ASSUME ~r.overtaken PROVE FALSE
    OBVIOUS
  <2>r. ReadsHold(r) /\ Progress(r) /\ s = users[u] /\ r.seen.users = users
    BY <1>1, <1>4, <2>2 DEF ReadsHold
  <2>s. UpdatedUser(e, users[u], old).slot # old.slot
           => e.present /\ UpdatedUser(e, users[u], old).slot = Normalized(e.email)
    BY <1>1, <1>2, <2>r, UpdatedRow
  <2>3. e.present /\ row.slot = Normalized(e.email) /\ r.seen.users = users
    BY ONLY <1>7, <2>r, <2>s
  <2>4. u \in Readdressed(r.doc, r.seen.users)
    BY <1>2, <2>3 DEF Readdressed
  <2>5. ~SlotTaken(w, u, Normalized(e.email))
    BY <1>1, <1>4, <2>2, <2>4, NoSlotConflict
  <2> QED
    BY <1>7, <2>3, <2>5
<1>8. CASE UserChanges(w, u) /\ ~(row.slot # old.slot /\ SlotTaken(w, u, row.slot))
  <2>1. Goto(w, [r EXCEPT !.usersLeft = @ \ {u}, !.users[u] = row])
    BY <1>8 DEF UpdateUserRow
  <2>2. [r EXCEPT !.usersLeft = @ \ {u}, !.users[u] = row]
          = [r EXCEPT !.locks = r.locks, !.usersLeft = @ \ {u}, !.users[u] = row]
    BY <1>1 DEF Request
  <2>3. ASSUME ReadsHold(r), Progress(r)
        PROVE  row = AppliedUser(r.doc, r.seen.users, u)
    <3>1. r.seen.users = users
      BY <1>1, <2>3 DEF ReadsHold
    <3> QED
      BY <1>1, <1>2, <2>3, <3>1, UpdatedRow
  <2>4. row # None
    BY <1>5, ConstantAssumption
  <2> HIDE DEF r, row
  <2>5. Goto(w, [r EXCEPT !.locks = r.locks, !.usersLeft = @ \ {u}, !.users[u] = row])
    BY <2>1, <2>2
  <2> QED
    BY <1>1, <1>3, <1>5, <2>3, <2>4, <2>5, UserWritten DEF r
<1> QED
  BY <1>6, <1>7, <1>8

\* A listed client is written, as its row is to be.
LEMMA ClientWritten ==
    ASSUME TypeOK, IInv, NEW w \in Worker, NEW c \in Client, NEW L \in SUBSET LockMode,
           NEW row \in ClientRow \cup {None}, req[w].pc = "flush",
           c \in req[w].clientsLeft,
           ReadsHold(req[w]) /\ Progress(req[w]) =>
             (IF row = None THEN clients[c] ELSE row)
               = AppliedClient(req[w].doc, req[w].seen.clients, c, req[w].preserve),
           Goto(w, [req[w] EXCEPT !.locks = L, !.clientsLeft = @ \ {c}, !.clients[c] = row]),
           UNCHANGED <<realm, users, clients>>
    PROVE  TypeOK' /\ IInv'
<1> DEFINE r == req[w]
           q == [r EXCEPT !.locks = L, !.clientsLeft = @ \ {c}, !.clients[c] = row]
<1>1. /\ r \in Request /\ RequestInv(r)
      /\ r.clients \in [Client -> ClientRow \cup {None}]
  BY RequestParts
<1>2. q = [r EXCEPT !.locks = L, !.clientsLeft = r.clientsLeft \ {c},
                    !.clients = [r.clients EXCEPT ![c] = row]]
  BY <1>1 DEF Request
<1>3. Goto(w, q)
  OBVIOUS
<1>4. [r.clients EXCEPT ![c] = row] \in [Client -> ClientRow \cup {None}]
  BY <1>1
<1>5. q \in Request
  BY <1>1, <1>2, <1>4 DEF Request
<1>6. /\ q.pc = r.pc /\ q.doc = r.doc /\ q.seen = r.seen /\ q.free = r.free
      /\ q.users = r.users /\ q.clients = [r.clients EXCEPT ![c] = row]
      /\ q.usersLeft = r.usersLeft /\ q.clientsLeft = r.clientsLeft \ {c}
      /\ q.createOnly = r.createOnly /\ q.preserve = r.preserve
      /\ q.overtaken = r.overtaken
  BY <1>1, <1>2 DEF Request
<1> HIDE DEF q
<1>7. \A b \in Client : q.clients[b] = IF b = c THEN row ELSE r.clients[b]
  BY <1>1, <1>6
<1>8. ASSUME ReadsHold(r), Progress(r)
      PROVE  /\ \A v \in User : UserProgress(q, v)
             /\ \A b \in Client : ClientProgress(q, b)
  <2>1. \A b \in Client : ClientProgress(r, b)
    BY <1>8 DEF Progress
  <2>2. c \in DOMAIN r.doc.clients
    BY <1>1 DEF RequestInv
  <2>3. ClientProgress(q, c)
    BY <1>6, <1>7, <1>8, <2>2 DEF ClientProgress, ClientVersion
  <2>4. \A b \in Client \ {c} : ClientProgress(q, b)
    BY <1>6, <1>7, <2>1 DEF ClientProgress, ClientVersion
  <2>5. \A v \in User : UserProgress(q, v)
    BY <1>6, <1>8, OthersKeep DEF Progress
  <2> QED
    BY <2>3, <2>4, <2>5
<1>9. ReadsHold(q) => ReadsHold(r)
  BY <1>6 DEF ReadsHold
<1> QED
  BY <1>1, <1>3, <1>5, <1>6, <1>8, <1>9, Writes

LEMMA InsertClientInv ==
    ASSUME TypeOK, IInv, NEW w \in Worker, NEW c \in Client, InsertClient(w, c)
    PROVE  TypeOK' /\ IInv'
<1> DEFINE r == req[w]
           e == r.doc.clients[c]
           row == CreatedClient(e)
           L == r.locks \cup {"share"}
<1>1. /\ r \in Request /\ RequestInv(r) /\ r.pc = "flush"
      /\ c \in r.clientsLeft /\ ~r.seen.clients[c].stored /\ r.doc \in Documents
      /\ L \in SUBSET LockMode
  BY RequestParts DEF InsertClient, ClientsTurn, RequestInv, InFlight, Request, LockMode
<1>2. UNCHANGED <<realm, users, clients>>
  BY DEF InsertClient
<1>3. CASE clients[c].stored
  <2>1. r.overtaken
    BY <1>1, <1>3 DEF RequestInv, InFlight, ReadsHold
  <2> QED
    BY <1>2, <1>3, <2>1, Refusal DEF InsertClient
<1>4. CASE ~clients[c].stored
  <2>1. Goto(w, [Locked(w, "share") EXCEPT !.clientsLeft = @ \ {c}, !.clients[c] = row])
    BY <1>4 DEF InsertClient
  <2>2. [Locked(w, "share") EXCEPT !.clientsLeft = @ \ {c}, !.clients[c] = row]
          = [r EXCEPT !.locks = L, !.clientsLeft = @ \ {c}, !.clients[c] = row]
    BY <1>1 DEF Locked, Request
  <2>3. c \in DOMAIN r.doc.clients
    BY <1>1 DEF RequestInv
  <2>4. row \in ClientRow
    BY <1>1, <2>3, Listed, RowTypes
  <2>5. row = AppliedClient(r.doc, r.seen.clients, c, r.preserve)
    BY <1>1, <2>3 DEF AppliedClient
  <2>7. row # None
    BY <2>4, ConstantAssumption
  <2> HIDE DEF row, L
  <2>6. Goto(w, [r EXCEPT !.locks = L, !.clientsLeft = @ \ {c}, !.clients[c] = row])
    BY <2>1, <2>2
  <2> QED
    BY <1>1, <1>2, <2>4, <2>5, <2>6, <2>7, ClientWritten
<1> QED
  BY <1>3, <1>4

LEMMA UpdateClientRowInv ==
    ASSUME TypeOK, IInv, NEW w \in Worker, NEW c \in Client, UpdateClientRow(w, c)
    PROVE  TypeOK' /\ IInv'
<1> DEFINE r == req[w]
           e == r.doc.clients[c]
           s == r.seen.clients[c]
           row == UpdatedClient(e, s, clients[c], r.preserve)
<1>1. /\ r \in Request /\ RequestInv(r) /\ r.pc = "flush"
      /\ c \in r.clientsLeft /\ s.stored /\ r.doc \in Documents
      /\ r.clients \in [Client -> ClientRow \cup {None}] /\ r.locks \in SUBSET LockMode
      /\ r.preserve \in BOOLEAN /\ s \in ClientRow /\ clients[c] \in ClientRow
  BY RequestParts DEF UpdateClientRow, ClientsTurn, RequestInv, InFlight, Request, TypeOK
<1>2. UNCHANGED <<realm, users, clients>>
  BY DEF UpdateClientRow
<1>3. c \in DOMAIN r.doc.clients
  BY <1>1 DEF RequestInv
<1>4. CASE ~ClientChanges(w, c)
  <2>1. Goto(w, [r EXCEPT !.clientsLeft = @ \ {c}])
    BY <1>4 DEF UpdateClientRow
  <2>2. [r EXCEPT !.clientsLeft = @ \ {c}]
          = [r EXCEPT !.locks = r.locks, !.clientsLeft = @ \ {c}, !.clients[c] = r.clients[c]]
    BY <1>1 DEF Request
  <2>3. ASSUME ReadsHold(r), Progress(r)
        PROVE  /\ r.clients[c] = None
               /\ clients[c] = AppliedClient(r.doc, r.seen.clients, c, r.preserve)
    <3>1. r.clients[c] = None
      BY <1>1, <2>3 DEF Progress, ClientProgress
    <3>2. s = clients[c]
      BY <1>1, <2>3 DEF ReadsHold
    <3>3. UpdatedClient(e, s, s, r.preserve) = s
      BY <1>4 DEF ClientChanges
    <3> QED
      BY <1>1, <1>3, <3>1, <3>2, <3>3, Listed, AppliedToRow
  <2> HIDE DEF r
  <2>4. Goto(w, [r EXCEPT !.locks = r.locks, !.clientsLeft = @ \ {c},
                          !.clients[c] = r.clients[c]])
    BY <2>1, <2>2
  <2> QED
    BY <1>1, <1>2, <2>3, <2>4, ClientWritten DEF r
<1>5. CASE ClientChanges(w, c)
  <2>1. Goto(w, [r EXCEPT !.clientsLeft = @ \ {c}, !.clients[c] = row])
    BY <1>5 DEF UpdateClientRow
  <2>2. [r EXCEPT !.clientsLeft = @ \ {c}, !.clients[c] = row]
          = [r EXCEPT !.locks = r.locks, !.clientsLeft = @ \ {c}, !.clients[c] = row]
    BY <1>1 DEF Request
  <2>3. e \in ClientEntry /\ row \in ClientRow
    BY <1>1, <1>3, Listed, RowTypes
  <2>4. ASSUME ReadsHold(r)
        PROVE  row = AppliedClient(r.doc, r.seen.clients, c, r.preserve)
    <3>1. s = clients[c]
      BY <1>1, <2>4 DEF ReadsHold
    <3> QED
      BY <1>1, <1>3, <2>3, <3>1, AppliedToRow
  <2>6. row # None
    BY <2>3, ConstantAssumption
  <2> HIDE DEF r, row
  <2>5. Goto(w, [r EXCEPT !.locks = r.locks, !.clientsLeft = @ \ {c}, !.clients[c] = row])
    BY <2>1, <2>2
  <2> QED
    BY <1>1, <1>2, <2>3, <2>4, <2>5, <2>6, ClientWritten DEF r
<1> QED
  BY <1>4, <1>5

-----------------------------------------------------------------------------
(* Committing.                                                              *)

LEMMA LockRealmInv ==
    ASSUME TypeOK, IInv, NEW w \in Worker, LockRealm(w)
    PROVE  TypeOK' /\ IInv'
<1> DEFINE r == req[w]
           L == r.locks \cup {"update"}
           q == [r EXCEPT !.locks = L, !.pc = "commit"]
<1>1. /\ r \in Request /\ RequestInv(r) /\ r.pc = "flush"
      /\ r.free = {} /\ r.usersLeft = {} /\ r.clientsLeft = {}
  BY RequestParts DEF LockRealm, AllWritten
<1>2. UNCHANGED <<realm, users, clients>>
  BY DEF LockRealm
<1>3. CASE Finish(w)
  BY <1>2, <1>3, Ends
<1>4. CASE Goto(w, [Locked(w, "update") EXCEPT !.pc = "commit"])
  <2>1. L \in SUBSET LockMode
    BY <1>1 DEF Request, LockMode
  <2>2. [Locked(w, "update") EXCEPT !.pc = "commit"] = q
    BY <1>1 DEF Locked, Request
  <2>3. q \in Request
    BY <1>1, <2>1 DEF Request, InFlight
  <2>4. /\ q.pc = "commit" /\ q.doc = r.doc /\ q.seen = r.seen /\ q.users = r.users
        /\ q.clients = r.clients /\ q.free = r.free /\ q.usersLeft = r.usersLeft
        /\ q.clientsLeft = r.clientsLeft /\ q.createOnly = r.createOnly
        /\ q.preserve = r.preserve /\ q.overtaken = r.overtaken
    BY <1>1 DEF Request
  <2>5. Goto(w, q)
    BY <1>4, <2>2
  <2> HIDE DEF q
  <2>6. Progress(r) => /\ \A u \in User : UserProgress(q, u)
                       /\ \A c \in Client : ClientProgress(q, c)
    BY <2>4 DEF Progress, UserProgress, ClientProgress, Version, ClientVersion
  <2> QED
    BY <1>1, <1>2, <2>3, <2>4, <2>5, <2>6, Writes
<1> QED
  BY <1>3, <1>4 DEF LockRealm

LEMMA CommitInv ==
    ASSUME TypeOK, IInv, NEW w \in Worker, Commit(w)
    PROVE  TypeOK' /\ IInv'
<1> DEFINE r == req[w]
           later(v) == IF v = w THEN NoRequest
                       ELSE IF req[v].pc = "idle" THEN req[v]
                       ELSE [req[v] EXCEPT !.overtaken = TRUE]
<1>1. /\ realm' = TRUE /\ users' = [u \in User |-> Version(r, u)]
      /\ clients' = [c \in Client |-> ClientVersion(r, c)]
      /\ req' = [v \in Worker |-> later(v)]
  BY DEF Commit
<1>2. RequestInv(r) /\ \A u \in User : Version(r, u) \in UserRow
  BY RequestParts
<1>3. users' \in [User -> UserRow] /\ clients' \in [Client -> ClientRow]
  BY <1>1, <1>2, RequestParts DEF TypeOK, ClientVersion
<1>4. \A u \in User : users[u].stored => Version(r, u).stored
  BY <1>2 DEF RequestInv, RowsStay, Version
<1>5. TablesInv'
  <2>1. \A u \in User : ~Version(r, u).stored => Version(r, u) = NoUser
    BY <1>2 DEF RequestInv, RowsStay, Version, IInv, TablesInv
  <2> QED
    BY <1>1, <2>1 DEF TablesInv
<1>6. ASSUME NEW v \in Worker PROVE later(v) \in Request /\ RequestInv(req[v])'
  <2>1. req[v] \in Request /\ RequestInv(req[v])
    BY RequestParts
  <2>2. /\ later(v) \in Request
        /\ \/ later(v) = NoRequest
           \/ /\ later(v).pc = req[v].pc /\ later(v).doc = req[v].doc
              /\ later(v).seen = req[v].seen /\ later(v).users = req[v].users
              /\ later(v).clients = req[v].clients /\ later(v).free = req[v].free
              /\ later(v).usersLeft = req[v].usersLeft
              /\ later(v).clientsLeft = req[v].clientsLeft
              /\ later(v).overtaken \/ later(v).pc = "idle"
    <3>1. CASE v = w
      BY <3>1, NoRequestInv
    <3>2. CASE v # w /\ req[v].pc = "idle"
      BY <2>1, <3>2
    <3>3. CASE v # w /\ req[v].pc # "idle"
      BY <2>1, <3>3 DEF Request
    <3> QED
      BY <3>1, <3>2, <3>3
  <2>3. req'[v] = later(v)
    BY <1>1
  <2> HIDE DEF later
  <2>4. RowsStay(req[v])'
    <3>1. CASE later(v) = NoRequest
      BY <2>3, <3>1 DEF RowsStay, NoRequest, NoUsers, NoUser
    <3>2. CASE later(v).pc = req[v].pc /\ later(v) # NoRequest
      BY <1>1, <1>4, <2>1, <2>2, <2>3, <3>2 DEF RequestInv, RowsStay
    <3> QED
      BY <2>2, <3>1, <3>2
  <2> QED
    <3>1. CASE later(v) = NoRequest
      BY <2>2, <2>3, <2>4, <3>1 DEF RequestInv, NoRequest, InFlight
    <3>2. CASE later(v).pc = req[v].pc /\ later(v) # NoRequest
      BY <2>1, <2>2, <2>3, <2>4, <3>2 DEF RequestInv, InFlight
    <3> QED
      BY <2>2, <3>1, <3>2
<1>7. TypeOK'
  BY <1>1, <1>3, <1>6 DEF TypeOK
<1> QED
  BY <1>5, <1>6, <1>7 DEF IInv

-----------------------------------------------------------------------------
(* The theorems.                                                            *)

LEMMA Inductive ==
    ASSUME TypeOK, IInv, [Next]_vars
    PROVE  TypeOK' /\ IInv'
<1>1. CASE UNCHANGED vars
  BY <1>1 DEF vars, TypeOK, IInv, TablesInv, RequestInv, RowsStay, ReadsHold, Progress,
             UserProgress, ClientProgress, Version, ClientVersion
<1>2. ASSUME NEW w \in Worker, Start(w) \/ Proceed(w) \/ Fail(w)
      PROVE  TypeOK' /\ IInv'
  <2>1. CASE Start(w)
    BY <2>1, StartInv
  <2>2. CASE ReadClients(w)
    BY <2>2, ReadClientsInv
  <2>3. CASE ReadUsers(w)
    BY <2>3, ReadUsersInv
  <2>4. CASE WriteRealm(w)
    BY <2>4, WriteRealmInv
  <2>5. ASSUME NEW u \in User, ReleaseSlot(w, u) \/ InsertUser(w, u) \/ UpdateUserRow(w, u)
        PROVE  TypeOK' /\ IInv'
    BY <2>5, ReleaseSlotInv, InsertUserInv, UpdateUserRowInv
  <2>6. ASSUME NEW c \in Client, InsertClient(w, c) \/ UpdateClientRow(w, c)
        PROVE  TypeOK' /\ IInv'
    BY <2>6, InsertClientInv, UpdateClientRowInv
  <2>7. CASE LockRealm(w)
    BY <2>7, LockRealmInv
  <2>8. CASE Commit(w)
    BY <2>8, CommitInv
  <2>9. CASE Report(w) \/ DeadlockAbort(w) \/ Fail(w)
    BY <2>9, Ends DEF Report, DeadlockAbort, Fail
  <2> QED
    BY <1>2, <2>1, <2>2, <2>3, <2>4, <2>5, <2>6, <2>7, <2>8, <2>9 DEF Proceed
<1> QED
  BY <1>1, <1>2 DEF Next

\* What an import has read and written is, until another import commits, what
\* its validated outcome asks for; RealmImport is well typed (_preflight and
\* import_realm together).
THEOREM Invariance == Spec => [](TypeOK /\ IInv)
<1>1. Init => TypeOK /\ IInv
  <2>1. Init => TypeOK
    BY RowTypes, NoRequestInv DEF Init, TypeOK
  <2>2. Init => IInv
    <3>1. RowsStay(NoRequest)
      BY NoRequestInv DEF RequestInv
    <3> QED
      BY NoRequestInv DEF Init, IInv, TablesInv, NoUsers
  <2> QED
    BY <2>1, <2>2
<1>2. TypeOK /\ IInv /\ [Next]_vars => (TypeOK /\ IInv)'
  BY Inductive
<1> QED
  BY <1>1, <1>2, PTL DEF Spec

\* Every variable keeps its type.
THEOREM TypeCorrect == Spec => []TypeOK
  BY Invariance, PTL

\* The strengthened invariant that the runs check is one.
THEOREM InvariantHolds == Spec => []IInv
  BY Invariance, PTL

\* A document that passed _preflight meets no unique constraint unless another
\* import committed meanwhile, exchanges of addresses included.
THEOREM NoConflictWithoutRival == Spec => []ConflictNeedsRival
<1>1. IInv => ConflictNeedsRival
  BY DEF IInv, RequestInv, ConflictNeedsRival
<1> QED
  BY <1>1, Invariance, PTL

\* Only a commit changes a table, and one of an import that was not overtaken
\* applies its document.
LEMMA CommitApplies ==
    ASSUME TypeOK, IInv, NEW w \in Worker, Commit(w), ~req[w].overtaken
    PROVE  Applies(req[w]) /\ ReadsHold(req[w])
<1> DEFINE r == req[w]
           d == r.doc
<1>1. /\ RequestInv(r) /\ r.pc = "commit" /\ ReadsHold(r) /\ Progress(r)
      /\ r.usersLeft = {} /\ r.clientsLeft = {}
  BY RequestParts DEF Commit, RequestInv, InFlight, Progress
<1>2. r.seen.users = users /\ r.seen.clients = clients
  BY <1>1 DEF ReadsHold
<1>3. ~Refused(d, r.createOnly, r.preserve, [users |-> users, clients |-> clients])
  BY <1>1, <1>2 DEF Progress, Refused
<1>4. ASSUME NEW u \in User PROVE Version(r, u) = AppliedUser(d, users, u)
  BY <1>1, <1>2 DEF Progress, UserProgress, Version, AppliedUser, Readdressed
<1>5. ASSUME NEW c \in Client
      PROVE  ClientVersion(r, c) = AppliedClient(d, clients, c, r.preserve)
  BY <1>1, <1>2 DEF Progress, ClientProgress, ClientVersion, AppliedClient
<1> QED
  BY <1>1, <1>3, <1>4, <1>5 DEF Commit, Applies

LEMMA OthersLeaveTables ==
    ASSUME NEW w \in Worker, Start(w) \/ Proceed(w) \/ Fail(w), ~Commit(w)
    PROVE  UNCHANGED <<realm, users, clients>>
  BY DEF Start, CreateRealm, UpdateRealm, CreateClient, UpdateClient, Bootstrap, Import,
         Proceed, ReadClients, ReadUsers, WriteRealm, ReleaseSlot, InsertUser,
         UpdateUserRow, InsertClient, UpdateClientRow, LockRealm, Report,
         DeadlockAbort, Fail

\* An import is all or nothing, and without a rival one atomic application of its
\* document.
THEOREM ImportIsAtomic == Spec => AppliesDocument
<1>1. ASSUME TypeOK, IInv, [Next]_vars
      PROVE  \/ UNCHANGED <<realm, users, clients>>
             \/ \E w \in Worker : /\ req[w].pc = "commit"
                                  /\ req[w].overtaken \/ Applies(req[w])
  <2>1. CASE UNCHANGED vars
    BY <2>1 DEF vars
  <2>2. ASSUME NEW w \in Worker, Commit(w)
        PROVE  req[w].pc = "commit" /\ (req[w].overtaken \/ Applies(req[w]))
    BY <1>1, <2>2, CommitApplies DEF Commit
  <2> QED
    BY <1>1, <2>1, <2>2, OthersLeaveTables DEF Next
<1> QED
  BY <1>1, Invariance, PTL DEF Spec, AppliesDocument

\* An import that commits alone applies its document, or is rolled back.
LEMMA CommitsAloneApplies ==
    ASSUME TypeOK, IInv, [Next]_vars, NEW w \in Worker, CommitsAlone(w)
    PROVE  \/ UNCHANGED <<users, clients>>
           \/ Applies(req[w]) /\ ReadsHold(req[w])
<1>1. CASE Commit(w)
  BY <1>1, CommitApplies DEF CommitsAlone
<1>2. CASE UNCHANGED vars
  BY <1>2 DEF vars
<1>3. ASSUME NEW v \in Worker \ {w}, Commit(v) PROVE FALSE
  <2>1. req'[w].pc = req[w].pc
    BY <1>3, RequestParts DEF Commit, Request
  <2> QED
    BY <2>1 DEF CommitsAlone
<1> QED
  BY <1>1, <1>2, <1>3, OthersLeaveTables DEF Next

\* A valid document leaves a client whose type and secret agree that way.
LEMMA AppliedFits ==
    ASSUME NEW d \in Documents, NEW rows, NEW c, rows[c] \in ClientRow,
           NEW preserve \in BOOLEAN,
           c \in DOMAIN d.clients => ~ClientError(d.clients[c], rows[c], preserve),
           preserve => \A b \in DOMAIN d.clients : ~d.clients[b].present,
           SecretFits(rows[c])
    PROVE  SecretFits(AppliedClient(d, rows, c, preserve))
<1> DEFINE e == d.clients[c]
           row == rows[c]
           public == IF e.present THEN e.public ELSE row.public
<1>1. CASE c \notin DOMAIN d.clients
  BY <1>1 DEF AppliedClient
<1>2. CASE c \in DOMAIN d.clients
  <2>1. e \in ClientEntry
    BY <1>2, Listed
  <2>2. /\ e.public \in BOOLEAN /\ e.secret \in BOOLEAN /\ e.present \in BOOLEAN
        /\ row.public \in BOOLEAN /\ row.secret \in BOOLEAN /\ row.stored \in BOOLEAN
    BY <2>1 DEF ClientEntry, ClientRow
  <2>3. CASE ~row.stored
    BY <1>2, <2>2, <2>3 DEF AppliedClient, CreatedClient, ClientError, SecretFits
  <2>4. CASE row.stored /\ preserve
    BY <1>2, <2>2, <2>4 DEF AppliedClient, ClientError, SecretFits
  <2>5. CASE row.stored /\ ~preserve
    BY <1>2, <2>2, <2>5 DEF AppliedClient, ClientError, SecretFits
  <2> QED
    BY <2>2, <2>3, <2>4, <2>5
<1> QED
  BY <1>1, <1>2

\* Type and secret of a client agree after a commit if they did before.
THEOREM SecretFollows == Spec => SecretFollowsType
<1>1. ASSUME TypeOK, IInv, [Next]_vars, NEW w \in Worker, CommitsAlone(w),
             NEW c \in Client, SecretFits(clients[c])
      PROVE  SecretFits(clients'[c])
  <2> DEFINE r == req[w]
  <2>1. CASE UNCHANGED <<users, clients>>
    BY <1>1, <2>1
  <2>2. CASE Applies(r) /\ ReadsHold(r)
    <3>1. clients'[c] = AppliedClient(r.doc, clients, c, r.preserve)
      BY <2>2 DEF Applies
    <3>2. /\ r.doc \in Documents /\ clients[c] \in ClientRow /\ r.preserve \in BOOLEAN
      BY <1>1, RequestParts DEF CommitsAlone, RequestInv, InFlight, Request, TypeOK
    <3>3. c \in DOMAIN r.doc.clients => ~ClientError(r.doc.clients[c], clients[c], r.preserve)
      BY <2>2 DEF Applies, Refused
    <3>4. r.preserve => \A b \in DOMAIN r.doc.clients : ~r.doc.clients[b].present
      BY <2>2 DEF ReadsHold
    <3> QED
      BY <1>1, <3>1, <3>2, <3>3, <3>4, AppliedFits
  <2> QED
    BY <1>1, <2>1, <2>2, CommitsAloneApplies
<1>2. TypeOK /\ IInv /\ [Next]_vars =>
        [\A w \in Worker : CommitsAlone(w) =>
           \A c \in Client : SecretFits(clients[c]) => SecretFits(clients'[c])]_vars
  BY <1>1
<1> QED
  BY <1>2, Invariance, PTL DEF Spec, SecretFollowsType

\* The two address columns of a user agree after a commit if they did before.
THEOREM SlotFollows == Spec => SlotFollowsEmail
<1>1. ASSUME TypeOK, IInv, [Next]_vars, NEW w \in Worker, CommitsAlone(w),
             NEW u \in User, SlotFits(users[u])
      PROVE  SlotFits(users'[u])
  <2>1. CASE UNCHANGED <<users, clients>>
    BY <1>1, <2>1
  <2>2. CASE Applies(req[w])
    BY <1>1, <2>2 DEF Applies, AppliedUser, CreatedUser, SlotFits
  <2> QED
    BY <1>1, <2>1, <2>2, CommitsAloneApplies
<1>2. TypeOK /\ IInv /\ [Next]_vars =>
        [\A w \in Worker : CommitsAlone(w) =>
           \A u \in User : SlotFits(users[u]) => SlotFits(users'[u])]_vars
  BY <1>1
<1> QED
  BY <1>2, Invariance, PTL DEF Spec, SlotFollowsEmail

-----------------------------------------------------------------------------
(* Imports go on.                                                           *)

\* A flush has a statement whose turn it is, whatever locks that one needs.
Due(w) ==
    \/ AllWritten(w)
    \/ \E u \in req[w].free : \A v \in req[w].free : u <= v
    \/ UsersTurn(w) /\ req[w].usersLeft # {}
    \/ /\ ClientsTurn(w)
       /\ \E c \in req[w].clientsLeft : \A b \in req[w].clientsLeft :
            IF req[w].seen.clients[c].stored
            THEN req[w].seen.clients[b].stored => c <= b
            ELSE ~req[w].seen.clients[b].stored

\* The guard of DeadlockAbort.
Circle(w) == \E S \in SUBSET Worker : w \in S /\ \A v \in S : Blockers(v) \cap S # {}

SomeoneGoesOn ==
    /\ \A w \in Worker : req[w].pc = "flush" => Due(w)
    /\ (\E w \in Worker : req[w].pc \in InFlight) =>
         \E w \in Worker : req[w].pc \in InFlight /\ (Blockers(w) = {} \/ Circle(w))

\* Clients are left only as long as at most one user is written, and nothing is
\* held by those who are done.
Ordered(r) ==
    /\ r.pc \in {"realm", "flush"} /\ r.clientsLeft # {} =>
         Cardinality(DOMAIN r.doc.users \ r.usersLeft) <= 1
    /\ r.pc \notin {"realm", "flush", "commit"} =>
         /\ r.locks = {}
         /\ \A u \in User : r.users[u] = None
         /\ \A c \in Client : r.clients[c] = None

FlushOrder == \A w \in Worker : Ordered(req[w])

LEMMA Least ==
    ASSUME NEW S \in SUBSET Nat, S # {}
    PROVE  \E x \in S : \A y \in S : x <= y
<1> DEFINE R == {p \in Nat \X Nat : p[1] < p[2]}
<1>1. OpToRel(<, Nat) = R
  BY DEF OpToRel
<1>2. IsWellFoundedOn(R, Nat)
  BY <1>1, NatLessThanWellFounded
<1>3. \E x \in S : \A y \in S : <<y, x>> \notin R
  BY <1>2, WFMin
<1>4. \A x, y \in S : <<y, x>> \notin R => x <= y
  OBVIOUS
<1> QED
  BY <1>3, <1>4

LEMMA ChangeOrdered ==
    ASSUME FlushOrder, NEW w \in Worker, NEW q, Ordered(q), Goto(w, q), TypeOK
    PROVE  FlushOrder'
<1>1. ASSUME NEW v \in Worker PROVE Ordered(req'[v])
  BY <1>1 DEF Goto, FlushOrder, TypeOK
<1> QED
  BY <1>1 DEF FlushOrder, Ordered

LEMMA FreshOrdered ==
    ASSUME NEW d, NEW createOnly, NEW preserve, NEW seen
    PROVE  /\ Ordered(NoRequest)
           /\ \A o : Ordered([NoRequest EXCEPT !.pc = "conflict", !.overtaken = o])
           /\ \A loaded :
                Ordered([NoRequest EXCEPT !.pc = "clients", !.doc = d, !.createOnly = createOnly,
                                          !.preserve = preserve, !.seen.realm = seen,
                                          !.seen.clients = loaded])
  BY DEF Ordered, NoRequest

\* Writing in a flush: one user, when no client is left or none is written, or clients.
LEMMA FlushOrdered ==
    ASSUME NEW r, NEW q, Ordered(r), r.pc \in {"realm", "flush"}, q.pc \in {"flush", "commit"},
           q.doc = r.doc,
           \/ q.usersLeft = r.usersLeft /\ q.clientsLeft \subseteq r.clientsLeft
           \/ /\ q.clientsLeft = r.clientsLeft
              /\ r.clientsLeft = {} \/ r.usersLeft = DOMAIN r.doc.users
              /\ \E u \in r.usersLeft : q.usersLeft = r.usersLeft \ {u}
    PROVE  Ordered(q)
<1>1. CASE q.usersLeft = r.usersLeft /\ q.clientsLeft \subseteq r.clientsLeft
  BY <1>1 DEF Ordered
<1>2. CASE q.clientsLeft = {}
  BY <1>2 DEF Ordered
<1>3. ASSUME NEW u \in r.usersLeft, r.usersLeft = DOMAIN r.doc.users,
             q.usersLeft = r.usersLeft \ {u}
      PROVE  Ordered(q)
  <2>1. DOMAIN q.doc.users \ q.usersLeft = {u}
    BY <1>3
  <2>2. Cardinality(DOMAIN q.doc.users \ q.usersLeft) = 1
    BY <2>1, FS_Singleton
  <2> QED
    BY <2>2 DEF Ordered
<1> QED
  BY <1>1, <1>2, <1>3

LEMMA StartOrdered ==
    ASSUME TypeOK, FlushOrder, NEW w \in Worker, Start(w)
    PROVE  FlushOrder'
<1>1. ASSUME NEW d, NEW update, NEW createOnly, NEW preserve, NEW loaded,
             Import(w, d, update, createOnly, preserve, loaded)
      PROVE  FlushOrder'
  BY <1>1, FreshOrdered, ChangeOrdered DEF Import
<1> QED
  BY <1>1 DEF Start, CreateRealm, UpdateRealm, CreateClient, UpdateClient, Bootstrap

LEMMA NextOrdered ==
    ASSUME TypeOK, FlushOrder, [Next]_vars
    PROVE  FlushOrder'
<1>1. CASE UNCHANGED vars
  BY <1>1 DEF vars, FlushOrder, Ordered
<1>2. ASSUME NEW w \in Worker, Start(w) \/ Proceed(w) \/ Fail(w)
      PROVE  FlushOrder'
  <2> DEFINE r == req[w]
  <2>0. r \in Request /\ Ordered(r)
    BY DEF TypeOK, FlushOrder
  <2>1. CASE Finish(w) \/ Conflict(w)
    BY <2>1, FreshOrdered, ChangeOrdered DEF Finish, Conflict
  <2>2. CASE Start(w)
    BY <2>2, StartOrdered
  <2>3. CASE ReadClients(w)
    <3> DEFINE q == [r EXCEPT !.pc = "users", !.seen.clients =
                       [c \in Client |-> IF @[c].stored \/ ~r.seen.realm THEN @[c]
                                                                         ELSE clients[c]]]
    <3>1. r.pc = "clients" /\ Goto(w, q)
      BY <2>3 DEF ReadClients
    <3>2. Ordered(q)
      BY <2>0, <3>1 DEF Ordered, Request
    <3> HIDE DEF q
    <3> QED
      BY <3>1, <3>2, ChangeOrdered
  <2>4. CASE ReadUsers(w)
    <3>1. PICK seen : \/ Finish(w)
                      \/ Goto(w, [r EXCEPT
                           !.pc = "realm", !.seen = seen,
                           !.free = SlotsToRelease(r.doc, seen.users),
                           !.usersLeft = DOMAIN r.doc.users,
                           !.clientsLeft = DOMAIN r.doc.clients])
      BY <2>4 DEF ReadUsers
    <3> DEFINE q == [r EXCEPT !.pc = "realm", !.seen = seen,
                              !.free = SlotsToRelease(r.doc, seen.users),
                              !.usersLeft = DOMAIN r.doc.users,
                              !.clientsLeft = DOMAIN r.doc.clients]
    <3>2. q.pc = "realm" /\ q.doc = r.doc /\ q.usersLeft = DOMAIN r.doc.users
      BY <2>0 DEF Request
    <3> HIDE DEF q
    <3>3. Cardinality(DOMAIN q.doc.users \ q.usersLeft) = 0
      <4>1. DOMAIN q.doc.users \ q.usersLeft = {}
        BY <3>2
      <4> QED
        BY <4>1, FS_EmptySet
    <3>4. Ordered(q)
      BY <3>2, <3>3 DEF Ordered
    <3> QED
      BY <2>1, <3>1, <3>4, ChangeOrdered DEF q
  <2>5. CASE WriteRealm(w)
    <3>1. PICK L : Conflict(w) \/ Goto(w, [[r EXCEPT !.locks = L] EXCEPT !.pc = "flush"])
                   \/ Goto(w, [r EXCEPT !.pc = "flush"])
      BY <2>5 DEF WriteRealm, Locked
    <3>2. r.pc = "realm"
      BY <2>5 DEF WriteRealm
    <3>3. /\ Ordered([[r EXCEPT !.locks = L] EXCEPT !.pc = "flush"])
          /\ Ordered([r EXCEPT !.pc = "flush"])
      BY <2>0, <3>2 DEF Ordered, Request
    <3> QED
      BY <2>1, <3>1, <3>3, ChangeOrdered
  <2>6. ASSUME NEW u \in User, ReleaseSlot(w, u) PROVE FlushOrder'
    <3> DEFINE q == [r EXCEPT !.free = @ \ {u},
                              !.users[u] = [Version(r, u) EXCEPT !.slot = None]]
    <3>1. Goto(w, q) /\ r.pc = "flush"
      BY <2>6 DEF ReleaseSlot
    <3>2. /\ q.pc = r.pc /\ q.doc = r.doc /\ q.usersLeft = r.usersLeft
          /\ q.clientsLeft = r.clientsLeft
      BY <2>0 DEF Request
    <3> HIDE DEF q
    <3> QED
      BY <2>0, <3>1, <3>2, FlushOrdered, ChangeOrdered
  <2>7. ASSUME NEW u \in User, InsertUser(w, u) \/ UpdateUserRow(w, u), ~Conflict(w)
        PROVE  FlushOrder'
    <3> DEFINE a(row, L) == [[r EXCEPT !.locks = L]
                               EXCEPT !.usersLeft = @ \ {u}, !.users[u] = row]
               b(row) == [r EXCEPT !.usersLeft = @ \ {u}, !.users[u] = row]
               n == [r EXCEPT !.usersLeft = @ \ {u}]
               shape(q) == /\ q.pc = r.pc /\ q.doc = r.doc
                           /\ q.usersLeft = r.usersLeft \ {u} /\ q.clientsLeft = r.clientsLeft
    <3>1. PICK row, L : Goto(w, a(row, L)) \/ Goto(w, b(row)) \/ Goto(w, n)
      BY <2>7 DEF InsertUser, UpdateUserRow, Locked
    <3>2. PICK q : Goto(w, q) /\ shape(q)
      <4>1. shape(a(row, L)) /\ shape(b(row)) /\ shape(n)
        BY <2>0 DEF Request
      <4> HIDE DEF a, b, n, shape
      <4> QED
        BY <3>1, <4>1
    <3>3. /\ r.pc = "flush" /\ u \in r.usersLeft
          /\ r.clientsLeft = {} \/ r.usersLeft = DOMAIN r.doc.users
      BY <2>7 DEF InsertUser, UpdateUserRow, UsersTurn
    <3> QED
      BY <2>0, <3>2, <3>3, FlushOrdered, ChangeOrdered DEF FlushOrder
  <2>8. ASSUME NEW c \in Client, InsertClient(w, c) \/ UpdateClientRow(w, c), ~Conflict(w)
        PROVE  FlushOrder'
    <3> DEFINE a(row, L) == [[r EXCEPT !.locks = L]
                               EXCEPT !.clientsLeft = @ \ {c}, !.clients[c] = row]
               b(row) == [r EXCEPT !.clientsLeft = @ \ {c}, !.clients[c] = row]
               n == [r EXCEPT !.clientsLeft = @ \ {c}]
               shape(q) == /\ q.pc = r.pc /\ q.doc = r.doc
                           /\ q.usersLeft = r.usersLeft /\ q.clientsLeft = r.clientsLeft \ {c}
    <3>1. PICK row, L : Goto(w, a(row, L)) \/ Goto(w, b(row)) \/ Goto(w, n)
      BY <2>8 DEF InsertClient, UpdateClientRow, Locked
    <3>2. PICK q : Goto(w, q) /\ shape(q)
      <4>1. shape(a(row, L)) /\ shape(b(row)) /\ shape(n)
        BY <2>0 DEF Request
      <4> HIDE DEF a, b, n, shape
      <4> QED
        BY <3>1, <4>1
    <3>3. r.pc = "flush"
      BY <2>8 DEF InsertClient, UpdateClientRow, ClientsTurn
    <3> QED
      BY <2>0, <3>2, <3>3, FlushOrdered, ChangeOrdered DEF FlushOrder
  <2>9. CASE LockRealm(w)
    <3>1. PICK L : Finish(w) \/ Goto(w, [[r EXCEPT !.locks = L] EXCEPT !.pc = "commit"])
      BY <2>9 DEF LockRealm, Locked
    <3>2. Ordered([[r EXCEPT !.locks = L] EXCEPT !.pc = "commit"])
      BY <2>0 DEF Ordered, Request
    <3> QED
      BY <2>1, <3>1, <3>2, ChangeOrdered
  <2>10. CASE Commit(w)
    <3>1. ASSUME NEW v \in Worker PROVE Ordered(req'[v])
      <4>1. req[v] \in Request /\ Ordered(req[v])
        BY DEF TypeOK, FlushOrder
      <4>2. CASE v = w
        BY <2>10, <4>2, FreshOrdered DEF Commit
      <4>3. CASE v # w /\ req[v].pc = "idle"
        BY <2>10, <4>1, <4>3 DEF Commit
      <4>4. CASE v # w /\ req[v].pc # "idle"
        <5>1. req'[v] = [req[v] EXCEPT !.overtaken = TRUE]
          BY <2>10, <4>4 DEF Commit
        <5>2. Ordered([req[v] EXCEPT !.overtaken = TRUE])
          BY <4>1 DEF Ordered, Request
        <5> QED
          BY <5>1, <5>2
      <4> QED
        BY <4>2, <4>3, <4>4
    <3> QED
      BY <3>1 DEF FlushOrder, Ordered
  <2>11. CASE Report(w) \/ DeadlockAbort(w) \/ Fail(w)
    BY <2>1, <2>11 DEF Report, DeadlockAbort, Fail
  <2> QED
    BY <1>2, <2>1, <2>2, <2>3, <2>4, <2>5, <2>6, <2>7, <2>8, <2>9, <2>10, <2>11 DEF Proceed
<1> QED
  BY <1>1, <1>2 DEF Next

\* A flush that is not done has a statement to execute.
LEMMA StatementDue ==
    ASSUME TypeOK, IInv, FlushOrder, NEW w \in Worker, req[w].pc = "flush"
    PROVE  Due(w)
<1> DEFINE r == req[w]
           stored == {c \in r.clientsLeft : r.seen.clients[c].stored}
<1>1. /\ r.free \subseteq Nat /\ r.clientsLeft \subseteq Nat
      /\ r.free \subseteq User /\ r.clientsLeft \subseteq Client
  BY ConstantAssumption DEF TypeOK, Request
<1>2. CASE r.free # {}
  BY <1>1, <1>2, Least DEF Due
<1>3. CASE r.free = {} /\ r.clientsLeft = {}
  BY <1>3 DEF Due, AllWritten, UsersTurn
<1>4. CASE r.free = {} /\ r.clientsLeft # {}
  <2>1. ClientsTurn(w)
    BY <1>4 DEF FlushOrder, Ordered, ClientsTurn
  <2>2. CASE stored # {}
    <3>1. stored \subseteq Nat
      BY <1>1
    <3>2. PICK c \in stored : \A b \in stored : c <= b
      BY <2>2, <3>1, Least
    <3> QED
      BY <2>1, <3>2 DEF Due
  <2>3. CASE stored = {}
    BY <1>4, <2>1, <2>3 DEF Due
  <2> QED
    BY <2>2, <2>3
<1> QED
  BY <1>2, <1>3, <1>4

\* An import without blockers finds every lock guard of its next statement open.
LEMMA BlockersAreGuards ==
    ASSUME NEW w \in Worker, Blockers(w) = {}
    PROVE  /\ req[w].pc = "realm" =>
                RealmBlockers(w, IF req[w].seen.realm THEN "nokey" ELSE "insert") = {}
           /\ AllWritten(w) => RealmBlockers(w, "update") = {}
           /\ req[w].pc = "flush" /\ ~AllWritten(w) =>
                /\ \A u \in req[w].free \cup req[w].usersLeft : UserBlockers(w, u) = {}
                /\ \A u \in req[w].usersLeft :
                     LET e == req[w].doc.users[u] IN
                     /\ SlotBlockers(w, CreatedUser(e).slot) = {}
                     /\ \A seen, old \in UserRow :
                          UpdatedUser(e, seen, old).slot # old.slot
                            => SlotBlockers(w, UpdatedUser(e, seen, old).slot) = {}
                /\ \A c \in req[w].clientsLeft : ClientBlockers(w, c) = {}
                /\ RealmBlockers(w, "share") = {}
<1>1. CASE req[w].pc = "realm"
  BY <1>1 DEF Blockers, AllWritten
<1>2. CASE AllWritten(w)
  BY <1>2 DEF Blockers, AllWritten
<1>3. CASE req[w].pc = "flush" /\ ~AllWritten(w)
  <2>1. /\ \A u \in req[w].free \cup req[w].usersLeft : UserBlockers(w, u) = {}
        /\ \A u \in req[w].usersLeft :
             SlotBlockers(w, Normalized(req[w].doc.users[u].email)) = {}
        /\ \A c \in req[w].clientsLeft : ClientBlockers(w, c) = {}
        /\ RealmBlockers(w, "share") = {}
    BY <1>3 DEF Blockers
  <2>2. \A e : \A seen, old \in UserRow :
          UpdatedUser(e, seen, old).slot \in {old.slot, Normalized(e.email)}
    BY DEF UpdatedUser, UserRow
  <2>3. \A e : CreatedUser(e).slot = Normalized(e.email)
    BY DEF CreatedUser
  <2> QED
    BY <1>3, <2>1, <2>2, <2>3
<1> QED
  BY <1>1, <1>2, <1>3 DEF AllWritten

\* Only those under way hold what another waits for.
LEMMA BlockersInFlight ==
    ASSUME TypeOK, FlushOrder, NEW w \in Worker, NEW v \in Blockers(w)
    PROVE  v \in Worker /\ req[v].pc \in InFlight
<1> DEFINE r == req[w]
<1>1. /\ r.free \cup r.usersLeft \subseteq User /\ r.clientsLeft \subseteq Client
      /\ req[v].pc \in InFlight \cup {"idle"} \/ v \notin Worker
  BY DEF TypeOK, Request
<1>2. \/ \E mode : v \in RealmBlockers(w, mode)
      \/ \E u \in User : v \in UserBlockers(w, u)
      \/ \E a : v \in SlotBlockers(w, a)
      \/ \E c \in Client : v \in ClientBlockers(w, c)
  BY <1>1 DEF Blockers
<1>3. /\ v \in Worker
      /\ \/ req[v].locks # {}
         \/ \E u \in User : req[v].users[u] # None
         \/ \E c \in Client : req[v].clients[c] # None
  BY <1>2 DEF RealmBlockers, UserBlockers, SlotBlockers, ClientBlockers
<1>4. req[v].pc \in {"realm", "flush", "commit"}
  BY <1>3 DEF FlushOrder, Ordered
<1> QED
  BY <1>3, <1>4 DEF InFlight

\* Imports together never come to a standstill that the database cannot see: each
\* flush has a statement to execute, and some import waits for nobody or stands in a
\* circle that the deadlock detector ends.
THEOREM ImportsGoOn == Spec => []SomeoneGoesOn
<1>1. Init => FlushOrder
  BY FreshOrdered DEF Init, FlushOrder
<1>2. Spec => []FlushOrder
  BY <1>1, NextOrdered, Invariance, PTL DEF Spec
<1>3. TypeOK /\ IInv /\ FlushOrder => SomeoneGoesOn
  <2> SUFFICES ASSUME TypeOK, IInv, FlushOrder PROVE SomeoneGoesOn
    OBVIOUS
  <2> DEFINE busy == {w \in Worker : req[w].pc \in InFlight}
  <2>1. ASSUME NEW w \in busy
        PROVE  \E v \in busy : Blockers(v) = {} \/ Circle(v)
    <3>1. CASE \E v \in busy : Blockers(v) = {}
      BY <3>1
    <3>2. CASE \A v \in busy : Blockers(v) # {}
      <4>1. \A v \in busy : Blockers(v) \cap busy # {}
        BY <3>2, BlockersInFlight
      <4>2. Circle(w)
        BY <4>1 DEF Circle
      <4> QED
        BY <4>2
    <3> QED
      BY <3>1, <3>2
  <2> QED
    BY <2>1, StatementDue DEF SomeoneGoesOn
<1> QED
  BY <1>2, <1>3, Invariance, PTL
=============================================================================
