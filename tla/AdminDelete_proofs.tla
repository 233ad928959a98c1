--------------------------- MODULE AdminDelete_proofs ---------------------------
(* Proofs about AdminDelete, for any number of clients, rows and handlers. *)
EXTENDS AdminDelete, TLAPS

-----------------------------------------------------------------------------
(* The inductive invariant: what is true of the record of each transaction. *)

\* The statements of a deletion that follow the loop over its sessions.
Flushed == DeletionPC \ {"look", "heirs", "flush"}

\* The session whose new owner is being looked for.
Pending(r) == IF r.pc \in {"heirs", "flush"} THEN {r.sess} ELSE {}

\* A request that shares the lock on its client, or has updated the rows `keys`.
Sharing(r) == r.pc = "store" \/ r.kind = "sso"
Holding(r) == r.pc \in {"insert", "store"}

Fields == {"kind", "pc", "client", "sess", "keys", "scope", "look", "moves", "gone", "handled",
           "seen", "overtaken"}

\* Only a deletion has written anything, and it removes sessions and clients last.
RecordOK(r) ==
    /\ DOMAIN r = Fields
    /\ r.kind \in Kind /\ r.pc \in RequestPC \cup DeletionPC \cup {"idle", "refused"}
    /\ r.client \in Client \cup {None} /\ r.sess \in Session \cup {None}
    /\ r.keys \subseteq Grant \cup Tab
    /\ r.scope \subseteq Client /\ r.look \subseteq Session
    /\ DOMAIN r.moves \subseteq Session
    /\ \A s \in DOMAIN r.moves : r.moves[s] \in Client \ r.scope
    /\ r.gone \subseteq Client \cup Session \cup Grant \cup Tab
    /\ r.handled \subseteq Event \cup Tab

StagesOK(r) ==
    /\ r.pc \in DeletionPC => r.kind \in Deletion
    /\ r.pc = "realm" => r.kind = "delete_realm"
    /\ r.pc \notin DeletionPC => DOMAIN r.moves = {} /\ r.seen = {}
    /\ r.pc \notin Flushed => r.gone = {} /\ r.handled = {}
    /\ r.pc \notin {"clients", "realm", "commit"} => r.gone \cap Session = {}
    /\ r.gone \cap Client = IF r.pc \in {"realm", "commit"} THEN r.scope ELSE {}
    /\ r.pc = "heirs" => r.sess \in Session
    /\ r.pc = "flush" => r.sess \in Session /\ r.client \in Client \ r.scope

\* What a request of each kind is about.
RequestOK(r) ==
    r.pc \in RequestPC =>
        /\ r.client \in Client \/ (r.kind = "detect" /\ r.pc = "store")
        /\ r.kind \in {"sso", "redeem", "refresh", "detect", "logout"} => r.sess \in Session
        /\ r.pc = "claim" => r.kind \in {"login", "mail", "redeem", "refresh"}
        /\ r.pc = "revoke" => r.kind \in {"detect", "logout"}
        /\ r.kind \in {"visit", "login", "mail"} => r.sess = None
        /\ r.kind \in {"visit", "sso"} => r.keys = {}
        /\ r.kind = "mail" => r.keys \subseteq Tab
        /\ r.kind \in {"redeem", "refresh"} => r.keys \subseteq Grant /\ r.keys # {}
        /\ r.kind \in {"detect", "logout"} /\ Holding(r) => r.keys \subseteq Token

ShapeOK(r) == RecordOK(r) /\ StagesOK(r) /\ RequestOK(r)

\* The parents of what is inserted are stored, and so are the rows that are updated; a
\* code that is redeemed belongs to the session it is redeemed for.
ParentsStored(r) ==
    /\ Sharing(r) => r.client \in clients \cup {None}
    /\ r.pc = "store" => r.sess \in Present(sessions) \cup {None}
    /\ LocksSession(r) => r.sess \in Present(sessions)
    /\ Holding(r) => r.keys \subseteq Present(tabs) \cup Present(grants)
    /\ r.kind = "redeem" =>
          \A k \in r.keys : k \in Grant /\ grants[k].st # "absent" /\ grants[k].sess = r.sess

\* A session that has been handed over is stored, and so is the client that inherits it.
MovesStored(r) ==
    \A s \in DOMAIN r.moves : s \in Present(sessions) /\ r.moves[s] \in clients

\* A session that has been deleted has no row left that refers to it ...
SessionsEmptied(r) ==
    \A s \in Session \cap r.gone :
        /\ s \in Present(sessions) /\ s \notin DOMAIN r.moves /\ sessions[s].client \in r.scope
        /\ \A g \in Present(grants) : grants[g].sess = s => g \in r.gone
        /\ \A e \in events : e.sess = s => e \in r.handled

\* ... and neither has a client.
ClientsEmptied(r) ==
    r.pc \in {"realm", "commit"} =>
        /\ \A s \in Present(sessions) \ DOMAIN r.moves :
              sessions[s].client \in r.scope => s \in r.gone
        /\ \A g \in Present(grants) : grants[g].client \in r.scope => g \in r.gone
        /\ \A a \in Present(tabs) : tabs[a].client \in r.scope => a \in r.gone
        /\ \A e \in events : e.client \in r.scope => e \in r.handled

\* What a deletion has seen of other clients and is still there hangs on sessions it has
\* handed over, or is about to; between the two reads, it is a code.
SeenHandedOver(r) ==
    /\ r.seen \cap r.gone = {}
    /\ \A g \in r.seen :
          /\ g \in Grant /\ grants[g].st # "absent" /\ grants[g].client \notin r.scope
          /\ grants[g].st = "present" => grants[g].sess \in DOMAIN r.moves \cup Pending(r)
          /\ grants[g].st = "present" /\ r.pc = "heirs" =>
                grants[g].sess \in DOMAIN r.moves \/ g \in Code

Solo(r) ==
    /\ ShapeOK(r) /\ ParentsStored(r) /\ MovesStored(r)
    /\ SessionsEmptied(r) /\ ClientsEmptied(r) /\ SeenHandedOver(r)

\* What another transaction `q` relies on, of rows that are removed.
Relies(q, keys) ==
    /\ Sharing(q) => q.client \notin keys
    /\ q.pc = "store" \/ LocksSession(q) => q.sess \notin keys
    /\ Holding(q) => q.keys \cap keys = {}
    /\ \A s \in DOMAIN q.moves : s \notin keys /\ q.moves[s] \notin keys
    /\ keys \cap q.gone \cap Session = {}

\* What one deletion `r` has written is nothing another transaction `q` relies on.
Apart(r, q) ==
    /\ Relies(q, r.gone)
    /\ DOMAIN q.moves \cap DOMAIN r.moves = {}
    /\ r.handled \cap q.handled \cap (events \cup mailed) = {}

IInv ==
    /\ ForeignKeysHold
    /\ req = [w \in Worker |-> req[w]]
    /\ \A w \in Worker : Solo(req[w])
    /\ \A w \in Worker : \A v \in Others(w) : Apart(req[v], req[w])

-----------------------------------------------------------------------------
LEMMA IdleFields == DOMAIN Idle = Fields
BY DEF Idle, Fields

LEMMA IdleSolo == Solo(Idle)
<1>1. /\ Idle.kind = "login" /\ Idle.pc = "idle" /\ Idle.client = None /\ Idle.sess = None
      /\ Idle.keys = {} /\ Idle.scope = {} /\ Idle.look = {} /\ DOMAIN Idle.moves = {}
      /\ Idle.gone = {} /\ Idle.handled = {} /\ Idle.seen = {} /\ DOMAIN Idle = Fields
  BY IdleFields DEF Idle
<1>. QED BY <1>1 DEF Solo, ShapeOK, RecordOK, StagesOK, RequestOK, ParentsStored, MovesStored,
       SessionsEmptied, ClientsEmptied, SeenHandedOver, Sharing, Holding, LocksSession, Flushed, DeletionPC,
       RequestPC, Kind

LEMMA InitInv == Init => IInv
<1>. SUFFICES ASSUME Init PROVE IInv
  OBVIOUS
<1>1. Present(sessions) = {} /\ Present(grants) = {} /\ Present(tabs) = {}
  BY DEF Init, Present
<1>2. TypeOK
  BY DEF Init, TypeOK, SessionRow, GrantRow, TabRow, Status, Idle, Kind
<1>3. ForeignKeysHold
  BY <1>1, <1>2 DEF Init, ForeignKeysHold
<1>4. \A w \in Worker : Solo(req[w])
  BY IdleSolo DEF Init
<1>5. \A w \in Worker : \A v \in Others(w) : Apart(req[v], req[w])
  BY DEF Init, Others, Apart, Relies, LocksSession, Sharing, Holding, Idle
<1>. QED BY <1>3, <1>4, <1>5 DEF Init, IInv

-----------------------------------------------------------------------------
(* Steps that write no table.                                               *)

\* The record of one transaction is replaced.
LEMMA LocalStep ==
    ASSUME IInv, UNCHANGED tables, NEW w \in Worker, NEW x,
           req' = [req EXCEPT ![w] = x],
           Solo(x), \A v \in Others(w) : Apart(x, req[v]) /\ Apart(req[v], x)
    PROVE  IInv'
<1>1. /\ req'[w] = x /\ \A v \in Others(w) : req'[v] = req[v]
      /\ req' = [v \in Worker |-> req'[v]]
  BY DEF IInv, Others
<1>2. /\ clients' = clients /\ sessions' = sessions /\ grants' = grants /\ tabs' = tabs
      /\ used' = used /\ revoked' = revoked /\ mailed' = mailed /\ events' = events
  BY DEF tables
<1>3. ASSUME NEW v \in Worker PROVE Solo(req[v])'
  <2>1. Solo(req'[v])
    BY <1>1 DEF IInv, Others
  <2>. QED BY <1>2, <2>1 DEF Solo, ParentsStored, MovesStored, SessionsEmptied, ClientsEmptied,
                           SeenHandedOver, Present
<1>4. ASSUME NEW u \in Worker, NEW v \in Others(u) PROVE Apart(req[v], req[u])'
  <2>1. Apart(req'[v], req'[u])
    BY <1>1 DEF IInv, Others
  <2>. QED BY <1>2, <2>1 DEF Apart
<1>5. ForeignKeysHold'
  <2>1. \A v \in Worker : req'[v].kind \in Kind
                          /\ req'[v].pc \in RequestPC \cup DeletionPC \cup {"idle", "refused"}
    BY <1>1 DEF IInv, Solo, ShapeOK, RecordOK, Others
  <2>2. ForeignKeysHold
    BY DEF IInv
  <2>. QED BY <1>2, <2>1, <2>2 DEF ForeignKeysHold, TypeOK, Present
<1>. QED BY <1>1, <1>3, <1>4, <1>5 DEF IInv, Others

\* A transaction that has written nothing meets nobody but in what it relies on.
LEMMA UnwrittenStep ==
    ASSUME IInv, UNCHANGED tables, NEW w \in Worker, NEW x,
           req' = [req EXCEPT ![w] = x], ShapeOK(x), ParentsStored(x),
           x.pc \notin DeletionPC, \A v \in Others(w) : Relies(x, req[v].gone)
    PROVE  IInv'
<1>1. x.gone = {} /\ x.handled = {} /\ DOMAIN x.moves = {} /\ x.seen = {}
  BY DEF ShapeOK, StagesOK, Flushed
<1>2. Solo(x)
  BY <1>1 DEF Solo, MovesStored, SessionsEmptied, ClientsEmptied, SeenHandedOver, DeletionPC
<1>3. ASSUME NEW v \in Others(w) PROVE Apart(x, req[v]) /\ Apart(req[v], x)
  BY <1>1 DEF Apart, Relies
<1>. QED BY <1>2, <1>3, LocalStep

LEMMA FinishInv ==
    ASSUME IInv, UNCHANGED tables, NEW w \in Worker, Finish(w) \/ Refuse(w)
    PROVE  IInv'
<1>1. ASSUME NEW x, req' = [req EXCEPT ![w] = x], DOMAIN x = Fields, x.kind = "login",
             x.pc \in {"idle", "refused"}, x.client = None, x.sess = None, x.keys = {},
             x.scope = {}, x.look = {}, DOMAIN x.moves = {}, x.gone = {}, x.handled = {},
             x.seen = {}
      PROVE  IInv'
  <2>1. ShapeOK(x) /\ ParentsStored(x)
    BY <1>1 DEF ShapeOK, RecordOK, StagesOK, RequestOK, ParentsStored, LocksSession, Sharing, Holding, Flushed,
           DeletionPC, RequestPC, Kind
  <2>2. \A v \in Others(w) : Relies(x, req[v].gone)
    BY <1>1 DEF Relies, Sharing, Holding, LocksSession
  <2>. QED BY <1>1, <2>1, <2>2, UnwrittenStep DEF DeletionPC
<1>2. CASE Finish(w)
  <2>1. /\ Idle.kind = "login" /\ Idle.pc = "idle" /\ Idle.client = None /\ Idle.sess = None
        /\ Idle.keys = {} /\ Idle.scope = {} /\ Idle.look = {} /\ DOMAIN Idle.moves = {}
        /\ Idle.gone = {} /\ Idle.handled = {} /\ Idle.seen = {}
    BY DEF Idle
  <2>. QED BY <1>1, <1>2, <2>1, IdleFields DEF Finish
<1>3. CASE Refuse(w)
  <2>. DEFINE x == [Idle EXCEPT !.pc = "refused", !.overtaken = req[w].overtaken]
  <2>1. /\ DOMAIN x = Fields /\ x.kind = "login" /\ x.pc = "refused" /\ x.client = None
        /\ x.sess = None /\ x.keys = {} /\ x.scope = {} /\ x.look = {} /\ DOMAIN x.moves = {}
        /\ x.gone = {} /\ x.handled = {} /\ x.seen = {}
    BY IdleFields DEF Idle
  <2>2. req' = [req EXCEPT ![w] = x]
    BY <1>3 DEF Refuse
  <2>. HIDE DEF x
  <2>. QED BY <1>1, <2>1, <2>2
<1>. QED BY <1>2, <1>3

\* What each arrival asks for.
Asks(w, kind, pc, c, s, keys) ==
    /\ Arrives(w, kind, pc, c, s, keys)
    /\ kind \in {"visit", "login", "redeem", "refresh", "logout", "mail"}
    /\ pc \in {"lock", "claim", "insert"} /\ c \in Client
    /\ s \in Session \cup {None} /\ keys \subseteq Grant \cup Tab
    /\ pc = "insert" => keys = {}
    /\ kind \in {"redeem", "refresh", "logout"} => s \in Session
    /\ kind \in {"redeem", "refresh"} => keys \subseteq Grant /\ keys # {}
    /\ kind \in {"visit", "login", "mail"} => s = None
    /\ kind = "visit" => keys = {} /\ pc = "insert"
    /\ kind = "mail" => keys \subseteq Tab
    /\ kind = "redeem" => \A k \in keys : grants[k].st # "absent" /\ grants[k].sess = s
    /\ kind \in {"refresh", "logout"} => pc = "lock"

LEMMA ArrivalForms ==
    ASSUME IInv, NEW w \in Web, Arrive(w)
    PROVE  \E kind, pc, c, s, keys : Asks(w, kind, pc, c, s, keys)
<1>1. /\ TypeOK
      /\ \A g \in Present(grants) : /\ g \in Grant /\ grants[g].sess \in Session
                                    /\ grants[g].client \in Client
      /\ \A a \in Present(tabs) : a \in Tab /\ tabs[a].client \in Client
      /\ Present(sessions) \subseteq Session
  BY DEF IInv, ForeignKeysHold, TypeOK, Present
<1>2. ASSUME NEW c \in Client, Visit(w, c) PROVE Asks(w, "visit", "insert", c, None, {})
  BY <1>2 DEF Visit, Asks
<1>3. ASSUME NEW c \in Client, Login(w, c) PROVE Asks(w, "login", "insert", c, None, {})
  BY <1>3 DEF Login, Asks
<1>4. ASSUME NEW k \in Code, Redeem(w, k)
      PROVE  Asks(w, "redeem", "claim", grants[k].client, grants[k].sess, {k})
  <2>1. k \in Present(grants) /\ grants[k].st # "absent"
    BY <1>4 DEF Redeem, Present
  <2>. QED BY <1>1, <1>4, <2>1 DEF Redeem, Asks
<1>5. ASSUME NEW k \in Token, Refresh(w, k)
      PROVE  Asks(w, "refresh", "lock", grants[k].client, grants[k].sess, {k})
  BY <1>1, <1>5 DEF Refresh, Asks
<1>6. ASSUME NEW k \in Token, Logout(w, k)
      PROVE  Asks(w, "logout", "lock", grants[k].client, grants[k].sess, {})
  <2>1. grants[k].client \in clients /\ clients \subseteq Client /\ grants[k].sess \in Session
    BY <1>1, <1>6 DEF Logout, Arrives, TypeOK
  <2>. QED BY <1>6, <2>1 DEF Logout, Asks
<1>7. ASSUME NEW a \in Tab, Submit(w, a)
      PROVE  Asks(w, "login", "claim", tabs[a].client, None, {a})
  BY <1>1, <1>7 DEF Submit, Asks
<1>8. ASSUME NEW a \in Tab, Mail(w, a)
      PROVE  Asks(w, "mail", "claim", tabs[a].client, None, {a})
  BY <1>1, <1>8 DEF Mail, Asks
<1>. QED BY <1>2, <1>3, <1>4, <1>5, <1>6, <1>7, <1>8 DEF Arrive

LEMMA ArriveInv ==
    ASSUME IInv, NEW w \in Web, Arrive(w)
    PROVE  IInv'
<1>1. PICK kind, pc, c, s, keys : Asks(w, kind, pc, c, s, keys)
  BY ArrivalForms
<1>. DEFINE x == Asking(kind, pc, c, s, keys)
<1>2. req' = [req EXCEPT ![w] = x] /\ UNCHANGED tables
  BY <1>1 DEF Asks, Arrives
<1>3. /\ x.kind = kind /\ x.pc = pc /\ x.client = c /\ x.sess = s /\ x.keys = keys
      /\ x.scope = {} /\ x.look = {} /\ DOMAIN x.moves = {} /\ x.gone = {} /\ x.handled = {}
      /\ x.seen = {} /\ DOMAIN x = Fields
  BY IdleFields DEF Asking, Idle, Fields
<1>. HIDE DEF x
<1>4. RecordOK(x) /\ StagesOK(x)
  BY <1>1, <1>3 DEF Asks, RecordOK, StagesOK, Flushed, DeletionPC, RequestPC, Kind
<1>5. RequestOK(x)
  BY <1>1, <1>3 DEF Asks, RequestOK, Holding
<1>6. ParentsStored(x)
  BY <1>1, <1>3 DEF Asks, ParentsStored, LocksSession, Sharing, Holding
<1>7. ASSUME NEW v \in Others(w) PROVE Relies(x, req[v].gone)
  <2>1. ~LocksSession(x) /\ ~Sharing(x) /\ x.pc # "store" /\ (Holding(x) => x.keys = {})
    BY <1>1, <1>3 DEF Asks, LocksSession, Sharing, Holding
  <2>. QED BY <1>3, <2>1 DEF Relies
<1>8. x.pc \notin DeletionPC
  BY <1>1, <1>3 DEF Asks, DeletionPC
<1>. QED BY <1>2, <1>4, <1>5, <1>6, <1>7, <1>8, UnwrittenStep DEF ShapeOK, Worker

LEMMA DeletionStartInv ==
    ASSUME IInv, NEW w \in Admin, RealmDelete(w) \/ \E c \in Client : ClientDelete(w, c)
    PROVE  IInv'
<1>1. ASSUME NEW x, req' = [req EXCEPT ![w] = x], UNCHANGED tables, DOMAIN x = Fields,
             x.kind \in Deletion, x.pc \in {"look", "messages"}, x.client = None, x.sess = None,
             x.keys = {}, x.scope \subseteq Client, x.look \subseteq Session,
             DOMAIN x.moves = {}, x.gone = {}, x.handled = {}, x.seen = {}
      PROVE  IInv'
  <2>1. ShapeOK(x)
    BY <1>1 DEF ShapeOK, RecordOK, StagesOK, RequestOK, Deletion, DeletionPC, RequestPC, Kind
  <2>2. Solo(x)
    BY <1>1, <2>1 DEF Solo, ParentsStored, LocksSession, Sharing, Holding, Deletion, MovesStored,
           SessionsEmptied, ClientsEmptied, SeenHandedOver
  <2>3. ASSUME NEW v \in Others(w) PROVE Apart(x, req[v]) /\ Apart(req[v], x)
    <3>1. ~Sharing(x) /\ ~Holding(x) /\ ~LocksSession(x) /\ x.pc # "store"
      BY <1>1 DEF Sharing, Holding, LocksSession, Deletion
    <3>. QED BY <1>1, <3>1 DEF Apart, Relies
  <2>. QED BY <1>1, <2>2, <2>3, LocalStep DEF Worker
<1>2. CASE RealmDelete(w)
  <2>. DEFINE x == [Idle EXCEPT !.kind = "delete_realm", !.pc = "messages", !.scope = Client]
  <2>1. /\ DOMAIN x = Fields /\ x.kind \in Deletion /\ x.pc \in {"look", "messages"}
        /\ x.client = None /\ x.sess = None /\ x.keys = {} /\ x.scope \subseteq Client
        /\ x.look \subseteq Session /\ DOMAIN x.moves = {} /\ x.gone = {} /\ x.handled = {}
        /\ x.seen = {}
    BY IdleFields DEF Idle, Deletion
  <2>2. req' = [req EXCEPT ![w] = x] /\ UNCHANGED tables
    BY <1>2 DEF RealmDelete
  <2>. HIDE DEF x
  <2>. QED BY <1>1, <2>1, <2>2
<1>3. ASSUME NEW c \in Client, ClientDelete(w, c) PROVE IInv'
  <2>. DEFINE owned == {s \in Present(sessions) : sessions[s].client = c}
              x == [Idle EXCEPT !.kind = "delete_client", !.pc = "look", !.scope = {c},
                                !.look = owned]
  <2>1. owned \subseteq Session
    BY DEF IInv, ForeignKeysHold, TypeOK, Present
  <2>2. req' = [req EXCEPT ![w] = x] /\ UNCHANGED tables
    BY <1>3 DEF ClientDelete
  <2>. HIDE DEF owned
  <2>3. /\ DOMAIN x = Fields /\ x.kind \in Deletion /\ x.pc \in {"look", "messages"}
        /\ x.client = None /\ x.sess = None /\ x.keys = {} /\ x.scope \subseteq Client
        /\ x.look \subseteq Session /\ DOMAIN x.moves = {} /\ x.gone = {} /\ x.handled = {}
        /\ x.seen = {}
    BY <2>1, IdleFields DEF Idle, Deletion
  <2>. HIDE DEF x
  <2>. QED BY <1>1, <2>2, <2>3
<1>. QED BY <1>2, <1>3

-----------------------------------------------------------------------------
(* Statements of a request.                                                 *)

\* The record of a request goes on, about `c`, `s` and `keys`.
Goes(r, x, kind, pc, c, s, keys) ==
    /\ DOMAIN x = Fields /\ x.kind = kind /\ x.pc = pc /\ x.client = c /\ x.sess = s
    /\ x.keys = keys /\ x.gone = r.gone /\ x.handled = r.handled
    /\ x.scope = r.scope /\ x.look = r.look /\ x.moves = r.moves /\ x.seen = r.seen
    /\ x.overtaken = r.overtaken

\* A statement moves on to `pc`, having removed `keys` and handled `rows`.
Step(r, x, pc, keys, rows) ==
    /\ DOMAIN x = Fields /\ x.pc = pc
    /\ x.gone = r.gone \cup keys /\ x.handled = r.handled \cup rows
    /\ x.kind = r.kind /\ x.client = r.client /\ x.sess = r.sess /\ x.keys = r.keys
    /\ x.scope = r.scope /\ x.look = r.look /\ x.moves = r.moves /\ x.seen = r.seen
    /\ x.overtaken = r.overtaken

LEMMA StepForms ==
    ASSUME IInv, NEW w \in Worker, NEW pc
    PROVE  /\ Goto(w, pc) => \E x : /\ req' = [req EXCEPT ![w] = x]
                                   /\ Step(req[w], x, pc, {}, {})
           /\ \A keys : Removes(w, keys, pc) => \E x : /\ req' = [req EXCEPT ![w] = x]
                                                      /\ Step(req[w], x, pc, keys, {})
           /\ \A rows : Handles(w, rows, pc) => \E x : /\ req' = [req EXCEPT ![w] = x]
                                                      /\ Step(req[w], x, pc, {}, rows)
<1>1. ASSUME NEW r, DOMAIN r = Fields
      PROVE  /\ Step(r, [r EXCEPT !.pc = pc], pc, {}, {})
             /\ \A keys : Step(r, [r EXCEPT !.pc = pc, !.gone = @ \cup keys], pc, keys, {})
             /\ \A rows : Step(r, [r EXCEPT !.pc = pc, !.handled = @ \cup rows], pc, {}, rows)
  <2>1. Step(r, [r EXCEPT !.pc = pc], pc, {}, {})
    BY <1>1 DEF Step, Fields
  <2>2. ASSUME NEW keys
        PROVE  Step(r, [r EXCEPT !.pc = pc, !.gone = @ \cup keys], pc, keys, {})
    BY <1>1 DEF Step, Fields
  <2>3. ASSUME NEW rows
        PROVE  Step(r, [r EXCEPT !.pc = pc, !.handled = @ \cup rows], pc, {}, rows)
    BY <1>1 DEF Step, Fields
  <2>. QED BY <2>1, <2>2, <2>3
<1>2. DOMAIN req[w] = Fields
  BY DEF IInv, Solo, ShapeOK, RecordOK
<1>3. ASSUME Goto(w, pc)
      PROVE  \E x : req' = [req EXCEPT ![w] = x] /\ Step(req[w], x, pc, {}, {})
  BY <1>1, <1>2, <1>3 DEF Goto
<1>4. ASSUME NEW keys, Removes(w, keys, pc)
      PROVE  \E x : req' = [req EXCEPT ![w] = x] /\ Step(req[w], x, pc, keys, {})
  <2>. DEFINE x == [req[w] EXCEPT !.pc = pc, !.gone = req[w].gone \cup keys]
  <2>1. req' = [req EXCEPT ![w] = x]
    BY <1>4 DEF Removes
  <2>2. Step(req[w], x, pc, keys, {})
    BY <1>1, <1>2
  <2>. QED BY <2>1, <2>2
<1>5. ASSUME NEW rows, Handles(w, rows, pc)
      PROVE  \E x : req' = [req EXCEPT ![w] = x] /\ Step(req[w], x, pc, {}, rows)
  <2>. DEFINE x == [req[w] EXCEPT !.pc = pc, !.handled = req[w].handled \cup rows]
  <2>1. req' = [req EXCEPT ![w] = x]
    BY <1>5 DEF Handles
  <2>2. Step(req[w], x, pc, {}, rows)
    BY <1>1, <1>2
  <2>. QED BY <2>1, <2>2
<1>. QED BY <1>3, <1>4, <1>5

\* What the invariant says of the others, with what a step of `w` may rely on.
LEMMA OthersKnown ==
    ASSUME IInv, NEW w \in Worker, NEW v \in Others(w)
    PROVE  /\ v \in Worker /\ Solo(req[v]) /\ Solo(req[w])
           /\ ShapeOK(req[v]) /\ RecordOK(req[v]) /\ StagesOK(req[v]) /\ RequestOK(req[v])
           /\ Apart(req[v], req[w]) /\ Apart(req[w], req[v])
           /\ Relies(req[w], req[v].gone) /\ Relies(req[v], req[w].gone)
BY DEF IInv, Others, Solo, ShapeOK, Apart

LEMMA NobodyBlocks ==
    ASSUME NEW w \in Worker, Blockers(w) = {}, NEW v \in Others(w)
    PROVE  /\ req[w].pc = "lock" => ~HoldsSession(v, req[w].sess)
           /\ req[w].pc = "claim" => \A k \in req[w].keys : ~HoldsKey(v, k)
           /\ req[w].pc = "revoke" => \A t \in Unrevoked(req[w].sess) : ~HoldsKey(v, t)
           /\ req[w].pc = "insert" => {req[w].client, req[w].sess} \cap req[v].gone = {}
           /\ req[w].pc = "flush" => /\ ~HoldsSession(v, req[w].sess)
                                     /\ req[w].client \notin req[v].gone
           /\ req[w].pc = "messages" => TabsHit(w) \cap mailed \cap req[v].handled = {}
           /\ req[w].pc = "events" => EventsHit(w) \cap req[v].handled = {}
           /\ req[w].pc = "codes" => \A g \in GrantsHit(w, Code) : ~HoldsKey(v, g)
           /\ req[w].pc = "tokens" => \A g \in GrantsHit(w, Token) : ~HoldsKey(v, g)
           /\ req[w].pc = "tabs" => \A a \in TabsHit(w) : ~HoldsKey(v, a)
           /\ req[w].pc = "sessions" => \A s \in Owned(w) : ~HoldsSession(v, s)
                                                          /\ ~SharesSession(v, s)
           /\ req[w].pc = "clients" => \A c \in req[w].scope \cap clients :
                  c \notin req[v].gone /\ ~SharesClient(v, c)
<1>1. CASE req[w].pc = "lock"
  BY <1>1 DEF Blockers
<1>2. CASE req[w].pc = "claim"
  BY <1>2 DEF Blockers
<1>3. CASE req[w].pc = "revoke"
  BY <1>3 DEF Blockers
<1>4. CASE req[w].pc = "insert"
  BY <1>4 DEF Blockers
<1>5. CASE req[w].pc = "flush"
  BY <1>5 DEF Blockers
<1>6. CASE req[w].pc = "messages"
  BY <1>6 DEF Blockers
<1>7. CASE req[w].pc = "events"
  BY <1>7 DEF Blockers
<1>8. CASE req[w].pc = "codes"
  BY <1>8 DEF Blockers
<1>9. CASE req[w].pc = "tokens"
  BY <1>9 DEF Blockers
<1>10. CASE req[w].pc = "tabs"
  BY <1>10 DEF Blockers
<1>11. CASE req[w].pc = "sessions"
  BY <1>11 DEF Blockers
<1>12. CASE req[w].pc = "clients"
  BY <1>12 DEF Blockers
<1>. QED BY <1>1, <1>2, <1>3, <1>4, <1>5, <1>6, <1>7, <1>8, <1>9, <1>10, <1>11, <1>12

\* A request that goes on as one of `kind`, at `pc`.
LEMMA RequestStep ==
    ASSUME IInv, UNCHANGED tables, NEW w \in Worker, NEW x, NEW kind \in Kind,
           NEW pc \in RequestPC, NEW c \in Client \cup {None}, NEW s \in Session \cup {None},
           NEW keys, keys \subseteq Grant \cup Tab,
           req' = [req EXCEPT ![w] = x], Goes(req[w], x, kind, pc, c, s, keys),
           req[w].pc \in RequestPC, RequestOK(x), ParentsStored(x),
           \A v \in Others(w) : Relies(x, req[v].gone)
    PROVE  IInv'
<1>1. RecordOK(req[w]) /\ StagesOK(req[w])
  BY DEF IInv, Solo, ShapeOK
<1>2. RecordOK(x)
  BY <1>1 DEF Goes, RecordOK
<1>3. StagesOK(x) /\ x.pc \notin DeletionPC
  BY <1>1 DEF Goes, StagesOK, RequestPC, DeletionPC, Flushed
<1>. QED BY <1>2, <1>3, UnwrittenStep DEF ShapeOK

\* What a request is, and that a change of its record changes no more.
LEMMA RequestFacts ==
    ASSUME IInv, NEW w \in Worker, req[w].pc \in RequestPC
    PROVE  LET r == req[w] IN
           /\ RecordOK(r) /\ StagesOK(r) /\ RequestOK(r) /\ ParentsStored(r)
           /\ r.kind \in Kind /\ r.client \in Client \cup {None}
           /\ r.sess \in Session \cup {None} /\ r.keys \subseteq Grant \cup Tab
           /\ r.gone = {} /\ r.handled = {} /\ DOMAIN r.moves = {}
           /\ \A v \in Others(w) : Relies(r, req[v].gone)
           /\ \A pc : Goes(r, [r EXCEPT !.pc = pc], r.kind, pc, r.client, r.sess, r.keys)
           /\ \A kind, pc : Goes(r, [r EXCEPT !.kind = kind, !.pc = pc],
                                 kind, pc, r.client, r.sess, r.keys)
           /\ \A kind, pc, s : Goes(r, [r EXCEPT !.kind = kind, !.pc = pc, !.sess = s],
                                    kind, pc, r.client, s, r.keys)
           /\ \A pc, keys : Goes(r, [r EXCEPT !.pc = pc, !.keys = keys],
                                 r.kind, pc, r.client, r.sess, keys)
           /\ \A pc, c : Goes(r, [r EXCEPT !.pc = pc, !.client = c],
                              r.kind, pc, c, r.sess, r.keys)
<1>. DEFINE r == req[w]
<1>1. Solo(r) /\ RecordOK(r) /\ StagesOK(r) /\ RequestOK(r) /\ ParentsStored(r)
      /\ DOMAIN r = Fields
  BY DEF IInv, Solo, ShapeOK, RecordOK
<1>2. r.gone = {} /\ r.handled = {} /\ DOMAIN r.moves = {}
  BY <1>1 DEF StagesOK, RequestPC, DeletionPC, Flushed
<1>3. \A v \in Others(w) : Relies(r, req[v].gone)
  BY OthersKnown
<1>. HIDE DEF r
<1>4. /\ \A pc : Goes(r, [r EXCEPT !.pc = pc], r.kind, pc, r.client, r.sess, r.keys)
      /\ \A kind, pc : Goes(r, [r EXCEPT !.kind = kind, !.pc = pc],
                            kind, pc, r.client, r.sess, r.keys)
  BY <1>1 DEF Goes, Fields
<1>5. \A kind, pc, s : Goes(r, [r EXCEPT !.kind = kind, !.pc = pc, !.sess = s],
                            kind, pc, r.client, s, r.keys)
  BY <1>1 DEF Goes, Fields
<1>6. /\ \A pc, keys : Goes(r, [r EXCEPT !.pc = pc, !.keys = keys],
                            r.kind, pc, r.client, r.sess, keys)
      /\ \A pc, c : Goes(r, [r EXCEPT !.pc = pc, !.client = c], r.kind, pc, c, r.sess, r.keys)
  BY <1>1 DEF Goes, Fields
<1>. QED BY <1>1, <1>2, <1>3, <1>4, <1>5, <1>6 DEF r, RecordOK

LEMMA ReuseInv ==
    ASSUME IInv, NEW w \in Worker, NEW s \in Session, Reuse(w, s)
    PROVE  IInv'
<1>. DEFINE r == req[w]
            x == [r EXCEPT !.kind = "sso", !.pc = "lock", !.sess = s]
<1>1. r.pc = "store" /\ r.kind = "visit" /\ req' = [req EXCEPT ![w] = x] /\ UNCHANGED tables
  BY DEF Reuse
<1>2. /\ r.client \in Client \cup {None} /\ r.keys \subseteq Grant \cup Tab /\ RequestOK(r)
      /\ ParentsStored(r) /\ Goes(r, x, "sso", "lock", r.client, s, r.keys)
      /\ \A v \in Others(w) : Relies(r, req[v].gone)
  BY <1>1, RequestFacts DEF RequestPC
<1>. HIDE DEF x, r
<1>3. RequestOK(x) /\ ParentsStored(x)
  BY <1>1, <1>2 DEF Goes, RequestOK, ParentsStored, LocksSession, Sharing, Holding, RequestPC
<1>4. ASSUME NEW v \in Others(w) PROVE Relies(x, req[v].gone)
  <2>1. ~LocksSession(x) /\ ~Holding(x) /\ Sharing(r) /\ x.pc # "store"
        /\ x.client = r.client /\ x.moves = r.moves /\ x.gone = r.gone
    BY <1>1, <1>2 DEF Goes, LocksSession, Holding, Sharing
  <2>. QED BY <1>2, <2>1 DEF Relies
<1>. QED BY <1>1, <1>2, <1>3, <1>4, RequestStep DEF RequestPC, Kind, r

LEMMA LockSessionInv ==
    ASSUME IInv, NEW w \in Worker, LockSession(w)
    PROVE  IInv'
<1>. DEFINE r == req[w]
<1>1. r.pc = "lock" /\ UNCHANGED tables /\ \A v \in Others(w) : ~HoldsSession(v, r.sess)
  BY NobodyBlocks DEF LockSession, Runs
<1>2. /\ r.client \in Client \cup {None} /\ r.sess \in Session \cup {None}
      /\ r.keys \subseteq Grant \cup Tab /\ RequestOK(r) /\ ParentsStored(r)
      /\ \A v \in Others(w) : Relies(r, req[v].gone)
      /\ r.kind \in Kind
      /\ \A pc : Goes(r, [r EXCEPT !.pc = pc], r.kind, pc, r.client, r.sess, r.keys)
      /\ \A kind, pc : Goes(r, [r EXCEPT !.kind = kind, !.pc = pc],
                            kind, pc, r.client, r.sess, r.keys)
  BY <1>1, RequestFacts DEF RequestPC
<1>3. ASSUME NEW x, req' = [req EXCEPT ![w] = x], Lockable(r), NEW kind, NEW pc,
             Goes(r, x, kind, pc, r.client, r.sess, r.keys),
             \/ r.kind = "sso" /\ kind = "sso" /\ pc = "store"
             \/ r.kind = "logout" /\ kind = "logout" /\ pc = "revoke"
             \/ r.kind = "refresh" /\ kind = "refresh" /\ pc = "claim"
             \/ r.kind = "refresh" /\ kind = "detect" /\ pc = "revoke"
      PROVE  IInv'
  <2>. HIDE DEF r
  <2>1. RequestOK(x)
    BY <1>1, <1>2, <1>3 DEF Goes, RequestOK, Holding, RequestPC
  <2>2. ParentsStored(x)
    BY <1>1, <1>2, <1>3 DEF Goes, RequestOK, ParentsStored, LocksSession, Sharing, Holding, Lockable, RequestPC
  <2>3. ASSUME NEW v \in Others(w) PROVE Relies(x, req[v].gone)
    <3>1. r.sess \notin req[v].gone
      BY <1>1 DEF HoldsSession
    <3>2. /\ Sharing(x) => Sharing(r)
          /\ Holding(x) => x.keys = {}
          /\ x.client = r.client /\ x.sess = r.sess /\ x.moves = r.moves /\ x.gone = r.gone
      BY <1>1, <1>2, <1>3 DEF Goes, RequestOK, Sharing, Holding, RequestPC
    <3>. QED BY <1>2, <3>1, <3>2 DEF Relies
  <2>4. kind \in Kind /\ pc \in RequestPC
    BY <1>3 DEF Kind, RequestPC
  <2>. QED BY <1>1, <1>2, <1>3, <2>1, <2>2, <2>3, <2>4, RequestStep DEF RequestPC, r
<1>4. ASSUME NEW pc, Goto(w, pc), Lockable(r),
             \/ r.kind = "sso" /\ pc = "store"
             \/ r.kind = "logout" /\ pc = "revoke"
             \/ r.kind = "refresh" /\ pc = "claim"
      PROVE  IInv'
  <2>1. req' = [req EXCEPT ![w] = [r EXCEPT !.pc = pc]]
    BY <1>4 DEF Goto
  <2>2. Goes(r, [r EXCEPT !.pc = pc], r.kind, pc, r.client, r.sess, r.keys)
    BY <1>2
  <2>. QED BY <1>3, <1>4, <2>1, <2>2
<1>5. ASSUME Lockable(r), r.kind = "refresh",
             req' = [req EXCEPT ![w] = [r EXCEPT !.kind = "detect", !.pc = "revoke"]]
      PROVE  IInv'
  <2>1. Goes(r, [r EXCEPT !.kind = "detect", !.pc = "revoke"], "detect", "revoke",
             r.client, r.sess, r.keys)
    BY <1>2
  <2>. QED BY <1>3, <1>5, <2>1
<1>6. CASE Finish(w)
  BY <1>1, <1>6, FinishInv
<1>. QED BY <1>4, <1>5, <1>6 DEF LockSession

LEMMA ClaimInv ==
    ASSUME IInv, NEW w \in Worker, Claim(w)
    PROVE  IInv'
<1>. DEFINE r == req[w]
<1>1. r.pc = "claim" /\ UNCHANGED tables
      /\ \A v \in Others(w) : \A k \in r.keys : ~HoldsKey(v, k)
  BY NobodyBlocks DEF Claim, Runs
<1>2. CASE Finish(w)
  BY <1>1, <1>2, FinishInv
<1>3. CASE Goto(w, "insert") /\ r.keys \subseteq Present(tabs) \cup Present(grants)
  <2>. DEFINE x == [r EXCEPT !.pc = "insert"]
  <2>1. /\ r.client \in Client \cup {None} /\ r.sess \in Session \cup {None} /\ r.kind \in Kind
        /\ r.keys \subseteq Grant \cup Tab /\ RequestOK(r) /\ ParentsStored(r)
        /\ \A v \in Others(w) : Relies(r, req[v].gone)
        /\ Goes(r, x, r.kind, "insert", r.client, r.sess, r.keys)
    BY <1>1, RequestFacts DEF RequestPC
  <2>2. req' = [req EXCEPT ![w] = x]
    BY <1>3 DEF Goto
  <2>. HIDE DEF x, r
  <2>3. RequestOK(x) /\ ParentsStored(x)
    BY <1>1, <1>3, <2>1 DEF Goes, RequestOK, ParentsStored, LocksSession, Sharing, Holding, RequestPC
  <2>4. ASSUME NEW v \in Others(w) PROVE Relies(x, req[v].gone)
    <3>1. r.keys \cap req[v].gone = {}
      BY <1>1 DEF HoldsKey
    <3>2. /\ Sharing(x) => Sharing(r)
          /\ LocksSession(x) => LocksSession(r)
          /\ x.pc # "store"
          /\ x.client = r.client /\ x.sess = r.sess /\ x.moves = r.moves /\ x.gone = r.gone
          /\ x.keys = r.keys
      BY <1>1, <2>1 DEF Goes, Sharing, LocksSession
    <3>. QED BY <2>1, <3>1, <3>2 DEF Relies
  <2>. QED BY <1>1, <2>1, <2>2, <2>3, <2>4, RequestStep DEF RequestPC, r
<1>. QED BY <1>1, <1>2, <1>3 DEF Claim

LEMMA RevokeInv ==
    ASSUME IInv, NEW w \in Worker, Revoke(w)
    PROVE  IInv'
<1>. DEFINE r == req[w]
            keys == Unrevoked(r.sess)
            x == [r EXCEPT !.pc = "insert", !.keys = keys]
<1>1. r.pc = "revoke" /\ UNCHANGED tables /\ req' = [req EXCEPT ![w] = x]
      /\ \A v \in Others(w) : \A t \in keys : ~HoldsKey(v, t)
  BY NobodyBlocks DEF Revoke, Runs
<1>2. /\ r.client \in Client \cup {None} /\ r.sess \in Session \cup {None} /\ r.kind \in Kind
      /\ RequestOK(r) /\ ParentsStored(r) /\ \A v \in Others(w) : Relies(r, req[v].gone)
      /\ Goes(r, x, r.kind, "insert", r.client, r.sess, keys)
  BY <1>1, RequestFacts DEF RequestPC
<1>3. keys \subseteq Token /\ keys \subseteq Present(grants) /\ keys \subseteq Grant \cup Tab
  BY DEF Unrevoked, Grant
<1>. HIDE DEF x, keys, r
<1>4. r.kind \in {"detect", "logout"} /\ LocksSession(r)
  BY <1>1, <1>2 DEF RequestOK, LocksSession, RequestPC
<1>5. RequestOK(x)
  BY <1>1, <1>2, <1>3, <1>4 DEF Goes, RequestOK, RequestPC
<1>6. ParentsStored(x)
  BY <1>1, <1>2, <1>3, <1>4 DEF Goes, ParentsStored, LocksSession, Sharing
<1>7. ASSUME NEW v \in Others(w) PROVE Relies(x, req[v].gone)
  <2>1. keys \cap req[v].gone = {}
    BY <1>1 DEF HoldsKey
  <2>2. /\ ~Sharing(x) /\ x.keys = keys
        /\ x.sess = r.sess /\ x.moves = r.moves /\ x.gone = r.gone
    BY <1>2, <1>4 DEF Goes, Sharing
  <2>. QED BY <1>2, <1>4, <2>1, <2>2 DEF Relies
<1>. QED BY <1>1, <1>2, <1>3, <1>5, <1>6, <1>7, RequestStep DEF RequestPC, r

LEMMA InsertInv ==
    ASSUME IInv, NEW w \in Worker, Insert(w)
    PROVE  IInv'
<1>. DEFINE r == req[w]
<1>1. r.pc = "insert" /\ UNCHANGED tables
      /\ \A v \in Others(w) : {r.client, r.sess} \cap req[v].gone = {}
  BY NobodyBlocks DEF Insert, Runs
<1>2. /\ r.client \in Client \cup {None} /\ r.sess \in Session \cup {None} /\ r.kind \in Kind
      /\ r.keys \subseteq Grant \cup Tab /\ RequestOK(r) /\ ParentsStored(r)
      /\ \A v \in Others(w) : Relies(r, req[v].gone)
      /\ \A pc, c : Goes(r, [r EXCEPT !.pc = pc, !.client = c],
                         r.kind, pc, c, r.sess, r.keys)
      /\ \A pc : Goes(r, [r EXCEPT !.pc = pc], r.kind, pc, r.client, r.sess, r.keys)
  BY <1>1, RequestFacts DEF RequestPC
<1>3. CASE Finish(w)
  BY <1>1, <1>3, FinishInv
<1>4. ASSUME NEW x, req' = [req EXCEPT ![w] = x], NEW c \in {r.client, None},
             Goes(r, x, r.kind, "store", c, r.sess, r.keys),
             \/ c = r.client /\ c \in clients /\ r.sess \in Present(sessions) \cup {None}
             \/ c = None /\ r.kind = "detect"
      PROVE  IInv'
  <2>. HIDE DEF r
  <2>1. RequestOK(x)
    BY <1>1, <1>2, <1>4 DEF Goes, RequestOK, Holding, RequestPC
  <2>2. ParentsStored(x)
    BY <1>1, <1>2, <1>4 DEF Goes, ParentsStored, LocksSession, Sharing, Holding
  <2>3. ASSUME NEW v \in Others(w) PROVE Relies(x, req[v].gone)
    <3>1. RecordOK(req[v])
      BY OthersKnown
    <3>2. None \notin req[v].gone
      BY <3>1, KeysAssumption DEF RecordOK, Grant
    <3>3. c \notin req[v].gone /\ r.sess \notin req[v].gone
      BY <1>1, <1>4, <3>2
    <3>4. /\ x.client = c /\ x.sess = r.sess /\ x.moves = r.moves /\ x.gone = r.gone
          /\ x.keys = r.keys /\ Holding(r)
      BY <1>1, <1>4 DEF Goes, Holding
    <3>. QED BY <1>2, <3>3, <3>4 DEF Relies
  <2>. QED BY <1>1, <1>2, <1>4, <2>1, <2>2, <2>3, RequestStep DEF RequestPC, r
<1>5. CASE Goto(w, "store") /\ r.client \in clients /\ r.sess \in Present(sessions) \cup {None}
  <2>1. req' = [req EXCEPT ![w] = [r EXCEPT !.pc = "store"]]
    BY <1>5 DEF Goto
  <2>2. Goes(r, [r EXCEPT !.pc = "store"], r.kind, "store", r.client, r.sess, r.keys)
    BY <1>2
  <2>. QED BY <1>4, <1>5, <2>1, <2>2
<1>6. CASE /\ r.kind = "detect"
           /\ req' = [req EXCEPT ![w] = [r EXCEPT !.pc = "store", !.client = None]]
  <2>1. Goes(r, [r EXCEPT !.pc = "store", !.client = None], r.kind, "store", None, r.sess, r.keys)
    BY <1>2
  <2>. QED BY <1>4, <1>6, <2>1
<1>. QED BY <1>3, <1>5, <1>6 DEF Insert

-----------------------------------------------------------------------------
(* The loop of delete_client over the sessions.                             *)

\* The loop goes on with `moves`, having seen more grants.
Turn(r, x, pc, c, s, look, moves, seen) ==
    /\ DOMAIN x = Fields /\ x.pc = pc /\ x.client = c /\ x.sess = s /\ x.look = look
    /\ x.moves = moves /\ x.seen = seen /\ x.kind = r.kind /\ x.keys = r.keys
    /\ x.scope = r.scope /\ x.gone = r.gone /\ x.handled = r.handled
    /\ x.overtaken = r.overtaken

LEMMA TurnForms ==
    ASSUME NEW r, DOMAIN r = Fields
    PROVE  /\ \A pc, c, s, look, seen :
                Turn(r, [r EXCEPT !.pc = pc, !.sess = s, !.client = c, !.look = look, !.seen = seen],
                     pc, c, s, look, r.moves, seen)
           /\ \A pc : Turn(r, [r EXCEPT !.pc = pc], pc, r.client, r.sess, r.look, r.moves, r.seen)
           /\ \A pc, c : Turn(r, [r EXCEPT !.pc = pc, !.client = c],
                              pc, c, r.sess, r.look, r.moves, r.seen)
           /\ \A pc, moves : Turn(r, [r EXCEPT !.pc = pc, !.moves = moves],
                                  pc, r.client, r.sess, r.look, moves, r.seen)
<1>1. \A pc, c, s, look, seen :
          Turn(r, [r EXCEPT !.pc = pc, !.sess = s, !.client = c, !.look = look, !.seen = seen],
               pc, c, s, look, r.moves, seen)
  BY DEF Turn, Fields
<1>2. /\ \A pc : Turn(r, [r EXCEPT !.pc = pc], pc, r.client, r.sess, r.look, r.moves, r.seen)
      /\ \A pc, c : Turn(r, [r EXCEPT !.pc = pc, !.client = c],
                         pc, c, r.sess, r.look, r.moves, r.seen)
  BY DEF Turn, Fields
<1>3. \A pc, moves : Turn(r, [r EXCEPT !.pc = pc, !.moves = moves],
                          pc, r.client, r.sess, r.look, moves, r.seen)
  BY DEF Turn, Fields
<1>. QED BY <1>1, <1>2, <1>3

LEMMA TurnStep ==
    ASSUME IInv, UNCHANGED tables, NEW w \in Worker, NEW x,
           req' = [req EXCEPT ![w] = x], req[w].pc \in {"look", "heirs", "flush"},
           NEW pc \in {"look", "heirs", "flush", "messages"},
           NEW c \in Client \cup {None}, NEW s \in Session \cup {None},
           NEW look, look \subseteq Session, NEW moves, NEW seen,
           Turn(req[w], x, pc, c, s, look, moves, seen),
           pc = "heirs" => s \in Session,
           pc = "flush" => s \in Session /\ c \in Client \ req[w].scope,
           \A y \in DOMAIN moves : /\ y \in Present(sessions) /\ moves[y] \in clients
                                   /\ moves[y] \notin req[w].scope,
           SeenHandedOver(x),
           \A v \in Others(w) : \A y \in DOMAIN moves :
               /\ y \notin req[v].gone \cup DOMAIN req[v].moves /\ moves[y] \notin req[v].gone
    PROVE  IInv'
<1>. DEFINE r == req[w]
<1>1. Solo(r) /\ RecordOK(r) /\ StagesOK(r) /\ ParentsStored(r)
  BY DEF IInv, Solo, ShapeOK
<1>2. /\ DOMAIN x = Fields /\ x.pc = pc /\ x.client = c /\ x.sess = s /\ x.look = look
      /\ x.moves = moves /\ x.kind = r.kind /\ x.keys = r.keys /\ x.scope = r.scope
      /\ x.gone = {} /\ x.handled = {}
  BY <1>1 DEF Turn, StagesOK, Flushed, DeletionPC
<1>3. TypeOK /\ Present(sessions) \subseteq Session /\ clients \subseteq Client
  BY DEF IInv, ForeignKeysHold, TypeOK, Present
<1>4. RecordOK(x)
  BY <1>1, <1>2, <1>3 DEF RecordOK, DeletionPC
<1>5. StagesOK(x) /\ RequestOK(x)
  BY <1>1, <1>2 DEF StagesOK, RequestOK, Flushed, DeletionPC, RequestPC
<1>6. ~LocksSession(x) /\ ~Holding(x) /\ ~Sharing(x) /\ x.kind # "redeem" /\ x.pc # "store"
  BY <1>1, <1>2 DEF LocksSession, Holding, Sharing, StagesOK, Deletion, DeletionPC
<1>7. Solo(x)
  BY <1>2, <1>4, <1>5, <1>6 DEF Solo, ShapeOK, ParentsStored, MovesStored, SessionsEmptied,
       ClientsEmptied
<1>8. ASSUME NEW v \in Others(w) PROVE Apart(x, req[v]) /\ Apart(req[v], x)
  <2>1. Apart(x, req[v])
    BY <1>2 DEF Apart, Relies
  <2>2. Apart(req[v], x)
    BY <1>2, <1>6 DEF Apart, Relies
  <2>. QED BY <2>1, <2>2
<1>. QED BY <1>7, <1>8, LocalStep

\* The grants of other clients, and the clients that may inherit.
LEMMA ForeignFacts ==
    ASSUME IInv, NEW w \in Worker, NEW s
    PROVE  /\ \A g \in Foreign(w, s) : /\ g \in Grant /\ grants[g].st = "present"
                                       /\ grants[g].sess = s
                                       /\ grants[g].client \notin req[w].scope
           /\ \A keys : Heirs(w, s, keys) \subseteq (Client \cap clients) \ req[w].scope
           /\ \A keys : Heirs(w, s, keys) = {} => Foreign(w, s) \cap keys = {}
<1>1. \A g \in Present(grants) : g \in Grant /\ grants[g].client \in Client \cap clients
  BY DEF IInv, ForeignKeysHold, TypeOK, Present
<1>2. \A g \in Foreign(w, s) : /\ g \in Grant /\ grants[g].st = "present"
                               /\ grants[g].sess = s
                               /\ grants[g].client \notin req[w].scope
                               /\ grants[g].client \in Client \cap clients
  BY <1>1 DEF Foreign, Present
<1>. QED BY <1>2 DEF Heirs

\* What a deletion has decided so far is still possible.
LEMMA MovesFacts ==
    ASSUME IInv, NEW w \in Worker
    PROVE  LET r == req[w] IN
           /\ Solo(r) /\ RecordOK(r) /\ StagesOK(r) /\ SeenHandedOver(r)
           /\ r.client \in Client \cup {None} /\ r.sess \in Session \cup {None}
           /\ r.look \subseteq Session /\ DOMAIN r = Fields
           /\ \A y \in DOMAIN r.moves : /\ y \in Present(sessions) /\ r.moves[y] \in clients
                                        /\ r.moves[y] \notin r.scope
           /\ \A v \in Others(w) : \A y \in DOMAIN r.moves :
                 y \notin req[v].gone \cup DOMAIN req[v].moves /\ r.moves[y] \notin req[v].gone
<1>. DEFINE r == req[w]
<1>1. Solo(r) /\ RecordOK(r) /\ StagesOK(r)
  BY DEF IInv, Solo, ShapeOK
<1>2. \A v \in Others(w) : Apart(req[v], r) /\ Relies(r, req[v].gone)
  BY OthersKnown
<1>. QED BY <1>1, <1>2 DEF Solo, RecordOK, MovesStored, Apart, Relies

\* The first read of a turn finds an heir, or leaves the codes to be asked for.
LEMMA LookTurn ==
    ASSUME IInv, UNCHANGED tables, NEW w \in Worker, req[w].pc = "look",
           NEW s \in req[w].look, NEW pc, NEW d, NEW x, req' = [req EXCEPT ![w] = x],
           Turn(req[w], x, pc, d, s, req[w].look \ {s}, req[w].moves,
                req[w].seen \cup Foreign(w, s)),
           \/ pc = "heirs" /\ d = None /\ Foreign(w, s) \cap Token = {}
           \/ pc = "flush" /\ d \in Client \ req[w].scope
    PROVE  IInv'
<1>. DEFINE r == req[w]
<1>1. /\ r.pc = "look" /\ SeenHandedOver(r) /\ StagesOK(r) /\ s \in Session
      /\ r.look \ {s} \subseteq Session
      /\ \A y \in DOMAIN r.moves : /\ y \in Present(sessions) /\ r.moves[y] \in clients
                                   /\ r.moves[y] \notin r.scope
      /\ \A v \in Others(w) : \A y \in DOMAIN r.moves :
            y \notin req[v].gone \cup DOMAIN req[v].moves /\ r.moves[y] \notin req[v].gone
  BY MovesFacts
<1>2. /\ x.pc = pc /\ x.sess = s /\ x.moves = r.moves /\ x.gone = {} /\ x.scope = r.scope
      /\ x.seen = r.seen \cup Foreign(w, s)
  BY <1>1 DEF Turn, StagesOK, Flushed
<1>3. s \in Pending(x) /\ Pending(r) = {} /\ r.scope = req[w].scope
  BY <1>1, <1>2 DEF Pending
<1>. HIDE DEF r
<1>4. ASSUME NEW g \in r.seen
      PROVE  /\ g \in Grant /\ grants[g].st # "absent" /\ grants[g].client \notin r.scope
             /\ grants[g].st = "present" => grants[g].sess \in DOMAIN r.moves
  BY <1>1, <1>3 DEF SeenHandedOver
<1>5. ASSUME NEW g \in Foreign(w, s)
      PROVE  /\ g \in Grant /\ grants[g].st = "present" /\ grants[g].client \notin r.scope
             /\ grants[g].sess = s /\ (pc = "heirs" => g \in Code)
  <2>1. /\ g \in Grant /\ grants[g].st = "present" /\ grants[g].client \notin req[w].scope
        /\ grants[g].sess = s
    BY <1>5, ForeignFacts
  <2>2. pc = "heirs" => Foreign(w, s) \cap Token = {}
    OBVIOUS
  <2>3. pc = "heirs" => g \in Code
    BY <1>5, <2>1, <2>2 DEF Grant
  <2>. QED BY <1>3, <2>1, <2>3
<1>6. SeenHandedOver(x)
  BY <1>2, <1>3, <1>4, <1>5 DEF SeenHandedOver
<1>7. req[w].pc \in {"look", "heirs", "flush"}
  OBVIOUS
<1>. DEFINE look == req[w].look \ {s}
            moves == req[w].moves
            seen == req[w].seen \cup Foreign(w, s)
<1>8. /\ look \subseteq Session /\ Turn(req[w], x, pc, d, s, look, moves, seen)
      /\ \A y \in DOMAIN moves :
            /\ y \in Present(sessions) /\ moves[y] \in clients /\ moves[y] \notin req[w].scope
      /\ \A v \in Others(w) : \A y \in DOMAIN moves :
            /\ y \notin req[v].gone \cup DOMAIN req[v].moves /\ moves[y] \notin req[v].gone
  BY MovesFacts
<1>. HIDE DEF look, moves, seen
<1>9. s \in Session
  BY <1>1
<1>10. CASE pc = "heirs" /\ d = None
  BY <1>6, <1>7, <1>8, <1>9, <1>10, TurnStep
<1>11. CASE pc = "flush" /\ d \in Client \ req[w].scope
  BY <1>6, <1>7, <1>8, <1>9, <1>11, TurnStep
<1>. QED BY <1>10, <1>11

LEMMA LookInv ==
    ASSUME IInv, NEW w \in Worker, Look(w)
    PROVE  IInv'
<1>. DEFINE r == req[w]
<1>1. /\ r.pc = "look" /\ UNCHANGED tables /\ SeenHandedOver(r) /\ DOMAIN r = Fields
  BY MovesFacts DEF Look
<1>2. CASE Goto(w, "messages")
  <2>. DEFINE x == [r EXCEPT !.pc = "messages"]
  <2>1. req' = [req EXCEPT ![w] = x]
    BY <1>2 DEF Goto
  <2>2. Turn(r, x, "messages", r.client, r.sess, r.look, r.moves, r.seen)
    BY <1>1, TurnForms
  <2>. HIDE DEF x
  <2>3. SeenHandedOver(x)
    BY <1>1, <2>2 DEF Turn, SeenHandedOver, Pending
  <2>. QED BY <1>1, <2>1, <2>2, <2>3, MovesFacts, TurnStep
<1>3. ASSUME NEW s \in r.look,
             NEW d \in IF Heirs(w, s, Token) = {} THEN {None} ELSE Heirs(w, s, Token),
             req' = [req EXCEPT ![w] =
                       [r EXCEPT !.pc = IF d = None THEN "heirs" ELSE "flush",
                                 !.sess = s, !.client = d,
                                 !.look = @ \ {s}, !.seen = @ \cup Foreign(w, s)]]
      PROVE  IInv'
  <2>. DEFINE pc == IF d = None THEN "heirs" ELSE "flush"
              x == [r EXCEPT !.pc = pc, !.sess = s, !.client = d,
                             !.look = @ \ {s}, !.seen = @ \cup Foreign(w, s)]
  <2>1. Turn(r, x, pc, d, s, r.look \ {s}, r.moves, r.seen \cup Foreign(w, s))
    BY <1>1, TurnForms
  <2>2. req' = [req EXCEPT ![w] = x]
    BY <1>3
  <2>3. \/ pc = "heirs" /\ d = None /\ Foreign(w, s) \cap Token = {}
        \/ pc = "flush" /\ d \in Client \ r.scope
    <3>1. /\ Heirs(w, s, Token) \subseteq Client \ r.scope
          /\ Heirs(w, s, Token) = {} => Foreign(w, s) \cap Token = {}
          /\ None \notin Client
      BY ForeignFacts, KeysAssumption
    <3>2. CASE Heirs(w, s, Token) = {}
      BY <1>3, <3>1, <3>2
    <3>3. CASE Heirs(w, s, Token) # {}
      <4>1. d \in Heirs(w, s, Token)
        BY <1>3, <3>3
      <4>2. d # None
        BY <3>1, <4>1
      <4>. QED BY <3>1, <4>1, <4>2
    <3>. QED BY <3>2, <3>3
  <2>. HIDE DEF pc, x
  <2>. QED BY <1>1, <2>1, <2>2, <2>3, LookTurn
<1>. QED BY <1>2, <1>3 DEF Look

LEMMA LookForCodesInv ==
    ASSUME IInv, NEW w \in Worker, LookForCodes(w)
    PROVE  IInv'
<1>. DEFINE r == req[w]
<1>1. /\ Solo(r) /\ RecordOK(r) /\ SeenHandedOver(r) /\ r.pc = "heirs" /\ UNCHANGED tables
      /\ r.gone = {} /\ DOMAIN r = Fields /\ r.sess \in Session
  BY DEF IInv, Solo, LookForCodes, ShapeOK, RecordOK, StagesOK, Flushed
<1>2. /\ r.client \in Client \cup {None} /\ r.sess \in Session \cup {None}
      /\ r.look \subseteq Session
      /\ \A y \in DOMAIN r.moves : /\ y \in Present(sessions) /\ r.moves[y] \in clients
                                   /\ r.moves[y] \notin r.scope
      /\ \A v \in Others(w) : \A y \in DOMAIN r.moves :
            /\ y \notin req[v].gone \cup DOMAIN req[v].moves /\ r.moves[y] \notin req[v].gone
  <2>1. \A v \in Others(w) : Apart(req[v], r) /\ Relies(r, req[v].gone)
    BY OthersKnown
  <2>. QED BY <1>1, <2>1 DEF Solo, RecordOK, MovesStored, Apart, Relies
<1>3. CASE Heirs(w, r.sess, Code) = {} /\ Goto(w, "look")
  <2>. DEFINE x == [r EXCEPT !.pc = "look"]
  <2>1. req' = [req EXCEPT ![w] = x]
    BY <1>3 DEF Goto
  <2>2. Turn(r, x, "look", r.client, r.sess, r.look, r.moves, r.seen)
    BY <1>1, TurnForms
  <2>. HIDE DEF x
  <2>3. \A g \in r.seen : grants[g].st = "present" => grants[g].sess \in DOMAIN r.moves
    <3>1. Foreign(w, r.sess) \cap Code = {}
      BY <1>3, ForeignFacts
    <3>2. DOMAIN grants = Grant
      BY DEF IInv, ForeignKeysHold, TypeOK
    <3>. QED BY <1>1, <3>1, <3>2 DEF SeenHandedOver, Pending, Foreign, Present
  <2>4. SeenHandedOver(x)
    BY <1>1, <2>2, <2>3 DEF Turn, SeenHandedOver, Pending
  <2>. QED BY <1>1, <1>2, <2>1, <2>2, <2>4, TurnStep
<1>4. ASSUME NEW d \in Heirs(w, r.sess, Code),
             req' = [req EXCEPT ![w] = [r EXCEPT !.pc = "flush", !.client = d]]
      PROVE  IInv'
  <2>. DEFINE x == [r EXCEPT !.pc = "flush", !.client = d]
  <2>1. Turn(r, x, "flush", d, r.sess, r.look, r.moves, r.seen)
    BY <1>1, TurnForms
  <2>2. req' = [req EXCEPT ![w] = x]
    BY <1>4
  <2>3. d \in Client \ r.scope
    BY <1>4, ForeignFacts
  <2>. HIDE DEF x
  <2>4. SeenHandedOver(x)
    BY <1>1, <2>1 DEF Turn, SeenHandedOver, Pending
  <2>. QED BY <1>1, <1>2, <2>1, <2>2, <2>3, <2>4, TurnStep
<1>. QED BY <1>3, <1>4 DEF LookForCodes

LEMMA FlushInv ==
    ASSUME IInv, NEW w \in Worker, Flush(w)
    PROVE  IInv'
<1>. DEFINE r == req[w]
            moves == [y \in DOMAIN r.moves \cup {r.sess} |->
                        IF y = r.sess THEN r.client ELSE r.moves[y]]
            x == [r EXCEPT !.pc = "look", !.moves = moves]
<1>1. /\ Solo(r) /\ RecordOK(r) /\ SeenHandedOver(r) /\ r.pc = "flush" /\ UNCHANGED tables
      /\ r.gone = {} /\ DOMAIN r = Fields /\ r.sess \in Session /\ r.client \in Client \ r.scope
      /\ \A v \in Others(w) : ~HoldsSession(v, r.sess) /\ r.client \notin req[v].gone
  BY NobodyBlocks DEF IInv, Solo, Flush, Runs, ShapeOK, RecordOK, StagesOK, Flushed
<1>2. CASE Refuse(w)
  BY <1>1, <1>2, FinishInv
<1>3. CASE /\ r.sess \in Present(sessions) /\ r.client \in clients
           /\ req' = [req EXCEPT ![w] = x]
  <2>1. Turn(r, x, "look", r.client, r.sess, r.look, moves, r.seen)
    BY <1>1, TurnForms
  <2>. HIDE DEF x
  <2>2. \A y \in DOMAIN moves : /\ y \in Present(sessions) /\ moves[y] \in clients
                                /\ moves[y] \notin r.scope
    BY <1>1, <1>3 DEF Solo, MovesStored, RecordOK
  <2>3. ASSUME NEW v \in Others(w), NEW y \in DOMAIN moves
        PROVE  y \notin req[v].gone \cup DOMAIN req[v].moves /\ moves[y] \notin req[v].gone
    <3>1. CASE y = r.sess
      BY <1>1, <3>1 DEF HoldsSession
    <3>2. CASE y # r.sess
      <4>1. Apart(req[v], r) /\ Relies(r, req[v].gone)
        BY OthersKnown
      <4>. QED BY <3>2, <4>1 DEF Apart, Relies
    <3>. QED BY <3>1, <3>2
  <2>4. DOMAIN moves = DOMAIN r.moves \cup {r.sess}
    OBVIOUS
  <2>. HIDE DEF moves
  <2>5. SeenHandedOver(x)
    BY <1>1, <2>1, <2>4 DEF Turn, SeenHandedOver, Pending
  <2>6. r.look \subseteq Session
    BY <1>1 DEF RecordOK
  <2>. QED BY <1>1, <1>3, <2>1, <2>2, <2>3, <2>5, <2>6, TurnStep
<1>. QED BY <1>2, <1>3 DEF Flush

-----------------------------------------------------------------------------
(* The statements that write.                                               *)

\* The next statement deletes `keys` and handles `rows`, and may do so.
Writes(w, x, keys, rows) ==
    /\ req' = [req EXCEPT ![w] = x] /\ Step(req[w], x, x.pc, keys, rows)
    /\ req[w].pc \in Flushed /\ x.pc \in Flushed
    /\ RecordOK(x) /\ StagesOK(x) /\ SessionsEmptied(x) /\ ClientsEmptied(x)
    /\ req[w].seen \cap keys = {}
    /\ \A v \in Others(w) : /\ Relies(req[v], keys)
                            /\ rows \cap req[v].handled \cap (events \cup mailed) = {}

LEMMA WriteStep ==
    ASSUME IInv, UNCHANGED tables, NEW w \in Worker, NEW x, NEW keys, NEW rows,
           Writes(w, x, keys, rows)
    PROVE  IInv'
<1>. DEFINE r == req[w]
<1>1. Solo(r) /\ RecordOK(r) /\ StagesOK(r)
  BY DEF IInv, Solo, ShapeOK
<1>2. /\ x.gone = r.gone \cup keys /\ x.handled = r.handled \cup rows
      /\ x.scope = r.scope /\ x.moves = r.moves /\ x.seen = r.seen /\ x.kind = r.kind
      /\ r.pc \in Flushed /\ x.pc \in Flushed /\ RecordOK(x) /\ StagesOK(x)
      /\ SessionsEmptied(x) /\ ClientsEmptied(x) /\ r.seen \cap keys = {}
      /\ req' = [req EXCEPT ![w] = x]
  BY DEF Writes, Step
<1>3. x.kind \in Deletion /\ r.pc \in DeletionPC
  BY <1>1, <1>2 DEF StagesOK, Flushed
<1>4. ~LocksSession(x) /\ ~Holding(x) /\ ~Sharing(x) /\ x.kind # "redeem" /\ x.pc # "store"
  BY <1>2, <1>3 DEF LocksSession, Holding, Sharing, Deletion, Flushed, DeletionPC
<1>5. RequestOK(x) /\ ParentsStored(x)
  BY <1>2, <1>4 DEF RequestOK, ParentsStored, Flushed, DeletionPC, RequestPC
<1>6. MovesStored(x)
  BY <1>1, <1>2 DEF Solo, MovesStored
<1>7. SeenHandedOver(x)
  <2>1. Pending(r) = {} /\ Pending(x) = {} /\ x.pc # "heirs"
    BY <1>2 DEF Pending, Flushed
  <2>. QED BY <1>1, <1>2, <2>1 DEF Solo, SeenHandedOver
<1>8. Solo(x)
  BY <1>2, <1>5, <1>6, <1>7 DEF Solo, ShapeOK
<1>9. ASSUME NEW v \in Others(w) PROVE Apart(x, req[v]) /\ Apart(req[v], x)
  <2>1. Apart(r, req[v]) /\ Apart(req[v], r) /\ Relies(req[v], keys)
        /\ rows \cap req[v].handled \cap (events \cup mailed) = {}
    BY OthersKnown DEF Writes
  <2>2. Relies(req[v], x.gone)
    BY <1>2, <2>1 DEF Apart, Relies
  <2>3. Apart(x, req[v])
    BY <1>2, <2>1, <2>2 DEF Apart
  <2>4. Relies(x, req[v].gone)
    BY <1>2, <1>4, <2>1 DEF Apart, Relies
  <2>5. Apart(req[v], x)
    BY <1>2, <2>1, <2>4 DEF Apart
  <2>. QED BY <2>3, <2>5
<1>. QED BY <1>2, <1>8, <1>9, LocalStep

\* Of what a deletion has found, and of all that another transaction has.
LEMMA DeletionFacts ==
    ASSUME IInv, NEW w \in Worker
    PROVE  /\ Solo(req[w]) /\ RecordOK(req[w]) /\ StagesOK(req[w]) /\ TypeOK
           /\ Owned(w) \subseteq Session
           /\ \A s \in Owned(w) : /\ s \in Present(sessions) /\ s \notin DOMAIN req[w].moves
                                  /\ sessions[s].client \in req[w].scope
           /\ \A k : \A g \in GrantsHit(w, k) :
                /\ g \in k /\ g \in Present(grants)
                /\ grants[g].client \in req[w].scope \/ grants[g].sess \in Owned(w)
           /\ TabsHit(w) \subseteq Tab
<1>1. Solo(req[w]) /\ RecordOK(req[w]) /\ StagesOK(req[w]) /\ TypeOK
  BY DEF IInv, Solo, ShapeOK, ForeignKeysHold
<1>2. Owned(w) \subseteq Session /\ TabsHit(w) \subseteq Tab
  BY <1>1 DEF Owned, TabsHit, Present, TypeOK
<1>3. ASSUME NEW s \in Owned(w)
      PROVE  s \in Present(sessions) /\ s \notin DOMAIN req[w].moves
             /\ sessions[s].client \in req[w].scope
  BY <1>1, <1>3 DEF Owned, OwnerSeen, RecordOK
<1>. QED BY <1>1, <1>2, <1>3 DEF GrantsHit

LEMMA MessagesInv ==
    ASSUME IInv, NEW w \in Worker, DeleteMessages(w)
    PROVE  IInv'
<1>. DEFINE rows == TabsHit(w) \cap mailed
<1>1. PICK x : req' = [req EXCEPT ![w] = x] /\ Step(req[w], x, "events", {}, rows)
  BY StepForms DEF DeleteMessages
<1>2. RecordOK(req[w]) /\ StagesOK(req[w]) /\ req[w].pc = "messages" /\ rows \subseteq Tab
  BY DeletionFacts DEF DeleteMessages, Runs
<1>3. \A v \in Others(w) : rows \cap req[v].handled = {}
  BY <1>2, NobodyBlocks DEF DeleteMessages, Runs
<1>. HIDE DEF rows
<1>4. RecordOK(x) /\ StagesOK(x)
  BY <1>1, <1>2 DEF Step, RecordOK, StagesOK, Flushed, DeletionPC, RequestPC
<1>5. SessionsEmptied(x) /\ ClientsEmptied(x)
  BY <1>1, <1>2 DEF Step, StagesOK, SessionsEmptied, ClientsEmptied
<1>6. \A v \in Others(w) : /\ Relies(req[v], {})
                             /\ rows \cap req[v].handled \cap (events \cup mailed) = {}
  BY <1>3 DEF Relies
<1>7. /\ req[w].pc \in Flushed /\ x.pc \in Flushed /\ UNCHANGED tables
      /\ req[w].seen \cap {} = {}
  BY <1>1, <1>2 DEF DeleteMessages, Step, Flushed, DeletionPC
<1>8. Writes(w, x, {}, rows)
  BY <1>1, <1>4, <1>5, <1>6, <1>7 DEF Writes, Step
<1>. QED BY <1>7, <1>8, WriteStep

LEMMA EventsInv ==
    ASSUME IInv, NEW w \in Worker, UnlinkEvents(w)
    PROVE  IInv'
<1>. DEFINE rows == EventsHit(w)
<1>1. PICK x : req' = [req EXCEPT ![w] = x] /\ Step(req[w], x, "codes", {}, rows)
  BY StepForms DEF UnlinkEvents
<1>2. RecordOK(req[w]) /\ StagesOK(req[w]) /\ req[w].pc = "events" /\ rows \subseteq Event
  BY DeletionFacts DEF UnlinkEvents, Runs, EventsHit, TypeOK
<1>3. \A v \in Others(w) : rows \cap req[v].handled = {}
  BY <1>2, NobodyBlocks DEF UnlinkEvents, Runs
<1>. HIDE DEF rows
<1>4. RecordOK(x) /\ StagesOK(x)
  BY <1>1, <1>2 DEF Step, RecordOK, StagesOK, Flushed, DeletionPC, RequestPC
<1>5. SessionsEmptied(x) /\ ClientsEmptied(x)
  BY <1>1, <1>2 DEF Step, StagesOK, SessionsEmptied, ClientsEmptied
<1>6. \A v \in Others(w) : /\ Relies(req[v], {})
                             /\ rows \cap req[v].handled \cap (events \cup mailed) = {}
  BY <1>3 DEF Relies
<1>7. /\ req[w].pc \in Flushed /\ x.pc \in Flushed /\ UNCHANGED tables
      /\ req[w].seen \cap {} = {}
  BY <1>1, <1>2 DEF UnlinkEvents, Step, Flushed, DeletionPC
<1>8. Writes(w, x, {}, rows)
  BY <1>1, <1>4, <1>5, <1>6, <1>7 DEF Writes, Step
<1>. QED BY <1>7, <1>8, WriteStep

\* Keys of grants and tabs that nobody holds: rows nobody else refers to.
LEMMA RowsInv ==
    ASSUME IInv, NEW w \in Worker, UNCHANGED tables, NEW keys,
           keys \subseteq Grant \cup Tab, NEW pc \in {"tokens", "tabs", "sessions"},
           req[w].pc \in {"codes", "tokens", "tabs"}, Removes(w, keys, pc),
           req[w].seen \cap keys = {},
           \A v \in Others(w) : \A k \in keys : ~HoldsKey(v, k)
    PROVE  IInv'
<1>1. PICK x : req' = [req EXCEPT ![w] = x] /\ Step(req[w], x, pc, keys, {})
  BY StepForms
<1>2. RecordOK(req[w]) /\ StagesOK(req[w])
  BY DeletionFacts
<1>3. keys \cap (Client \cup Session \cup {None}) = {}
  BY KeysAssumption DEF Grant
<1>4. RecordOK(x)
  BY <1>1, <1>2 DEF Step, RecordOK, DeletionPC
<1>5. StagesOK(x) /\ x.gone \cap Session = {}
  BY <1>1, <1>2, <1>3 DEF Step, StagesOK, Flushed, DeletionPC
<1>6. SessionsEmptied(x) /\ ClientsEmptied(x)
  BY <1>1, <1>5 DEF Step, SessionsEmptied, ClientsEmptied
<1>7. ASSUME NEW v \in Others(w) PROVE Relies(req[v], keys)
  <2>1. RecordOK(req[v])
    BY OthersKnown
  <2>2. req[v].client \notin keys /\ req[v].sess \notin keys
    BY <1>3, <2>1 DEF RecordOK
  <2>3. \A s \in DOMAIN req[v].moves : s \notin keys /\ req[v].moves[s] \notin keys
    BY <1>3, <2>1 DEF RecordOK
  <2>4. Holding(req[v]) => req[v].keys \cap keys = {}
    BY DEF Holding, HoldsKey
  <2>. QED BY <1>3, <2>2, <2>3, <2>4 DEF Relies
<1>8. \A v \in Others(w) : /\ Relies(req[v], keys)
                             /\ {} \cap req[v].handled \cap (events \cup mailed) = {}
  BY <1>7
<1>9. req[w].pc \in Flushed /\ pc \in Flushed
  BY DEF Flushed, DeletionPC
<1>10. Writes(w, x, keys, {})
  BY <1>1, <1>4, <1>5, <1>6, <1>8, <1>9 DEF Writes, Step
<1>. QED BY <1>10, WriteStep

LEMMA GrantsInv ==
    ASSUME IInv, NEW w \in Worker, DeleteCodes(w) \/ DeleteTokens(w)
    PROVE  IInv'
<1>1. ASSUME NEW k, k \in {Code, Token}, NEW pc \in {"tokens", "tabs"},
             req[w].pc \in {"codes", "tokens"}, UNCHANGED tables,
             Removes(w, GrantsHit(w, k), pc),
             \A v \in Others(w) : \A g \in GrantsHit(w, k) : ~HoldsKey(v, g)
      PROVE  IInv'
  <2>. DEFINE hit == GrantsHit(w, k)
  <2>1. hit \subseteq Grant \cup Tab
    BY <1>1, DeletionFacts DEF Grant
  <2>2. ASSUME NEW g \in req[w].seen, g \in hit PROVE FALSE
    <3>1. /\ SeenHandedOver(req[w])
          /\ g \in Present(grants) /\ grants[g].st = "present"
          /\ grants[g].client \in req[w].scope \/ grants[g].sess \notin DOMAIN req[w].moves
      BY <2>2, DeletionFacts DEF Solo, Present
    <3>2. Pending(req[w]) = {}
      BY <1>1 DEF Pending
    <3>. QED BY <3>1, <3>2 DEF SeenHandedOver
  <2>. HIDE DEF hit
  <2>3. req[w].seen \cap hit = {}
    BY <2>2
  <2>4. /\ UNCHANGED tables /\ req[w].pc \in {"codes", "tokens", "tabs"}
        /\ Removes(w, hit, pc) /\ \A v \in Others(w) : \A g \in hit : ~HoldsKey(v, g)
    BY <1>1 DEF hit
  <2>. QED BY <1>1, <2>1, <2>3, <2>4, RowsInv
<1>2. CASE DeleteCodes(w)
  BY <1>1, <1>2, NobodyBlocks DEF DeleteCodes, Runs
<1>3. CASE DeleteTokens(w)
  BY <1>1, <1>3, NobodyBlocks DEF DeleteTokens, Runs
<1>. QED BY <1>2, <1>3

LEMMA TabsInv ==
    ASSUME IInv, NEW w \in Worker, DeleteTabs(w)
    PROVE  IInv'
<1>. DEFINE hit == TabsHit(w)
<1>1. CASE Refuse(w)
  BY <1>1, FinishInv DEF DeleteTabs
<1>2. CASE Removes(w, hit, "sessions")
  <2>1. hit \subseteq Tab /\ hit \cap Grant = {} /\ hit \subseteq Grant \cup Tab
    BY DeletionFacts, KeysAssumption DEF Grant
  <2>2. req[w].seen \subseteq Grant
    BY DeletionFacts DEF Solo, SeenHandedOver
  <2>3. req[w].pc = "tabs" /\ UNCHANGED tables
        /\ \A v \in Others(w) : \A a \in hit : ~HoldsKey(v, a)
    BY NobodyBlocks DEF DeleteTabs, Runs
  <2>. HIDE DEF hit
  <2>. QED BY <1>2, <2>1, <2>2, <2>3, RowsInv
<1>. QED BY <1>1, <1>2 DEF DeleteTabs

LEMMA SessionsInv ==
    ASSUME IInv, NEW w \in Worker, DeleteSessions(w)
    PROVE  IInv'
<1>. DEFINE r == req[w]
            keys == Owned(w)
<1>1. CASE Refuse(w)
  BY <1>1, FinishInv DEF DeleteSessions
<1>2. CASE Removes(w, keys, "clients") /\ SessionChildren(w) = {}
  <2>1. PICK x : req' = [req EXCEPT ![w] = x] /\ Step(req[w], x, "clients", keys, {})
    BY <1>2, StepForms
  <2>2. RecordOK(r) /\ StagesOK(r) /\ r.pc = "sessions" /\ TypeOK /\ r.seen \subseteq Grant
    BY DeletionFacts DEF DeleteSessions, Runs, Solo, SeenHandedOver
  <2>3. keys \subseteq Session /\ keys \cap (Client \cup Grant \cup Tab \cup {None}) = {}
    BY DeletionFacts, KeysAssumption DEF Grant
  <2>4. \A s \in keys : s \in Present(sessions) /\ s \notin DOMAIN r.moves
                        /\ sessions[s].client \in r.scope
    BY DeletionFacts
  <2>5. /\ \A g \in Present(grants) : grants[g].sess \in keys => g \in r.gone
        /\ \A e \in events : e.sess \in keys => e \in r.handled
    BY <1>2 DEF SessionChildren
  <2>6. ASSUME NEW v \in Others(w) PROVE Relies(req[v], keys)
    <3>1. RecordOK(req[v])
      BY OthersKnown
    <3>2. \A s \in keys : ~HoldsSession(v, s) /\ ~SharesSession(v, s)
      BY <2>2, NobodyBlocks DEF DeleteSessions, Runs
    <3>3. \A s \in keys : /\ s \notin req[v].gone /\ s \notin DOMAIN req[v].moves
                          /\ ~(req[v].pc = "store" /\ req[v].sess = s)
                          /\ ~(LocksSession(req[v]) /\ req[v].sess = s)
      BY <3>2 DEF HoldsSession, SharesSession
    <3>4. req[v].client \notin keys /\ req[v].keys \cap keys = {}
      BY <2>3, <3>1 DEF RecordOK
    <3>5. \A s \in DOMAIN req[v].moves : req[v].moves[s] \notin keys
      BY <2>3, <3>1 DEF RecordOK
    <3>. QED BY <3>3, <3>4, <3>5 DEF Relies
  <2>. HIDE DEF keys
  <2>7. RecordOK(x)
    BY <2>1, <2>2, <2>3 DEF Step, RecordOK, DeletionPC
  <2>8. StagesOK(x)
    BY <2>1, <2>2, <2>3 DEF Step, StagesOK, Flushed, DeletionPC
  <2>9. SessionsEmptied(x)
    BY <2>1, <2>2, <2>4, <2>5 DEF Step, SessionsEmptied, StagesOK
  <2>10. ClientsEmptied(x) /\ r.seen \cap keys = {}
    BY <2>1, <2>2, <2>3 DEF Step, ClientsEmptied
  <2>11. \A v \in Others(w) : /\ Relies(req[v], keys)
                                /\ {} \cap req[v].handled \cap (events \cup mailed) = {}
    BY <2>6
  <2>12. /\ r.pc \in Flushed /\ x.pc \in Flushed /\ UNCHANGED tables
         /\ Step(r, x, x.pc, keys, {})
    BY <2>1, <2>2 DEF DeleteSessions, Step, Flushed, DeletionPC
  <2>13. Writes(w, x, keys, {})
    BY <2>1, <2>7, <2>8, <2>9, <2>10, <2>11, <2>12 DEF Writes
  <2>. QED BY <2>12, <2>13, WriteStep
<1>. QED BY <1>1, <1>2 DEF DeleteSessions

LEMMA ClientsInv ==
    ASSUME IInv, NEW w \in Worker, DeleteClients(w)
    PROVE  IInv'
<1>. DEFINE r == req[w]
            next == IF r.kind = "delete_realm" THEN "realm" ELSE "commit"
<1>1. CASE Refuse(w)
  BY <1>1, FinishInv DEF DeleteClients
<1>2. CASE Removes(w, r.scope, next) /\ ClientChildren(w) = {}
  <2>1. PICK x : req' = [req EXCEPT ![w] = x] /\ Step(req[w], x, next, r.scope, {})
    BY <1>2, StepForms
  <2>2. /\ RecordOK(r) /\ StagesOK(r) /\ r.pc = "clients" /\ TypeOK /\ SessionsEmptied(r)
        /\ r.seen \subseteq Grant
    BY DeletionFacts DEF DeleteClients, Runs, Solo, SeenHandedOver
  <2>3. r.scope \subseteq Client /\ r.scope \cap (Session \cup Grant \cup Tab \cup {None}) = {}
    BY <2>2, KeysAssumption DEF RecordOK, Grant
  <2>4. /\ \A s \in Present(sessions) \ DOMAIN r.moves :
              sessions[s].client \in r.scope => s \in r.gone
        /\ \A g \in Present(grants) : grants[g].client \in r.scope => g \in r.gone
        /\ \A a \in Present(tabs) : tabs[a].client \in r.scope => a \in r.gone
        /\ \A e \in events : e.client \in r.scope => e \in r.handled
    BY <1>2 DEF ClientChildren, OwnerSeen, TabsHit
  <2>5. ASSUME NEW v \in Others(w) PROVE Relies(req[v], r.scope)
    <3>1. RecordOK(req[v]) /\ ParentsStored(req[v]) /\ MovesStored(req[v])
      BY OthersKnown DEF Solo
    <3>2. \A c \in r.scope \cap clients : c \notin req[v].gone /\ ~SharesClient(v, c)
      BY <2>2, NobodyBlocks DEF DeleteClients, Runs
    <3>3. Sharing(req[v]) => req[v].client \notin r.scope
      BY <2>3, <3>1, <3>2 DEF SharesClient, Sharing, ParentsStored
    <3>4. req[v].sess \notin r.scope /\ req[v].keys \cap r.scope = {}
      BY <2>3, <3>1 DEF RecordOK
    <3>5. \A s \in DOMAIN req[v].moves : s \notin r.scope /\ req[v].moves[s] \notin r.scope
      BY <2>3, <3>1, <3>2 DEF SharesClient, MovesStored, RecordOK
    <3>. QED BY <2>3, <3>3, <3>4, <3>5 DEF Relies
  <2>6. RecordOK(x)
    BY <2>1, <2>2 DEF Step, RecordOK, DeletionPC
  <2>7. StagesOK(x)
    BY <2>1, <2>2, <2>3 DEF Step, StagesOK, Flushed, DeletionPC
  <2>8. SessionsEmptied(x)
    BY <2>1, <2>2, <2>3 DEF Step, SessionsEmptied
  <2>9. ClientsEmptied(x) /\ r.seen \cap r.scope = {}
    BY <2>1, <2>2, <2>3, <2>4 DEF Step, ClientsEmptied
  <2>10. r.pc \in Flushed /\ next \in Flushed /\ UNCHANGED tables
    BY <2>2 DEF DeleteClients, Flushed, DeletionPC
  <2>11. \A v \in Others(w) : /\ Relies(req[v], r.scope)
                                /\ {} \cap req[v].handled \cap (events \cup mailed) = {}
    BY <2>5
  <2>. HIDE DEF next
  <2>12. Writes(w, x, r.scope, {})
    BY <2>1, <2>6, <2>7, <2>8, <2>9, <2>10, <2>11 DEF Writes, Step
  <2>. QED BY <2>10, <2>12, WriteStep
<1>. QED BY <1>1, <1>2 DEF DeleteClients

LEMMA RealmRowInv ==
    ASSUME IInv, NEW w \in Worker, DeleteRealmRow(w)
    PROVE  IInv'
<1>. DEFINE r == req[w]
<1>1. PICK x : req' = [req EXCEPT ![w] = x] /\ Step(r, x, "commit", {}, {})
  BY StepForms DEF DeleteRealmRow
<1>2. /\ RecordOK(r) /\ StagesOK(r) /\ r.pc = "realm" /\ SessionsEmptied(r) /\ ClientsEmptied(r)
      /\ UNCHANGED tables
  BY DeletionFacts DEF DeleteRealmRow, Runs, Solo
<1>3. RecordOK(x) /\ StagesOK(x)
  BY <1>1, <1>2 DEF Step, RecordOK, StagesOK, Flushed, DeletionPC
<1>4. SessionsEmptied(x) /\ ClientsEmptied(x)
  BY <1>1, <1>2 DEF Step, SessionsEmptied, ClientsEmptied
<1>5. \A v \in Others(w) : /\ Relies(req[v], {})
                             /\ {} \cap req[v].handled \cap (events \cup mailed) = {}
  BY DEF Relies
<1>6. /\ r.pc \in Flushed /\ x.pc \in Flushed /\ Step(r, x, x.pc, {}, {})
      /\ r.seen \cap {} = {}
  BY <1>1, <1>2 DEF Step, Flushed, DeletionPC
<1>7. Writes(w, x, {}, {})
  BY <1>1, <1>3, <1>4, <1>5, <1>6 DEF Writes
<1>. QED BY <1>2, <1>7, WriteStep

-----------------------------------------------------------------------------
(* Commits.                                                                 *)

\* What a commit leaves of the record of another transaction.
Kept(q, x, new) ==
    /\ DOMAIN x = Fields /\ x.kind = q.kind /\ x.pc = q.pc /\ x.client = q.client
    /\ x.sess = q.sess /\ x.keys = q.keys /\ x.scope = q.scope /\ x.look = q.look
    /\ x.moves = q.moves /\ x.gone = q.gone /\ x.seen = q.seen
    /\ x.handled = q.handled \ new

\* The rows are well formed and refer to rows that are stored.
RowsOK ==
    /\ clients \subseteq Client
    /\ sessions \in [Session -> SessionRow]
    /\ grants \in [Grant -> GrantRow]
    /\ tabs \in [Tab -> TabRow]
    /\ used \subseteq Grant \cup Tab /\ revoked \subseteq Session \cup Token
    /\ mailed \subseteq Tab /\ events \subseteq Event
    /\ \A s \in Present(sessions) : sessions[s].client \in clients
    /\ \A g \in Present(grants) :
          grants[g].client \in clients /\ grants[g].sess \in Present(sessions)
    /\ \A a \in Present(tabs) : tabs[a].client \in clients
    /\ mailed \subseteq Present(tabs)
    /\ \A e \in events : e.client \in clients \cup {None}
                      /\ e.sess \in Present(sessions) \cup {None}

LEMMA RowsAreOK ==
    IInv => /\ RowsOK /\ Present(sessions) \subseteq Session /\ Present(grants) \subseteq Grant
            /\ Present(tabs) \subseteq Tab
BY DEF IInv, ForeignKeysHold, TypeOK, RowsOK, Present

\* What the tables must still say to a transaction with the record x.
Satisfied(x) ==
    /\ ParentsStored(x) /\ MovesStored(x) /\ SessionsEmptied(x) /\ ClientsEmptied(x)
    /\ SeenHandedOver(x)

\* The tables change under the other transactions, which stay as they were.
LEMMA CommitStep ==
    ASSUME IInv, NEW w, NEW new, Ended(w, new), RowsOK',
           events' \cup mailed' \subseteq events \cup mailed \cup new,
           \A v \in Worker \ {w} : \A x : Kept(req[v], x, new) => Satisfied(x)'
    PROVE  IInv'
<1>1. /\ req' = [v \in Worker |-> req'[v]]
      /\ \A v \in Worker : v = w => req'[v] = Idle
  BY DEF Ended
<1>2. ASSUME NEW v \in Worker \ {w} PROVE Kept(req[v], req'[v], new)
  <2>1. RecordOK(req[v]) /\ StagesOK(req[v])
    BY DEF IInv, Solo, ShapeOK
  <2>2. CASE req[v].pc \in DeletionPC
    <3>1. req'[v] = [req[v] EXCEPT !.overtaken = TRUE, !.handled = @ \ new]
      BY <2>2 DEF Ended
    <3>. QED BY <2>1, <3>1 DEF Kept, RecordOK, Fields
  <2>3. CASE req[v].pc \notin DeletionPC
    <3>1. req'[v] = req[v]
      BY <2>3 DEF Ended
    <3>2. req[v].handled = {}
      BY <2>1, <2>3 DEF StagesOK, Flushed
    <3>. QED BY <2>1, <3>1, <3>2 DEF Kept, RecordOK
  <2>. QED BY <2>2, <2>3
<1>3. ASSUME NEW v \in Worker \ {w} PROVE Solo(req[v])'
  <2>1. RecordOK(req[v]) /\ StagesOK(req[v]) /\ RequestOK(req[v])
    BY DEF IInv, Solo, ShapeOK
  <2>2. RecordOK(req'[v])
    BY <1>2, <2>1 DEF Kept, RecordOK
  <2>3. StagesOK(req'[v])
    BY <1>2, <2>1 DEF Kept, StagesOK
  <2>4. RequestOK(req'[v])
    BY <1>2, <2>1 DEF Kept, RequestOK, Holding
  <2>5. ShapeOK(req[v])'
    BY <2>2, <2>3, <2>4 DEF ShapeOK, RecordOK, StagesOK, RequestOK, Holding, Fields
  <2>6. ASSUME NEW x, x = req'[v] PROVE Satisfied(x)'
    BY <1>2, <2>6
  <2>7. Satisfied(req[v])'
    BY <2>6 DEF Satisfied, ParentsStored, Sharing, Holding, LocksSession, MovesStored,
                SessionsEmptied, ClientsEmptied, SeenHandedOver, Pending
  <2>. QED BY <2>5, <2>7 DEF Solo, Satisfied
<1>4. ASSUME NEW v \in Worker PROVE Solo(req[v])'
  <2>1. CASE v = w
    <3>1. req'[v] = Idle
      BY <1>1, <2>1
    <3>2. ShapeOK(Idle)' /\ Satisfied(Idle)'
      BY IdleFields DEF Idle, ShapeOK, RecordOK, StagesOK, RequestOK, Satisfied, ParentsStored,
         Sharing, Holding, LocksSession, MovesStored, SessionsEmptied, ClientsEmptied,
         SeenHandedOver, Pending, Flushed, DeletionPC, RequestPC, Kind
    <3>3. ASSUME NEW x, x = req'[v] PROVE Solo(x)'
      BY <3>1, <3>2, <3>3 DEF Solo, Satisfied
    <3>. QED BY <3>3 DEF Solo, ShapeOK, RecordOK, StagesOK, RequestOK, ParentsStored,
         Sharing, Holding, LocksSession, MovesStored, SessionsEmptied, ClientsEmptied,
         SeenHandedOver, Pending
  <2>. QED BY <1>3, <2>1
<1>5. ASSUME NEW u \in Worker, NEW v \in Others(u) PROVE Apart(req[v], req[u])'
  <2>1. CASE u = w \/ v = w
    <3>1. ASSUME NEW q PROVE Apart(Idle, q)' /\ Apart(q, Idle)'
      BY DEF Apart, Relies, Idle, Sharing, Holding, LocksSession
    <3>2. req'[u] = Idle \/ req'[v] = Idle
      BY <1>1, <2>1 DEF Others
    <3>3. ASSUME NEW x, NEW y, x = req'[v], y = req'[u] PROVE Apart(x, y)'
      BY <3>1, <3>2, <3>3
    <3>. QED BY <3>3 DEF Apart, Relies, Sharing, Holding, LocksSession
  <2>2. CASE u # w /\ v # w
    <3>1. Apart(req[v], req[u]) /\ Kept(req[v], req'[v], new) /\ Kept(req[u], req'[u], new)
      BY <1>2, <2>2 DEF IInv, Others
    <3>2. req'[v].handled \cap req'[u].handled \cap (events' \cup mailed') = {}
      BY <3>1 DEF Apart, Kept
    <3>3. /\ Relies(req[u], req[v].gone)
          /\ DOMAIN req'[u].moves \cap DOMAIN req'[v].moves = {}
      BY <3>1 DEF Apart, Kept
    <3>4. Relies(req'[u], req'[v].gone)
      BY <3>1, <3>3 DEF Relies, Kept, Sharing, Holding, LocksSession
    <3>. QED BY <3>2, <3>3, <3>4 DEF Apart, Relies, Sharing, Holding, LocksSession
  <2>. QED BY <2>1, <2>2
<1>6. ForeignKeysHold'
  <2>1. \A v \in Worker : RecordOK(req[v])'
    BY <1>4 DEF Solo, ShapeOK
  <2>2. TypeOK'
    BY <2>1 DEF RowsOK, RecordOK, TypeOK
  <2>. QED BY <2>2 DEF RowsOK, ForeignKeysHold
<1>. QED BY <1>1, <1>4, <1>5, <1>6 DEF IInv, Others

-----------------------------------------------------------------------------
(* The commits of requests.                                                 *)

\* Each row is as it was, or has been inserted for a client.
Added(table, left, c) ==
    /\ DOMAIN left = DOMAIN table
    /\ \A k \in DOMAIN table :
          \/ left[k] = table[k]
          \/ table[k].st = "absent" /\ left[k].st = "present" /\ left[k].client = c

\* The parents of what is being inserted are stored, and nobody deletes them.
LEMMA ParentsStay ==
    ASSUME IInv, NEW w \in Worker, req[w].pc = "store"
    PROVE  LET r == req[w] IN
           /\ RecordOK(r) /\ RequestOK(r)
           /\ r.client \in clients \cup {None}
           /\ r.kind # "detect" => r.client \in clients
           /\ r.sess \in Present(sessions) \cup {None}
           /\ r.keys \subseteq Present(tabs) \cup Present(grants)
           /\ \A v \in Worker \ {w} :
                /\ r.client \notin req[v].gone /\ r.sess \notin req[v].gone
                /\ req[v].pc \in {"realm", "commit"} => r.client \notin req[v].scope
<1>. DEFINE r == req[w]
<1>1. ParentsStored(r) /\ RecordOK(r) /\ RequestOK(r) /\ Sharing(r) /\ Holding(r) /\ r.pc = "store"
  BY DEF IInv, Solo, ShapeOK, Sharing, Holding
<1>2. /\ r.client \in clients \cup {None} /\ r.sess \in Present(sessions) \cup {None}
      /\ r.keys \subseteq Present(tabs) \cup Present(grants)
  BY <1>1 DEF ParentsStored
<1>3. None \notin Client
  BY KeysAssumption
<1>4. r.kind # "detect" => r.client \in clients
  BY <1>1, <1>2, <1>3 DEF RequestOK, RequestPC
<1>5. ASSUME NEW v \in Worker \ {w}
      PROVE  /\ r.client \notin req[v].gone /\ r.sess \notin req[v].gone
             /\ req[v].pc \in {"realm", "commit"} => r.client \notin req[v].scope
  <2>1. Relies(r, req[v].gone) /\ StagesOK(req[v])
    BY OthersKnown DEF Others
  <2>2. r.client \notin req[v].gone /\ r.sess \notin req[v].gone
    BY <1>1, <2>1 DEF Relies
  <2>. QED BY <2>1, <2>2 DEF StagesOK
<1>. QED BY <1>1, <1>2, <1>4, <1>5

\* A commit that inserts rows for `c`, and grants and events of the session `s`.
Inserts(c, s, new) ==
    /\ clients' = clients
    /\ sessions' \in [Session -> SessionRow] /\ grants' \in [Grant -> GrantRow]
    /\ tabs' \in [Tab -> TabRow]
    /\ used' \subseteq Grant \cup Tab /\ revoked' \subseteq Session \cup Token
    /\ Added(sessions, sessions', c) /\ Added(grants, grants', c) /\ Added(tabs, tabs', c)
    /\ \A k \in Grant : grants'[k] = grants[k] \/ grants'[k].sess = s
    /\ (sessions' # sessions \/ grants' # grants \/ tabs' # tabs) => c \in clients
    /\ grants' # grants => s \in Present(sessions')
    /\ events' \subseteq events \cup new /\ mailed' \subseteq mailed \cup new
    /\ mailed' \subseteq Present(tabs') /\ new \subseteq Event \cup Tab /\ events' \subseteq Event
    /\ \A e \in new \cap Event : e.client = c /\ e.sess = s

LEMMA InsertedRows ==
    ASSUME NEW table, NEW left, NEW c, Added(table, left, c)
    PROVE  /\ Present(table) \subseteq Present(left)
           /\ \A k \in DOMAIN table : table[k].st # "absent" => left[k] = table[k]
           /\ \A k \in Present(left) :
                 \/ k \in Present(table) /\ left[k] = table[k]
                 \/ left[k].client = c /\ left # table
<1>1. /\ DOMAIN left = DOMAIN table
      /\ \A k \in Present(table) : k \in DOMAIN table /\ table[k].st = "present"
      /\ \A k \in Present(left) : k \in DOMAIN table /\ left[k].st = "present"
      /\ \A k \in DOMAIN table : table[k].st = "present" => k \in Present(table)
      /\ \A k \in DOMAIN table : left[k].st = "present" => k \in Present(left)
  BY DEF Present, Added
<1>2. \A k \in DOMAIN table :
          \/ left[k] = table[k]
          \/ table[k].st = "absent" /\ left[k].st = "present" /\ left[k].client = c
  BY DEF Added
<1>3. ASSUME NEW k \in Present(left)
      PROVE  \/ k \in Present(table) /\ left[k] = table[k]
             \/ left[k].client = c /\ left # table
  <2>1. CASE left[k] = table[k]
    BY <1>1, <1>3, <2>1
  <2>2. CASE left[k] # table[k]
    BY <1>1, <1>2, <1>3, <2>2
  <2>. QED BY <2>1, <2>2
<1>4. \A k \in DOMAIN table : table[k].st # "absent" => left[k] = table[k]
  BY <1>2
<1>. QED BY <1>1, <1>2, <1>3, <1>4

LEMMA InsertStep ==
    ASSUME IInv, NEW w \in Worker, NEW s \in Session \cup {None}, NEW new, Ended(w, new),
           req[w].pc = "store", Inserts(req[w].client, s, new),
           s \in Present(sessions)' \cup {None},
           \A v \in Worker \ {w} : s \notin req[v].gone
    PROVE  IInv'
<1>. DEFINE c == req[w].client
<1>1. /\ RowsOK /\ Present(sessions) \subseteq Session /\ Present(grants) \subseteq Grant
      /\ Present(tabs) \subseteq Tab
      /\ sessions \in [Session -> SessionRow] /\ grants \in [Grant -> GrantRow]
      /\ tabs \in [Tab -> TabRow]
  BY RowsAreOK DEF RowsOK
<1>2. /\ c \in clients \cup {None}
      /\ \A v \in Worker \ {w} : /\ c \notin req[v].gone
                                 /\ req[v].pc \in {"realm", "commit"} => c \notin req[v].scope
  BY ParentsStay
<1>3. /\ clients' = clients /\ events' \subseteq events \cup new
      /\ mailed' \subseteq mailed \cup new /\ mailed' \subseteq Present(tabs')
      /\ (sessions' # sessions \/ grants' # grants \/ tabs' # tabs) => c \in clients
      /\ grants' # grants => s \in Present(sessions')
      /\ \A e \in new \cap Event : e.client = c /\ e.sess = s
      /\ events' \subseteq Event /\ new \subseteq Event \cup Tab
      /\ used' \subseteq Grant \cup Tab /\ revoked' \subseteq Session \cup Token
      /\ sessions' \in [Session -> SessionRow] /\ grants' \in [Grant -> GrantRow]
      /\ tabs' \in [Tab -> TabRow]
      /\ DOMAIN sessions' = Session /\ DOMAIN grants' = Grant /\ DOMAIN tabs' = Tab
      /\ DOMAIN sessions = Session /\ DOMAIN grants = Grant /\ DOMAIN tabs = Tab
      /\ Added(sessions, sessions', c) /\ Added(grants, grants', c) /\ Added(tabs, tabs', c)
      /\ Present(sessions') \subseteq Session /\ Present(grants') \subseteq Grant
      /\ Present(tabs') \subseteq Tab
      /\ \A k \in Grant : grants'[k] = grants[k] \/ grants'[k].sess = s
  BY <1>1 DEF Inserts, Present
<1>4. /\ Present(sessions) \subseteq Present(sessions')
      /\ \A k \in Session : sessions[k].st # "absent" => sessions'[k] = sessions[k]
      /\ \A k \in Present(sessions') :
            \/ k \in Present(sessions) /\ sessions'[k] = sessions[k]
            \/ sessions'[k].client = c /\ sessions' # sessions
  BY <1>3, InsertedRows
<1>5. /\ Present(grants) \subseteq Present(grants')
      /\ \A k \in Grant : grants[k].st # "absent" => grants'[k] = grants[k]
      /\ \A k \in Present(grants') :
            \/ k \in Present(grants) /\ grants'[k] = grants[k]
            \/ grants'[k].client = c /\ grants' # grants
      /\ \A k \in Grant : grants'[k] = grants[k] \/ grants'[k].sess = s
  BY <1>3, InsertedRows
<1>6. /\ Present(tabs) \subseteq Present(tabs')
      /\ \A k \in Tab : tabs[k].st # "absent" => tabs'[k] = tabs[k]
      /\ \A k \in Present(tabs') :
            \/ k \in Present(tabs) /\ tabs'[k] = tabs[k]
            \/ tabs'[k].client = c /\ tabs' # tabs
  BY <1>3, InsertedRows
<1>7. \A k \in Present(grants') :
          \/ k \in Present(grants) /\ grants'[k] = grants[k]
          \/ grants'[k].client = c /\ grants'[k].sess = s /\ grants' # grants
  <2>1. \A k \in Present(grants') : k \in Grant /\ grants'[k].st = "present"
    BY <1>3 DEF Present
  <2>2. \A k \in Present(grants') : grants'[k] = grants[k] => k \in Present(grants)
    BY <1>3, <2>1 DEF Present
  <2>. QED BY <1>5, <2>1, <2>2
<1>. HIDE DEF c
<1>8. RowsOK'
  <2>1. \A k \in Present(sessions') : sessions'[k].client \in clients
    BY <1>1, <1>3, <1>4 DEF RowsOK
  <2>2. \A k \in Present(grants') : /\ grants'[k].client \in clients
                                    /\ grants'[k].sess \in Present(sessions')
    BY <1>1, <1>3, <1>4, <1>7 DEF RowsOK
  <2>3. \A k \in Present(tabs') : tabs'[k].client \in clients
    BY <1>1, <1>3, <1>6 DEF RowsOK
  <2>4. s \in Present(sessions') \cup {None}
    BY DEF Present
  <2>5. ASSUME NEW e \in events'
        PROVE  /\ e \in Event /\ e.client \in clients \cup {None}
               /\ e.sess \in Present(sessions') \cup {None}
    <3>1. CASE e \in events
      BY <1>1, <1>4, <3>1 DEF RowsOK
    <3>2. CASE e \in new \cap Event
      BY <1>2, <1>3, <2>4, <3>2
    <3>. QED BY <1>3, <3>1, <3>2
  <2>6. mailed' \subseteq Tab
    BY <1>3
  <2>. QED BY <1>1, <1>3, <2>1, <2>2, <2>3, <2>5, <2>6 DEF RowsOK, Present
<1>9. ASSUME NEW v \in Worker \ {w}, NEW x, Kept(req[v], x, new) PROVE Satisfied(x)'
  <2>. DEFINE q == req[v]
  <2>1. /\ ParentsStored(q) /\ MovesStored(q) /\ SessionsEmptied(q) /\ ClientsEmptied(q)
        /\ SeenHandedOver(q) /\ RecordOK(q) /\ StagesOK(q)
    BY DEF IInv, Solo, ShapeOK
  <2>2. /\ x.kind = q.kind /\ x.pc = q.pc /\ x.client = q.client /\ x.sess = q.sess
        /\ x.keys = q.keys /\ x.scope = q.scope /\ x.moves = q.moves /\ x.gone = q.gone
        /\ x.seen = q.seen /\ x.handled = q.handled \ new
    BY <1>9 DEF Kept
  <2>3. /\ \A k \in Present(sessions) : sessions'[k] = sessions[k]
        /\ \A k \in Present(grants) : grants'[k] = grants[k]
    BY <1>1, <1>4, <1>5 DEF Present
  <2>. HIDE DEF q
  <2>4. ParentsStored(x)'
    BY <1>3, <1>4, <1>5, <1>6, <2>1, <2>2 DEF ParentsStored, Sharing, Holding, LocksSession
  <2>5. MovesStored(x)'
    BY <1>3, <1>4, <2>1, <2>2 DEF MovesStored
  <2>7. SessionsEmptied(x)'
    <3>1. s \notin q.gone
      BY DEF q
    <3>2. ASSUME NEW e \in events', e.sess \in q.gone PROVE e \in events \ new
      BY <1>3, <3>1, <3>2
    <3>3. ASSUME NEW k \in Session \cap q.gone
          PROVE  /\ k \in Present(sessions') /\ k \notin DOMAIN q.moves
                 /\ sessions'[k].client \in q.scope
                 /\ \A g \in Present(grants') : grants'[g].sess = k => g \in q.gone
                 /\ \A e \in events' : e.sess = k => e \in q.handled \ new
      BY <1>4, <1>7, <2>1, <2>3, <3>1, <3>2, <3>3 DEF SessionsEmptied
    <3>. QED BY <2>2, <3>3 DEF SessionsEmptied
  <2>8. ClientsEmptied(x)'
    <3>. SUFFICES ASSUME q.pc \in {"realm", "commit"} PROVE ClientsEmptied(x)'
      BY <2>2 DEF ClientsEmptied
    <3>1. c \notin q.scope
      BY <1>2 DEF q
    <3>2. ASSUME NEW e \in events', e.client \in q.scope PROVE e \in events \ new
      BY <1>3, <3>1, <3>2
    <3>3. /\ \A k \in Present(sessions') \ DOMAIN q.moves :
                sessions'[k].client \in q.scope => k \in q.gone
          /\ \A g \in Present(grants') : grants'[g].client \in q.scope => g \in q.gone
          /\ \A a \in Present(tabs') : tabs'[a].client \in q.scope => a \in q.gone
          /\ \A e \in events' : e.client \in q.scope => e \in q.handled \ new
      BY <1>4, <1>6, <1>7, <2>1, <3>1, <3>2 DEF ClientsEmptied
    <3>. QED BY <2>2, <3>3 DEF ClientsEmptied
  <2>9. SeenHandedOver(x)'
    BY <1>5, <2>1, <2>2 DEF SeenHandedOver, Pending
  <2>. QED BY <2>4, <2>5, <2>7, <2>8, <2>9 DEF Satisfied
<1>10. events' \cup mailed' \subseteq events \cup mailed \cup new
  BY <1>3
<1>. QED BY <1>8, <1>9, <1>10, CommitStep

\* One row is new, of the client c.
Puts(table, left, k, row, c) ==
    /\ k \in Fresh(table) /\ left = [table EXCEPT ![k] = row]
    /\ row.st = "present" /\ row.client = c

LEMMA InsertOne ==
    ASSUME NEW table, NEW left, NEW k, NEW row, NEW c, Puts(table, left, k, row, c)
    PROVE  /\ Added(table, left, c) /\ k \in Present(left) /\ left[k] = row
           /\ k \in DOMAIN table /\ table[k].st = "absent"
           /\ \A j \in DOMAIN table : j # k => left[j] = table[j]
<1>1. /\ k \in DOMAIN table /\ table[k].st = "absent" /\ DOMAIN left = DOMAIN table
      /\ left[k] = row
      /\ \A j \in DOMAIN table : j # k => left[j] = table[j]
      /\ row.st = "present" /\ row.client = c
  BY DEF Fresh, Puts
<1>2. k \in Present(left)
  BY <1>1 DEF Present
<1>3. \A j \in DOMAIN table :
          \/ left[j] = table[j]
          \/ table[j].st = "absent" /\ left[j].st = "present" /\ left[j].client = c
  BY <1>1
<1>4. Added(table, left, c)
  BY <1>1, <1>3 DEF Added
<1>. QED BY <1>1, <1>2, <1>4

LEMMA Unchanged == ASSUME NEW table, NEW c PROVE Added(table, table, c)
BY DEF Added

LEMMA StoreLoginInv ==
    ASSUME IInv, NEW w \in Worker, StoreLogin(w)
    PROVE  IInv'
<1>. DEFINE c == req[w].client
<1>1. RowsOK /\ sessions \in [Session -> SessionRow] /\ grants \in [Grant -> GrantRow]
      /\ DOMAIN sessions = Session /\ DOMAIN grants = Grant
  BY RowsAreOK DEF RowsOK
<1>2. PICK s \in Fresh(sessions), g \in Fresh(grants) :
        /\ sessions' = [sessions EXCEPT ![s] = [st |-> "present", client |-> c]]
        /\ grants' = [grants EXCEPT ![g] = NewGrant(c, s)]
        /\ events' = events \cup {Linked(c, s)}
        /\ Ended(w, {Linked(c, s)})
  BY DEF StoreLogin
<1>3. /\ c \in clients /\ req[w].keys \subseteq Grant \cup Tab /\ req[w].pc = "store"
      /\ \A v \in Worker \ {w} : c \notin req[v].gone
  BY ParentsStay DEF StoreLogin, RecordOK
<1>4. /\ clients' = clients /\ tabs' = tabs /\ mailed' = mailed /\ revoked' = revoked
      /\ used' = used \cup req[w].keys
  BY DEF StoreLogin
<1>5. /\ Added(sessions, sessions', c) /\ s \in Present(sessions') /\ s \in Session
      /\ sessions[s].st = "absent"
  <2>1. Puts(sessions, sessions', s, [st |-> "present", client |-> c], c)
    BY <1>2 DEF Puts
  <2>. QED BY <1>1, <2>1, InsertOne
<1>6. /\ Added(grants, grants', c) /\ g \in Grant /\ grants'[g].sess = s
      /\ \A k \in Grant : k # g => grants'[k] = grants[k]
  <2>1. Puts(grants, grants', g, NewGrant(c, s), c)
    BY <1>2 DEF Puts, NewGrant
  <2>. QED BY <1>1, <2>1, InsertOne DEF NewGrant
<1>7. sessions' \in [Session -> SessionRow] /\ grants' \in [Grant -> GrantRow]
  <2>1. c \in Client
    BY <1>1, <1>3 DEF RowsOK
  <2>2. [st |-> "present", client |-> c] \in SessionRow /\ NewGrant(c, s) \in GrantRow
    BY <1>5, <2>1 DEF SessionRow, GrantRow, NewGrant, Status
  <2>. QED BY <1>1, <1>2, <2>2
<1>8. Linked(c, s) \in Event /\ Linked(c, s).client = c /\ Linked(c, s).sess = s
  BY <1>1, <1>3, <1>5 DEF Linked, Event, RowsOK
<1>. HIDE DEF c
<1>9. Inserts(c, s, {Linked(c, s)})
  BY <1>1, <1>2, <1>3, <1>4, <1>5, <1>6, <1>7, <1>8, Unchanged DEF Inserts, RowsOK
<1>10. \A v \in Worker \ {w} : s \notin req[v].gone
  BY <1>5 DEF IInv, Solo, SessionsEmptied, Present
<1>11. s \in Session \cup {None} /\ s \in Present(sessions)' \cup {None}
  BY <1>5 DEF Present
<1>. QED BY <1>2, <1>3, <1>9, <1>10, <1>11, InsertStep DEF c

LEMMA StoreGrantInv ==
    ASSUME IInv, NEW w \in Worker, StoreGrant(w)
    PROVE  IInv'
<1>. DEFINE c == req[w].client
            s == req[w].sess
<1>1. /\ RowsOK /\ grants \in [Grant -> GrantRow] /\ tabs \in [Tab -> TabRow]
      /\ DOMAIN grants = Grant /\ DOMAIN tabs = Tab /\ Present(sessions) \subseteq Session
  BY RowsAreOK DEF RowsOK
<1>2. req[w].kind \in {"sso", "redeem", "refresh"} /\ req[w].pc = "store"
  BY DEF StoreGrant
<1>3. /\ c \in clients /\ c \in Client /\ req[w].keys \subseteq Grant \cup Tab
      /\ s \in Session /\ s \in Present(sessions)
      /\ \A v \in Worker \ {w} : s \notin req[v].gone
  BY <1>1, <1>2, ParentsStay, KeysAssumption DEF RecordOK, RequestOK, RequestPC, RowsOK
<1>4. /\ clients' = clients /\ sessions' = sessions /\ mailed' = mailed /\ revoked' = revoked
      /\ events' = events \cup {Linked(c, s)} /\ Ended(w, {Linked(c, s)})
  BY DEF StoreGrant
<1>5. PICK g \in Fresh(grants) : grants' = [grants EXCEPT ![g] = NewGrant(c, s)]
  BY DEF StoreGrant
<1>6. /\ Added(grants, grants', c) /\ g \in Grant /\ grants'[g].sess = s
      /\ \A k \in Grant : k # g => grants'[k] = grants[k]
      /\ grants' \in [Grant -> GrantRow]
  <2>1. NewGrant(c, s) \in GrantRow
    BY <1>3 DEF GrantRow, NewGrant, Status
  <2>2. /\ Added(grants, grants', c) /\ g \in Grant /\ grants'[g].sess = s
        /\ \A k \in Grant : k # g => grants'[k] = grants[k]
    <3>1. Puts(grants, grants', g, NewGrant(c, s), c)
      BY <1>5 DEF Puts, NewGrant
    <3>. QED BY <1>1, <3>1, InsertOne DEF NewGrant
  <2>. QED BY <1>1, <1>5, <2>1, <2>2
<1>7. /\ Added(tabs, tabs', c) /\ tabs' \in [Tab -> TabRow] /\ Present(tabs) \subseteq Present(tabs')
      /\ used' \subseteq Grant \cup Tab
  <2>1. CASE tabs' = tabs /\ used' = used \cup req[w].keys
    BY <1>1, <1>3, <2>1, Unchanged DEF RowsOK
  <2>2. ASSUME NEW a \in Fresh(tabs), used' = used \cup {a},
               tabs' = [tabs EXCEPT ![a] = [st |-> "present", client |-> c]]
        PROVE  /\ Added(tabs, tabs', c) /\ tabs' \in [Tab -> TabRow]
               /\ Present(tabs) \subseteq Present(tabs') /\ used' \subseteq Grant \cup Tab
    <3>1. [st |-> "present", client |-> c] \in TabRow
      BY <1>3 DEF TabRow, Status
    <3>2. Added(tabs, tabs', c) /\ a \in Tab
      <4>1. Puts(tabs, tabs', a, [st |-> "present", client |-> c], c)
        BY <2>2 DEF Puts
      <4>. QED BY <1>1, <4>1, InsertOne
    <3>3. used' \subseteq Grant \cup Tab /\ tabs' \in [Tab -> TabRow]
      BY <1>1, <2>2, <3>1, <3>2 DEF RowsOK
    <3>. QED BY <3>2, <3>3, InsertedRows
  <2>. QED BY <2>1, <2>2 DEF StoreGrant
<1>8. Linked(c, s) \in Event /\ Linked(c, s).client = c /\ Linked(c, s).sess = s
  BY <1>3 DEF Linked, Event
<1>. HIDE DEF c, s
<1>9. Inserts(c, s, {Linked(c, s)})
  BY <1>1, <1>3, <1>4, <1>6, <1>7, <1>8, Unchanged DEF Inserts, RowsOK
<1>10. s \in Present(sessions)' \cup {None} /\ s \in Session \cup {None}
  BY <1>3, <1>4 DEF Present
<1>. QED BY <1>2, <1>3, <1>4, <1>9, <1>10, InsertStep DEF c

LEMMA StoreRevocationInv ==
    ASSUME IInv, NEW w \in Worker, StoreRevocation(w)
    PROVE  IInv'
<1>. DEFINE c == req[w].client
            s == req[w].sess
            event == IF c = None THEN {} ELSE {Linked(c, s)}
<1>1. RowsOK /\ Present(sessions) \subseteq Session
  BY RowsAreOK
<1>2. req[w].kind \in {"detect", "logout"} /\ req[w].pc = "store"
  BY DEF StoreRevocation
<1>3. /\ c \in clients \cup {None} /\ req[w].keys \subseteq Token
      /\ s \in Session /\ s \in Present(sessions)
      /\ \A v \in Worker \ {w} : s \notin req[v].gone
  BY <1>1, <1>2, ParentsStay, KeysAssumption DEF RequestOK, RequestPC, Holding
<1>4. /\ UNCHANGED <<clients, sessions, grants, tabs, used, mailed>>
      /\ revoked' = revoked \cup {s} \cup req[w].keys
      /\ events' = events \cup event /\ Ended(w, event)
  BY DEF StoreRevocation
<1>5. event \subseteq Event /\ \A e \in event : e.client = c /\ e.sess = s
  BY <1>1, <1>3 DEF Linked, Event, RowsOK
<1>. HIDE DEF c, s, event
<1>6. Inserts(c, s, event)
  BY <1>1, <1>3, <1>4, <1>5, Unchanged DEF Inserts, RowsOK
<1>7. s \in Present(sessions)' \cup {None} /\ s \in Session \cup {None}
  BY <1>3, <1>4 DEF Present
<1>. QED BY <1>2, <1>3, <1>4, <1>6, <1>7, InsertStep DEF c

LEMMA StoreTabInv ==
    ASSUME IInv, NEW w \in Worker, StoreTab(w)
    PROVE  IInv'
<1>. DEFINE c == req[w].client
            new == req[w].keys
<1>1. /\ RowsOK /\ tabs \in [Tab -> TabRow] /\ DOMAIN tabs = Tab
      /\ Present(tabs) \subseteq Tab /\ Present(grants) \subseteq Grant
  BY RowsAreOK DEF RowsOK
<1>2. /\ req[w].kind \in {"visit", "mail"} /\ req[w].pc = "store" /\ Ended(w, new)
      /\ UNCHANGED <<clients, sessions, grants, used, revoked, events>>
  BY DEF StoreTab
<1>3. /\ c \in clients /\ c \in Client /\ new \subseteq Present(tabs) /\ new \subseteq Tab
      /\ req[w].kind = "visit" => new = {}
  <2>1. /\ c \in clients /\ RequestOK(req[w]) /\ new \subseteq Present(tabs) \cup Present(grants)
        /\ Tab \cap Grant = {}
    BY <1>2, ParentsStay, KeysAssumption DEF Grant
  <2>2. new \subseteq Tab /\ (req[w].kind = "visit" => new = {})
    BY <1>2, <2>1 DEF RequestOK, RequestPC
  <2>. QED BY <1>1, <2>1, <2>2 DEF RowsOK
<1>. HIDE DEF new
<1>4. /\ Added(tabs, tabs', c) /\ tabs' \in [Tab -> TabRow]
      /\ mailed' \subseteq mailed \cup new
  <2>1. CASE tabs' = tabs /\ mailed' = mailed \cup new
    BY <1>1, <2>1, Unchanged
  <2>2. ASSUME NEW a \in Fresh(tabs), mailed' = mailed,
               tabs' = [tabs EXCEPT ![a] = [st |-> "present", client |-> c]]
        PROVE  Added(tabs, tabs', c) /\ tabs' \in [Tab -> TabRow] /\ mailed' \subseteq mailed \cup new
    <3>1. [st |-> "present", client |-> c] \in TabRow
      BY <1>3 DEF TabRow, Status
    <3>2. Added(tabs, tabs', c)
      <4>1. Puts(tabs, tabs', a, [st |-> "present", client |-> c], c)
        BY <2>2 DEF Puts
      <4>. QED BY <4>1, InsertOne
    <3>. QED BY <1>1, <2>2, <3>1, <3>2
  <2>. QED BY <2>1, <2>2 DEF StoreTab, new
<1>5. Present(tabs) \subseteq Present(tabs')
  BY <1>4, InsertedRows
<1>6. mailed' \subseteq Present(tabs') /\ new \cap Event = {}
  BY <1>1, <1>3, <1>4, <1>5, KeysAssumption DEF RowsOK, Event
<1>7. Inserts(c, None, new)
  BY <1>1, <1>2, <1>3, <1>4, <1>6, Unchanged DEF Inserts, RowsOK
<1>8. \A v \in Worker \ {w} : None \notin req[v].gone
  BY KeysAssumption DEF IInv, Solo, ShapeOK, RecordOK, Grant
<1>. HIDE DEF c
<1>. QED BY <1>2, <1>7, <1>8, InsertStep DEF c

-----------------------------------------------------------------------------
(* Rows that go.                                                            *)

\* A row that has gone keeps its references.
LEMMA WithoutGrants ==
    ASSUME NEW T, NEW table \in [T -> GrantRow], NEW keys, NEW left, left = Without(table, keys)
    PROVE  /\ left \in [T -> GrantRow] /\ Present(left) = Present(table) \ keys
           /\ \A k \in T : /\ left[k].client = table[k].client /\ left[k].sess = table[k].sess
                           /\ left[k].st = "absent" <=> table[k].st = "absent"
<1>1. DOMAIN left = T
  BY DEF Without
<1>2. ASSUME NEW k \in T
      PROVE  /\ left[k] \in GrantRow
             /\ left[k].client = table[k].client /\ left[k].sess = table[k].sess
             /\ left[k].st = "absent" <=> table[k].st = "absent"
             /\ left[k].st = "present" <=> table[k].st = "present" /\ k \notin keys
  <2>1. table[k] \in GrantRow
    OBVIOUS
  <2>2. CASE k \in keys /\ table[k].st = "present"
    <3>1. left[k] = [table[k] EXCEPT !.st = "deleted"]
      BY <2>2 DEF Without
    <3>. QED BY <2>1, <2>2, <3>1 DEF GrantRow, Status
  <2>3. CASE ~(k \in keys /\ table[k].st = "present")
    <3>1. left[k] = table[k]
      BY <2>3 DEF Without
    <3>. QED BY <2>1, <2>3, <3>1
  <2>. QED BY <2>2, <2>3
<1>3. Present(left) = Present(table) \ keys
  BY <1>1, <1>2 DEF Present
<1>4. left \in [T -> GrantRow]
  <2>1. left = [k \in T |-> left[k]]
    BY DEF Without
  <2>. QED BY <1>2, <2>1
<1>. QED BY <1>2, <1>3, <1>4

LEMMA WithoutRows ==
    ASSUME NEW T, NEW table \in [T -> SessionRow], NEW keys, NEW left, left = Without(table, keys)
    PROVE  /\ left \in [T -> SessionRow] /\ Present(left) = Present(table) \ keys
           /\ \A k \in T : left[k].client = table[k].client
<1>1. DOMAIN left = T
  BY DEF Without
<1>2. ASSUME NEW k \in T
      PROVE  /\ left[k] \in SessionRow /\ left[k].client = table[k].client
             /\ left[k].st = "present" <=> table[k].st = "present" /\ k \notin keys
  <2>1. table[k] \in SessionRow
    OBVIOUS
  <2>2. CASE k \in keys /\ table[k].st = "present"
    <3>1. left[k] = [table[k] EXCEPT !.st = "deleted"]
      BY <2>2 DEF Without
    <3>. QED BY <2>1, <2>2, <3>1 DEF SessionRow, Status
  <2>3. CASE ~(k \in keys /\ table[k].st = "present")
    <3>1. left[k] = table[k]
      BY <2>3 DEF Without
    <3>. QED BY <2>1, <2>3, <3>1
  <2>. QED BY <2>2, <2>3
<1>3. Present(left) = Present(table) \ keys
  BY <1>1, <1>2 DEF Present
<1>4. left \in [T -> SessionRow]
  <2>1. left = [k \in T |-> left[k]]
    BY DEF Without
  <2>. QED BY <1>2, <2>1
<1>. QED BY <1>2, <1>3, <1>4

LEMMA CleanGrantInv ==
    ASSUME IInv, NEW g \in Grant, CleanGrant(g)
    PROVE  IInv'
<1>1. RowsOK
  BY RowsAreOK
<1>2. /\ grants' \in [Grant -> GrantRow] /\ Present(grants)' = Present(grants) \ {g}
      /\ \A k \in Grant : /\ grants'[k].client = grants[k].client
                          /\ grants'[k].sess = grants[k].sess
                          /\ grants'[k].st = "absent" <=> grants[k].st = "absent"
  BY <1>1, WithoutGrants DEF CleanGrant, RowsOK, Present
<1>3. /\ clients' = clients /\ sessions' = sessions /\ tabs' = tabs /\ mailed' = mailed
      /\ used' = used /\ revoked' = revoked
      /\ events' = events /\ Present(sessions)' = Present(sessions)
      /\ Present(tabs)' = Present(tabs) /\ Ended(None, {})
      /\ \A v \in Worker : ~HoldsKey(v, g)
  BY DEF CleanGrant, Present
<1>4. RowsOK'
  BY <1>1, <1>2, <1>3 DEF RowsOK, Present
<1>5. ASSUME NEW v \in Worker \ {None}, NEW x, Kept(req[v], x, {}) PROVE Satisfied(x)'
  <2>1. Solo(req[v]) /\ RecordOK(req[v])
    BY DEF IInv, Solo, ShapeOK
  <2>2. ParentsStored(x)'
    <3>1. Holding(req[v]) => g \notin req[v].keys
      BY <1>3 DEF HoldsKey, Holding
    <3>. QED BY <1>2, <1>3, <1>5, <2>1, <3>1
             DEF Kept, Solo, ParentsStored, Sharing, Holding, LocksSession
  <2>3. MovesStored(x)'
    BY <1>3, <1>5, <2>1 DEF Kept, Solo, MovesStored
  <2>4. SessionsEmptied(x)'
    BY <1>1, <1>2, <1>3, <1>5, <2>1 DEF Kept, Solo, SessionsEmptied, Present, RowsOK
  <2>5. ClientsEmptied(x)'
    BY <1>1, <1>2, <1>3, <1>5, <2>1 DEF Kept, Solo, ClientsEmptied, Present, RowsOK
  <2>6. SeenHandedOver(x)'
    <3>1. \A k \in Grant : grants'[k].st = "present" => grants[k].st = "present"
      BY <1>1, <1>2 DEF Present, RowsOK
    <3>. QED BY <1>2, <1>5, <2>1, <3>1 DEF Kept, Solo, SeenHandedOver, Pending
  <2>. QED BY <2>2, <2>3, <2>4, <2>5, <2>6 DEF Satisfied
<1>. QED BY <1>3, <1>4, <1>5, CommitStep

LEMMA CleanSessionInv ==
    ASSUME IInv, NEW s \in Session, CleanSession(s)
    PROVE  IInv'
<1>. DEFINE new == {[e EXCEPT !.sess = None] : e \in {f \in events : f.sess = s}}
<1>1. RowsOK
  BY RowsAreOK
<1>2. /\ sessions' \in [Session -> SessionRow] /\ Present(sessions)' = Present(sessions) \ {s}
      /\ \A k \in Session : sessions'[k].client = sessions[k].client
  BY <1>1, WithoutRows DEF CleanSession, RowsOK, Present
<1>3. /\ clients' = clients /\ grants' = grants /\ tabs' = tabs /\ mailed' = mailed
      /\ used' = used /\ revoked' = revoked
      /\ Present(grants)' = Present(grants) /\ Present(tabs)' = Present(tabs)
      /\ Ended(None, new)
      /\ events' = {IF e.sess = s THEN [e EXCEPT !.sess = None] ELSE e : e \in events}
  BY DEF CleanSession, Present
<1>4. \A e \in new : e \in Event /\ e.sess = None
                     /\ \E f \in events : f.sess = s /\ e.client = f.client
  BY <1>1 DEF RowsOK, Event
<1>5. /\ \A e \in events' : (e \in events /\ e.sess # s) \/ e \in new
      /\ None \notin Session
  BY <1>3, KeysAssumption
<1>. HIDE DEF new
<1>6. RowsOK'
  <2>1. \A e \in events' : /\ e \in Event /\ e.client \in clients \cup {None}
                           /\ e.sess \in Present(sessions)' \cup {None}
    BY <1>1, <1>2, <1>4, <1>5 DEF RowsOK
  <2>2. \A g \in Present(grants) : grants[g].sess # s
    BY DEF CleanSession
  <2>3. Present(sessions) \subseteq Session
    BY <1>1 DEF RowsOK, Present
  <2>. QED BY <1>1, <1>2, <1>3, <2>1, <2>2, <2>3 DEF RowsOK
<1>7. ASSUME NEW v \in Worker \ {None}, NEW x, Kept(req[v], x, new) PROVE Satisfied(x)'
  <2>1. Solo(req[v]) /\ RecordOK(req[v])
    BY DEF IInv, Solo, ShapeOK
  <2>2. /\ s \notin req[v].gone /\ s \notin DOMAIN req[v].moves
        /\ req[v].pc = "store" => req[v].sess # s
        /\ LocksSession(req[v]) => req[v].sess # s
    BY DEF CleanSession, HoldsSession, SharesSession
  <2>3. \A e \in req[v].handled \ Tab : e.sess # s
    BY DEF CleanSession
  <2>4. ParentsStored(x)'
    BY <1>2, <1>3, <1>7, <2>1, <2>2 DEF Kept, Solo, ParentsStored, Sharing, Holding, LocksSession
  <2>5. MovesStored(x)'
    BY <1>2, <1>3, <1>7, <2>1, <2>2 DEF Kept, Solo, MovesStored
  <2>6. SessionsEmptied(x)'
    <3>1. \A k \in Session \cap req[v].gone : \A e \in events' :
              e.sess = k => e \in events /\ e \notin new
      BY <1>4, <1>5
    <3>. QED BY <1>2, <1>3, <1>7, <2>1, <2>2, <3>1 DEF Kept, Solo, SessionsEmptied
  <2>7. ClientsEmptied(x)'
    <3>1. CASE req[v].pc \in {"realm", "commit"}
      <4>1. \A e \in events : e.client \in req[v].scope => e \in req[v].handled /\ e \notin Tab
        BY <1>1, <2>1, <3>1, KeysAssumption DEF Solo, ClientsEmptied, RowsOK, Event
      <4>2. \A e \in events' : e.client \in req[v].scope => e \in events /\ e \notin new
        BY <1>4, <1>5, <2>3, <4>1
      <4>3. Present(sessions)' \subseteq Present(sessions) /\ Present(sessions) \subseteq Session
        BY <1>1, <1>2 DEF Present, RowsOK
      <4>. QED BY <1>2, <1>3, <1>7, <2>1, <4>1, <4>2, <4>3 DEF Kept, Solo, ClientsEmptied
    <3>. QED BY <1>7, <3>1 DEF Kept, ClientsEmptied
  <2>8. SeenHandedOver(x)'
    BY <1>3, <1>7, <2>1 DEF Kept, Solo, SeenHandedOver, Pending
  <2>. QED BY <2>4, <2>5, <2>6, <2>7, <2>8 DEF Satisfied
<1>8. events' \cup mailed' \subseteq events \cup mailed \cup new
  BY <1>3, <1>5
<1>. QED BY <1>3, <1>6, <1>7, <1>8, CommitStep

LEMMA DeletionCommitInv ==
    ASSUME IInv, NEW w \in Worker, DeletionCommit(w)
    PROVE  IInv'
<1>. DEFINE r == req[w]
            unlinked(e) == IF e \notin r.handled THEN e
                           ELSE [client |-> IF e.client \in r.scope THEN None ELSE e.client,
                                 sess |-> IF e.sess \in r.gone THEN None ELSE e.sess]
            new == {unlinked(e) : e \in r.handled \cap events}
            moved == [s \in Session |-> [sessions[s] EXCEPT !.client = OwnerSeen(w, s)]]
<1>1. RowsOK
  BY RowsAreOK
<1>2. /\ Solo(r) /\ RecordOK(r) /\ r.pc = "commit"
      /\ r.gone \cap Client = r.scope /\ r.scope \subseteq Client
  BY DEF IInv, Solo, ShapeOK, DeletionCommit, RecordOK, StagesOK
<1>3. /\ clients' = clients \ r.gone /\ sessions' = Without(moved, r.gone)
      /\ grants' = Without(grants, r.gone) /\ tabs' = Without(tabs, r.gone)
      /\ mailed' = mailed \ r.gone /\ events' = {unlinked(e) : e \in events}
      /\ Ended(w, new) /\ used' = used /\ revoked' = revoked
  BY DEF DeletionCommit
<1>4. /\ grants' \in [Grant -> GrantRow] /\ Present(grants)' = Present(grants) \ r.gone
      /\ \A k \in Grant : /\ grants'[k].client = grants[k].client
                          /\ grants'[k].sess = grants[k].sess
                          /\ grants'[k].st = "absent" <=> grants[k].st = "absent"
      /\ Present(grants) \subseteq Grant
  BY <1>1, <1>3, WithoutGrants DEF RowsOK, Present
<1>5. /\ tabs' \in [Tab -> TabRow] /\ Present(tabs)' = Present(tabs) \ r.gone
      /\ \A k \in Tab : tabs'[k].client = tabs[k].client
      /\ Present(tabs) \subseteq Tab
  BY <1>1, <1>3, WithoutRows DEF RowsOK, Present, TabRow, SessionRow
<1>6. /\ sessions' \in [Session -> SessionRow] /\ Present(sessions)' = Present(sessions) \ r.gone
      /\ \A s \in Session : sessions'[s].client = OwnerSeen(w, s)
      /\ Present(sessions) \subseteq Session
  <2>1. ASSUME NEW s \in Session
        PROVE  /\ moved[s] \in SessionRow /\ moved[s].client = OwnerSeen(w, s)
               /\ moved[s].st = sessions[s].st
    <3>1. sessions[s] \in SessionRow
      BY <1>1 DEF RowsOK
    <3>2. OwnerSeen(w, s) \in Client \cup {None}
      BY <1>2, <3>1 DEF OwnerSeen, RecordOK, SessionRow
    <3>. QED BY <3>1, <3>2 DEF SessionRow
  <2>2. moved \in [Session -> SessionRow] /\ Present(moved) = Present(sessions)
    BY <1>1, <2>1 DEF RowsOK, Present
  <2>3. Present(sessions) \subseteq Session
    BY <1>1 DEF RowsOK, Present
  <2>. HIDE DEF moved
  <2>4. /\ sessions' \in [Session -> SessionRow] /\ Present(sessions') = Present(moved) \ r.gone
        /\ \A s \in Session : sessions'[s].client = moved[s].client
    BY <1>3, <2>2, WithoutRows
  <2>. QED BY <2>1, <2>2, <2>3, <2>4 DEF Present
<1>7. /\ \A s \in Present(sessions) \ DOMAIN r.moves : sessions[s].client \in r.scope => s \in r.gone
      /\ \A g \in Present(grants) : grants[g].client \in r.scope => g \in r.gone
      /\ \A a \in Present(tabs) : tabs[a].client \in r.scope => a \in r.gone
      /\ \A e \in events : e.client \in r.scope => e \in r.handled
  BY <1>2 DEF Solo, ClientsEmptied
<1>8. \A s \in Session \cap r.gone :
        /\ s \notin DOMAIN r.moves
        /\ \A g \in Present(grants) : grants[g].sess = s => g \in r.gone
        /\ \A e \in events : e.sess = s => e \in r.handled
  BY <1>2 DEF Solo, SessionsEmptied
<1>9. \A s \in DOMAIN r.moves : /\ s \in Present(sessions) /\ r.moves[s] \in clients
                                /\ r.moves[s] \in Client \ r.scope
  BY <1>2 DEF Solo, MovesStored, RecordOK
<1>10. ASSUME NEW e \in events
       PROVE  /\ unlinked(e) \in Event
              /\ unlinked(e).client \in {e.client, None} /\ unlinked(e).sess \in {e.sess, None}
              /\ unlinked(e).client \notin r.scope /\ unlinked(e).sess \notin Session \cap r.gone
              /\ e \notin r.handled => unlinked(e) = e
              /\ e \in r.handled => unlinked(e) \in new
  <2>1. e \in Event /\ None \notin Client /\ None \notin Session
    BY <1>1, KeysAssumption DEF RowsOK
  <2>2. CASE e \notin r.handled
    BY <1>7, <1>8, <2>1, <2>2
  <2>3. CASE e \in r.handled
    BY <1>2, <2>1, <2>3 DEF Event
  <2>. QED BY <2>2, <2>3
<1>11. \A f \in new : \E e \in events \cap r.handled : f = unlinked(e)
  OBVIOUS
<1>. HIDE DEF unlinked, new, moved
<1>12. RowsOK'
  <2>1. clients' \subseteq Client /\ clients \cap r.gone = clients \cap r.scope
    BY <1>1, <1>2, <1>3 DEF RowsOK
  <2>2. \A s \in Present(sessions)' : sessions'[s].client \in clients'
    BY <1>1, <1>2, <1>3, <1>6, <1>7, <1>9 DEF RowsOK, OwnerSeen
  <2>3. \A g \in Present(grants)' : /\ grants'[g].client \in clients'
                                    /\ grants'[g].sess \in Present(sessions)'
    BY <1>1, <1>3, <1>4, <1>6, <1>7, <1>8, <2>1 DEF RowsOK
  <2>4. \A a \in Present(tabs)' : tabs'[a].client \in clients'
    BY <1>1, <1>3, <1>5, <1>7, <2>1 DEF RowsOK
  <2>5. mailed' \subseteq Present(tabs)' /\ mailed' \subseteq Tab
    BY <1>1, <1>3, <1>5 DEF RowsOK
  <2>6. ASSUME NEW f \in events'
        PROVE  /\ f \in Event /\ f.client \in clients' \cup {None}
               /\ f.sess \in Present(sessions)' \cup {None}
    <3>1. PICK e \in events : f = unlinked(e)
      BY <1>3
    <3>2. e.client \in clients \cup {None} /\ e.sess \in Present(sessions) \cup {None}
      BY <1>1 DEF RowsOK
    <3>. QED BY <1>3, <1>6, <1>10, <2>1, <3>1, <3>2
  <2>. QED BY <1>1, <1>3, <1>4, <1>5, <1>6, <2>1, <2>2, <2>3, <2>4, <2>5, <2>6 DEF RowsOK
<1>13. ASSUME NEW v \in Worker \ {w}, NEW x, Kept(req[v], x, new) PROVE Satisfied(x)'
  <2>. DEFINE q == req[v]
  <2>1. /\ Solo(q) /\ RecordOK(q) /\ StagesOK(q) /\ ParentsStored(q) /\ Apart(r, q) /\ Apart(q, r)
        /\ Relies(q, r.gone) /\ Relies(r, q.gone)
    BY DEF IInv, Solo, ShapeOK, Others, Apart
  <2>2. /\ x.kind = q.kind /\ x.pc = q.pc /\ x.client = q.client /\ x.sess = q.sess
        /\ x.keys = q.keys /\ x.scope = q.scope /\ x.moves = q.moves /\ x.gone = q.gone
        /\ x.seen = q.seen /\ x.handled = q.handled \ new
    BY <1>13 DEF Kept
  <2>3. ParentsStored(x)'
    <3>1. /\ Sharing(q) => q.client \in clients' \cup {None}
          /\ q.pc = "store" => q.sess \in Present(sessions)' \cup {None}
          /\ LocksSession(q) => q.sess \in Present(sessions)'
          /\ Holding(q) => q.keys \subseteq Present(tabs)' \cup Present(grants)'
      BY <1>3, <1>4, <1>5, <1>6, <2>1 DEF ParentsStored, Relies
    <3>2. q.kind = "redeem" =>
              \A k \in q.keys : /\ k \in Grant /\ grants'[k].st # "absent"
                               /\ grants'[k].sess = q.sess
      BY <1>4, <2>1 DEF ParentsStored
    <3>. QED BY <2>2, <3>1, <3>2 DEF ParentsStored, Sharing, Holding, LocksSession
  <2>4. MovesStored(x)'
    <3>1. \A s \in DOMAIN q.moves : /\ s \in Present(sessions) /\ s \notin r.gone
                                   /\ q.moves[s] \in clients /\ q.moves[s] \notin r.gone
      BY <2>1 DEF Solo, MovesStored, Relies
    <3>2. \A s \in DOMAIN x.moves : s \in Present(sessions)' /\ x.moves[s] \in clients'
      BY <1>3, <1>6, <2>2, <3>1
    <3>. QED BY <3>2 DEF MovesStored
  \* A row that both refer to has been handled by `q` and so not by `r`.
  <2>5. ASSUME NEW f \in events', NEW e \in events, f = unlinked(e), e \in q.handled
        PROVE  f = e /\ e \notin r.handled
    <3>1. e \notin r.handled
      BY <2>1, <2>5 DEF Apart
    <3>. QED BY <1>10, <2>5, <3>1
  <2>6. SessionsEmptied(x)'
    <3>1. /\ \A s \in Session \cap q.gone :
                /\ s \in Present(sessions) /\ s \notin DOMAIN q.moves
                /\ sessions[s].client \in q.scope
                /\ \A g \in Present(grants) : grants[g].sess = s => g \in q.gone
                /\ \A e \in events : e.sess = s => e \in q.handled
          /\ \A s \in Session \cap q.gone : s \notin r.gone /\ s \notin DOMAIN r.moves
      BY <1>2, <2>1 DEF Solo, SessionsEmptied, Relies
    <3>2. \A s \in Session \cap q.gone :
             /\ s \in Present(sessions)' /\ s \notin DOMAIN q.moves
             /\ sessions'[s].client \in q.scope
      BY <1>6, <3>1 DEF OwnerSeen
    <3>3. \A s \in Session \cap q.gone : \A g \in Present(grants)' :
             grants'[g].sess = s => g \in q.gone
      BY <1>4, <3>1
    <3>4. ASSUME NEW s \in Session \cap q.gone, NEW f \in events', f.sess = s
          PROVE  f \in q.handled \ new
      <4>1. PICK e \in events : f = unlinked(e)
        BY <1>3
      <4>2. s # None
        BY KeysAssumption
      <4>3. e.sess = s /\ e \in q.handled
        BY <1>10, <3>1, <3>4, <4>1, <4>2
      <4>4. f = e
        BY <2>5, <4>1, <4>3
      <4>5. ASSUME f \in new PROVE FALSE
        <5>1. PICK d \in events \cap r.handled : f = unlinked(d)
          BY <1>11, <4>5
        <5>2. d.sess = s
          BY <1>10, <3>4, <4>2, <5>1
        <5>3. d \in q.handled
          BY <3>1, <5>2
        <5>. QED BY <2>5, <5>1, <5>3
      <4>. QED BY <4>3, <4>4, <4>5
    <3>. QED BY <2>2, <3>2, <3>3, <3>4 DEF SessionsEmptied
  <2>7. ClientsEmptied(x)'
    <3>1. SUFFICES ASSUME q.pc \in {"realm", "commit"} PROVE ClientsEmptied(x)'
      BY <2>2 DEF ClientsEmptied
    <3>2. /\ \A s \in Present(sessions) \ DOMAIN q.moves :
                sessions[s].client \in q.scope => s \in q.gone
          /\ \A g \in Present(grants) : grants[g].client \in q.scope => g \in q.gone
          /\ \A a \in Present(tabs) : tabs[a].client \in q.scope => a \in q.gone
          /\ \A e \in events : e.client \in q.scope => e \in q.handled
      BY <2>1, <3>1 DEF Solo, ClientsEmptied
    <3>3. q.scope \subseteq Client /\ None \notin q.scope
          /\ \A s \in DOMAIN r.moves : r.moves[s] \notin q.scope
      BY <1>2, <2>1, <3>1, KeysAssumption DEF RecordOK, StagesOK, Relies
    <3>4. \A s \in Present(sessions)' \ DOMAIN q.moves :
              sessions'[s].client \in q.scope => s \in q.gone
      BY <1>6, <3>2, <3>3 DEF OwnerSeen
    <3>5. /\ \A g \in Present(grants)' : grants'[g].client \in q.scope => g \in q.gone
          /\ \A a \in Present(tabs)' : tabs'[a].client \in q.scope => a \in q.gone
      BY <1>4, <1>5, <3>2
    <3>6. ASSUME NEW f \in events', f.client \in q.scope
          PROVE  f \in q.handled \ new
      <4>1. PICK e \in events : f = unlinked(e)
        BY <1>3
      <4>2. e.client \in q.scope /\ e \in q.handled
        BY <1>10, <3>2, <3>3, <3>6, <4>1
      <4>3. f = e
        BY <2>5, <4>1, <4>2
      <4>4. ASSUME f \in new PROVE FALSE
        <5>1. PICK d \in events \cap r.handled : f = unlinked(d)
          BY <1>11, <4>4
        <5>2. d.client \in q.scope
          BY <1>10, <3>3, <3>6, <5>1
        <5>3. d \in q.handled
          BY <3>2, <5>2
        <5>. QED BY <2>5, <5>1, <5>3
      <4>. QED BY <4>2, <4>3, <4>4
    <3>. QED BY <2>2, <3>4, <3>5, <3>6 DEF ClientsEmptied
  <2>8. SeenHandedOver(x)'
    <3>1. \A k \in Grant : grants'[k].st = "present" => grants[k].st = "present"
      BY <1>1, <1>4 DEF Present, RowsOK
    <3>. QED BY <1>4, <2>1, <2>2, <3>1 DEF Solo, SeenHandedOver, Pending
  <2>. QED BY <2>3, <2>4, <2>6, <2>7, <2>8 DEF Satisfied
<1>14. events' \cup mailed' \subseteq events \cup mailed \cup new
  BY <1>3, <1>10
<1>. QED BY <1>3, <1>12, <1>13, <1>14, CommitStep

-----------------------------------------------------------------------------
LEMMA NextInv == IInv /\ [Next]_vars => IInv'
<1>. SUFFICES ASSUME IInv, [Next]_vars PROVE IInv'
  OBVIOUS
<1>1. ASSUME NEW w \in Web, Arrive(w) PROVE IInv'
  BY <1>1, ArriveInv
<1>2. ASSUME NEW w \in Admin, RealmDelete(w) \/ \E c \in Client : ClientDelete(w, c) PROVE IInv'
  BY <1>2, DeletionStartInv
<1>3. ASSUME NEW w \in Worker, Proceed(w) PROVE IInv'
  <2>1. CASE Answer(w)
    BY <2>1, FinishInv DEF Answer
  <2>2. CASE (\E s \in Session : Reuse(w, s)) \/ LockSession(w) \/ Claim(w)
    BY <2>2, ReuseInv, LockSessionInv, ClaimInv
  <2>3. CASE Revoke(w) \/ Insert(w)
    BY <2>3, RevokeInv, InsertInv
  <2>4. CASE StoreLogin(w) \/ StoreGrant(w) \/ StoreRevocation(w) \/ StoreTab(w)
    BY <2>4, StoreLoginInv, StoreGrantInv, StoreRevocationInv, StoreTabInv
  <2>5. CASE Look(w) \/ LookForCodes(w) \/ Flush(w) \/ DeleteMessages(w) \/ UnlinkEvents(w)
    BY <2>5, LookInv, LookForCodesInv, FlushInv, MessagesInv, EventsInv
  <2>6. CASE DeleteCodes(w) \/ DeleteTokens(w) \/ DeleteTabs(w)
    BY <2>6, GrantsInv, TabsInv
  <2>7. CASE DeleteSessions(w) \/ DeleteClients(w) \/ DeleteRealmRow(w) \/ DeletionCommit(w)
    BY <2>7, SessionsInv, ClientsInv, RealmRowInv, DeletionCommitInv
  <2>. QED BY <1>3, <2>1, <2>2, <2>3, <2>4, <2>5, <2>6, <2>7 DEF Proceed
<1>4. ASSUME NEW w \in Worker, Fail(w) PROVE IInv'
  BY <1>4, FinishInv DEF Fail
<1>5. ASSUME NEW g \in Grant, CleanGrant(g) PROVE IInv'
  BY <1>5, CleanGrantInv
<1>6. ASSUME NEW s \in Session, CleanSession(s) PROVE IInv'
  BY <1>6, CleanSessionInv
<1>7. CASE UNCHANGED vars
  <2>1. /\ clients' = clients /\ sessions' = sessions /\ grants' = grants /\ tabs' = tabs
        /\ used' = used /\ revoked' = revoked /\ mailed' = mailed /\ events' = events
        /\ req' = req
    BY <1>7 DEF vars
  <2>2. \A w \in Worker : Solo(req[w])
    BY DEF IInv
  <2>3. \A w \in Worker : \A v \in Others(w) : Apart(req[v], req[w])
    BY DEF IInv
  <2>4. ASSUME NEW w \in Worker PROVE Solo(req[w])'
    BY <2>1, <2>2 DEF Solo, ShapeOK, RecordOK, StagesOK, RequestOK, ParentsStored,
       Sharing, Holding, LocksSession, MovesStored, SessionsEmptied, ClientsEmptied,
       SeenHandedOver, Pending, Present
  <2>5. ASSUME NEW w \in Worker, NEW v \in Others(w) PROVE Apart(req[v], req[w])'
    BY <2>1, <2>3 DEF Apart, Relies, Sharing, Holding, LocksSession
  <2>6. ForeignKeysHold' /\ (req = [w \in Worker |-> req[w]])'
    BY <2>1 DEF IInv, ForeignKeysHold, TypeOK, Present
  <2>. QED BY <2>4, <2>5, <2>6 DEF IInv, Others
<1>. QED BY <1>1, <1>2, <1>3, <1>4, <1>5, <1>6, <1>7 DEF Next

\* The inductive invariant holds throughout.
THEOREM Invariance == Spec => []IInv
<1>. QED BY InitInv, NextInv, PTL DEF Spec

\* No stored row ever refers to a row that is not there: of the inserts and deletions
\* that overtake each other, one waits for the other (the foreign keys of the schema).
THEOREM ReferencesHold == Spec => []ForeignKeysHold
<1>1. IInv => ForeignKeysHold
  BY DEF IInv
<1>. QED BY <1>1, Invariance, PTL

\* delete_client removes nothing of what it has seen other clients hold: it has written
\* the new owner of their session before it asks which sessions go with the client.
THEOREM SeenGrantsAreKept == Spec => []SeenGrantsKept
<1>1. IInv => SeenGrantsKept
  <2>1. SUFFICES ASSUME IInv, NEW w \in Worker
                 PROVE  /\ req[w].seen \cap req[w].gone = {}
                        /\ \A g \in req[w].seen :
                              grants[g].st = "present" => grants[g].sess \notin req[w].gone
    BY DEF SeenGrantsKept
  <2>2. /\ RecordOK(req[w]) /\ StagesOK(req[w]) /\ SessionsEmptied(req[w])
        /\ SeenHandedOver(req[w])
    BY <2>1 DEF IInv, Solo, ShapeOK
  <2>3. ASSUME NEW g \in req[w].seen, grants[g].st = "present" PROVE grants[g].sess \notin req[w].gone
    <3>1. CASE grants[g].sess \in DOMAIN req[w].moves
      BY <2>2, <3>1 DEF RecordOK, SessionsEmptied
    <3>2. CASE grants[g].sess \in Pending(req[w])
      BY <2>2, <3>2 DEF Pending, StagesOK, Flushed
    <3>. QED BY <2>2, <2>3, <3>1, <3>2 DEF SeenHandedOver
  <2>. QED BY <2>2, <2>3 DEF SeenHandedOver
<1>. QED BY <1>1, Invariance, PTL


-----------------------------------------------------------------------------
(* Deletions that nobody overtakes.                                         *)

\* The owner of a session, and the sessions owned, as a deletion sees them.
NewOwner(r, s) == IF s \in DOMAIN r.moves THEN r.moves[s] ELSE sessions[s].client
OwnedBy(r) == {s \in Present(sessions) : NewOwner(r, s) \in r.scope}

\* What goes with the clients of a deletion, or with their sessions.
Doomed(r, row) == row.client \in r.scope \/ row.sess \in OwnedBy(r)

\* The statements after each other: what a deletion has found so far is all there is,
\* as long as no commit has come in between.
HeirsFound(r) ==
    /\ r.pc \in {"look", "heirs", "flush"} => r.look \subseteq Present(sessions)
    /\ r.pc \in {"heirs", "flush"} => r.sess \in Present(sessions)
    /\ r.pc = "flush" => r.client \in clients

MessagesFound(r) ==
    r.pc \in Flushed \ {"messages"} =>
        \A a \in Present(tabs) \cap mailed : tabs[a].client \in r.scope => a \in r.handled

EventsFound(r) ==
    r.pc \in Flushed \ {"messages", "events"} =>
        \A e \in events : Doomed(r, e) => e \in r.handled

CodesFound(r) ==
    r.pc \in Flushed \ {"messages", "events", "codes"} =>
        \A g \in Present(grants) \cap Code : Doomed(r, grants[g]) => g \in r.gone

TokensFound(r) ==
    r.pc \in {"tabs", "sessions", "clients", "realm", "commit"} =>
        \A g \in Present(grants) \cap Token : Doomed(r, grants[g]) => g \in r.gone

TabsFound(r) ==
    r.pc \in {"sessions", "clients", "realm", "commit"} =>
        \A a \in Present(tabs) : tabs[a].client \in r.scope => a \in r.gone

SessionsFound(r) == r.pc \in {"clients", "realm", "commit"} => OwnedBy(r) \subseteq r.gone

AllFound(r) ==
    /\ HeirsFound(r) /\ MessagesFound(r) /\ EventsFound(r) /\ CodesFound(r) /\ TokensFound(r)
    /\ TabsFound(r) /\ SessionsFound(r)

UpToDate(r) ==
    /\ r.pc \in DeletionPC /\ ~r.overtaken => AllFound(r)
    /\ r.pc = "refused" => r.overtaken

Progress == \A w \in Worker : UpToDate(req[w])

LEMMA InitProgress == Init => Progress
BY DEF Init, Progress, Idle, UpToDate, DeletionPC

\* The definitions of the model in terms of the record of w.
LEMMA SeenBy ==
    ASSUME NEW w \in Worker
    PROVE  /\ Owned(w) = OwnedBy(req[w])
           /\ \A keys : GrantsHit(w, keys) = {g \in keys \cap Present(grants) : Doomed(req[w], grants[g])}
           /\ EventsHit(w) = {e \in events : Doomed(req[w], e)}
<1>1. Owned(w) = OwnedBy(req[w])
  BY DEF Owned, OwnedBy, OwnerSeen, NewOwner
<1>. QED BY <1>1 DEF GrantsHit, EventsHit, Doomed

\* A step of w that writes no table.
LEMMA LocalProgress ==
    ASSUME IInv, Progress, UNCHANGED tables, NEW w \in Worker, NEW x,
           req' = [req EXCEPT ![w] = x], UpToDate(x)
    PROVE  Progress'
<1>1. req'[w] = x /\ \A v \in Others(w) : req'[v] = req[v]
  BY DEF IInv, Others
<1>2. /\ clients' = clients /\ sessions' = sessions /\ grants' = grants /\ tabs' = tabs
      /\ mailed' = mailed /\ events' = events
  BY DEF tables
<1>3. ASSUME NEW v \in Worker PROVE UpToDate(req[v])'
  <2>1. UpToDate(req'[v])
    BY <1>1 DEF Progress, Others
  <2>. QED BY <1>2, <2>1 DEF UpToDate, AllFound, HeirsFound, MessagesFound, EventsFound,
           CodesFound, TokensFound, TabsFound, SessionsFound, Doomed, OwnedBy, NewOwner, Present
<1>. QED BY <1>3 DEF Progress

\* A commit overtakes every deletion under way.
LEMMA CommitProgress ==
    ASSUME IInv, Progress, NEW w, NEW new, Ended(w, new)
    PROVE  Progress'
<1>1. ASSUME NEW v \in Worker PROVE UpToDate(req[v])'
  <2>1. CASE v = w
    <3>1. req'[v] = Idle
      BY <2>1 DEF Ended
    <3>. QED BY <3>1 DEF Idle, UpToDate, DeletionPC
  <2>2. CASE v # w /\ req[v].pc \in DeletionPC
    <3>1. req'[v] = [req[v] EXCEPT !.overtaken = TRUE, !.handled = @ \ new]
      BY <2>2 DEF Ended
    <3>2. DOMAIN req[v] = Fields
      BY DEF IInv, Solo, ShapeOK, RecordOK
    <3>3. req'[v].overtaken
      BY <3>1, <3>2 DEF Fields
    <3>. QED BY <3>3 DEF UpToDate
  <2>3. CASE v # w /\ req[v].pc \notin DeletionPC
    <3>1. req'[v] = req[v]
      BY <2>3 DEF Ended
    <3>2. UpToDate(req[v])
      BY DEF Progress
    <3>. QED BY <2>3, <3>1, <3>2 DEF UpToDate
  <2>. QED BY <2>1, <2>2, <2>3
<1>. QED BY <1>1 DEF Progress

LEMMA IdleProgress ==
    ASSUME IInv, Progress, UNCHANGED tables, NEW w \in Worker, Finish(w)
    PROVE  Progress'
<1>1. UpToDate(Idle)
  BY DEF Idle, UpToDate, DeletionPC
<1>. QED BY <1>1, LocalProgress DEF Finish

LEMMA RefusedProgress ==
    ASSUME IInv, Progress, UNCHANGED tables, NEW w \in Worker, Refuse(w), req[w].overtaken
    PROVE  Progress'
<1>. DEFINE x == [Idle EXCEPT !.pc = "refused", !.overtaken = req[w].overtaken]
<1>1. x.pc = "refused" /\ x.overtaken
  BY IdleFields DEF Fields
<1>2. req' = [req EXCEPT ![w] = x]
  BY DEF Refuse
<1>. HIDE DEF x
<1>3. UpToDate(x)
  BY <1>1 DEF UpToDate, DeletionPC
<1>. QED BY <1>2, <1>3, LocalProgress

\* An arrival, and the statements of a request.
LEMMA RequestProgress ==
    ASSUME IInv, Progress, NEW w \in Worker,
           \/ Arrive(w) \/ (\E s \in Session : Reuse(w, s))
           \/ LockSession(w) \/ Claim(w) \/ Revoke(w) \/ Insert(w)
    PROVE  Progress'
<1>. DEFINE r == req[w]
<1>1. ASSUME NEW x, req' = [req EXCEPT ![w] = x], UNCHANGED tables, x.pc \in RequestPC
      PROVE  Progress'
  <2>1. UpToDate(x)
    BY <1>1 DEF UpToDate, RequestPC, DeletionPC
  <2>. QED BY <1>1, <2>1, LocalProgress
<1>2. ASSUME NEW kind, NEW pc \in RequestPC, NEW c, NEW s, NEW k, Arrives(w, kind, pc, c, s, k)
      PROVE  Progress'
  <2>. DEFINE x == Asking(kind, pc, c, s, k)
  <2>1. x.pc = pc
    BY DEF Asking, Idle
  <2>2. req' = [req EXCEPT ![w] = x] /\ UNCHANGED tables
    BY <1>2 DEF Arrives
  <2>. HIDE DEF x
  <2>. QED BY <1>1, <2>1, <2>2
<1>3. CASE Arrive(w)
  <2>1. ASSUME NEW c \in Client, Visit(w, c) \/ Login(w, c) PROVE Progress'
    BY <1>2, <2>1 DEF Visit, Login, RequestPC
  <2>2. ASSUME NEW k, \/ Redeem(w, k) \/ Refresh(w, k) \/ Logout(w, k)
                      \/ Submit(w, k) \/ Mail(w, k)
        PROVE  Progress'
    BY <1>2, <2>2 DEF Redeem, Refresh, Logout, Submit, Mail, RequestPC
  <2>. QED BY <1>3, <2>1, <2>2 DEF Arrive
<1>4. ASSUME r.pc \in RequestPC
      PROVE  /\ \A pc : [r EXCEPT !.pc = pc].pc = pc
             /\ \A kind, pc : [r EXCEPT !.kind = kind, !.pc = pc].pc = pc
             /\ \A kind, pc, s : [r EXCEPT !.kind = kind, !.pc = pc, !.sess = s].pc = pc
             /\ \A pc, keys : [r EXCEPT !.pc = pc, !.keys = keys].pc = pc
             /\ \A pc, c : [r EXCEPT !.pc = pc, !.client = c].pc = pc
  BY <1>4, RequestFacts DEF Goes
<1>5. ASSUME NEW pc \in RequestPC, UNCHANGED tables, r.pc \in RequestPC, Goto(w, pc)
      PROVE  Progress'
  <2>. DEFINE x == [r EXCEPT !.pc = pc]
  <2>1. x.pc = pc /\ req' = [req EXCEPT ![w] = x]
    BY <1>4, <1>5 DEF Goto
  <2>. HIDE DEF x
  <2>. QED BY <1>1, <1>5, <2>1
<1>6. ASSUME NEW s \in Session, Reuse(w, s) PROVE Progress'
  <2>. DEFINE x == [r EXCEPT !.kind = "sso", !.pc = "lock", !.sess = s]
  <2>1. r.pc \in RequestPC /\ req' = [req EXCEPT ![w] = x] /\ UNCHANGED tables
    BY <1>6 DEF Reuse, RequestPC
  <2>2. x.pc = "lock"
    BY <1>4, <2>1
  <2>. HIDE DEF x
  <2>. QED BY <1>1, <2>1, <2>2 DEF RequestPC
<1>7. CASE LockSession(w)
  <2>1. r.pc \in RequestPC /\ UNCHANGED tables
    BY <1>7 DEF LockSession, Runs, RequestPC
  <2>2. CASE Finish(w)
    BY <2>1, <2>2, IdleProgress
  <2>3. CASE Goto(w, "store") \/ Goto(w, "revoke") \/ Goto(w, "claim")
    BY <1>5, <2>1, <2>3 DEF RequestPC
  <2>4. CASE req' = [req EXCEPT ![w] = [r EXCEPT !.kind = "detect", !.pc = "revoke"]]
    <3>. DEFINE x == [r EXCEPT !.kind = "detect", !.pc = "revoke"]
    <3>1. x.pc = "revoke" /\ req' = [req EXCEPT ![w] = x]
      BY <1>4, <2>1, <2>4
    <3>. HIDE DEF x
    <3>. QED BY <1>1, <2>1, <3>1 DEF RequestPC
  <2>. QED BY <1>7, <2>2, <2>3, <2>4 DEF LockSession
<1>8. CASE Claim(w)
  <2>1. r.pc \in RequestPC /\ UNCHANGED tables
    BY <1>8 DEF Claim, Runs, RequestPC
  <2>2. Goto(w, "insert") \/ Finish(w)
    BY <1>8 DEF Claim
  <2>. QED BY <1>5, <2>1, <2>2, IdleProgress DEF RequestPC
<1>9. CASE Revoke(w)
  <2>. DEFINE x == [r EXCEPT !.pc = "insert", !.keys = Unrevoked(r.sess)]
  <2>1. r.pc \in RequestPC /\ UNCHANGED tables /\ req' = [req EXCEPT ![w] = x]
    BY <1>9 DEF Revoke, Runs, RequestPC
  <2>2. x.pc = "insert"
    BY <1>4, <2>1
  <2>. HIDE DEF x
  <2>. QED BY <1>1, <2>1, <2>2 DEF RequestPC
<1>10. CASE Insert(w)
  <2>1. r.pc \in RequestPC /\ UNCHANGED tables
    BY <1>10 DEF Insert, Runs, RequestPC
  <2>2. CASE Goto(w, "store") \/ Finish(w)
    BY <1>5, <2>1, <2>2, IdleProgress DEF RequestPC
  <2>3. CASE req' = [req EXCEPT ![w] = [r EXCEPT !.pc = "store", !.client = None]]
    <3>. DEFINE x == [r EXCEPT !.pc = "store", !.client = None]
    <3>1. x.pc = "store" /\ req' = [req EXCEPT ![w] = x]
      BY <1>4, <2>1, <2>3
    <3>. HIDE DEF x
    <3>. QED BY <1>1, <2>1, <3>1 DEF RequestPC
  <2>. QED BY <1>10, <2>2, <2>3 DEF Insert
<1>. QED BY <1>3, <1>6, <1>7, <1>8, <1>9, <1>10

LEMMA StartProgress ==
    ASSUME IInv, Progress, NEW w \in Worker,
           RealmDelete(w) \/ \E c \in Client : ClientDelete(w, c)
    PROVE  Progress'
<1>1. ASSUME NEW x, req' = [req EXCEPT ![w] = x], UNCHANGED tables,
             x.pc \in {"look", "messages"}, x.look \subseteq Present(sessions)
      PROVE  Progress'
  <2>1. AllFound(x)
    BY <1>1 DEF AllFound, HeirsFound, MessagesFound, EventsFound, CodesFound, TokensFound,
                TabsFound, SessionsFound, Flushed
  <2>. QED BY <1>1, <2>1, LocalProgress DEF UpToDate
<1>2. CASE RealmDelete(w)
  <2>. DEFINE x == [Idle EXCEPT !.kind = "delete_realm", !.pc = "messages", !.scope = Client]
  <2>1. x.pc = "messages" /\ x.look = {}
    BY DEF Idle
  <2>. HIDE DEF x
  <2>. QED BY <1>1, <1>2, <2>1 DEF RealmDelete, x
<1>3. ASSUME NEW c \in Client, ClientDelete(w, c) PROVE Progress'
  <2>. DEFINE owned == {s \in Present(sessions) : sessions[s].client = c}
              x == [Idle EXCEPT !.kind = "delete_client", !.pc = "look", !.scope = {c},
                                !.look = owned]
  <2>1. owned \subseteq Present(sessions)
    OBVIOUS
  <2>. HIDE DEF owned
  <2>2. x.pc = "look" /\ x.look = owned
    BY DEF Idle
  <2>. HIDE DEF x
  <2>. QED BY <1>1, <1>3, <2>1, <2>2 DEF ClientDelete, x, owned
<1>. QED BY <1>2, <1>3

\* A statement does not change whom it is about.
LEMMA SameDoomed ==
    ASSUME NEW r, NEW x, x.scope = r.scope, x.moves = r.moves
    PROVE  /\ OwnedBy(x) = OwnedBy(r)
           /\ \A row : Doomed(x, row) <=> Doomed(r, row)
<1>1. OwnedBy(x) = OwnedBy(r)
  BY DEF OwnedBy, NewOwner
<1>. QED BY <1>1 DEF Doomed

LEMMA StatementProgress ==
    ASSUME IInv, Progress, UNCHANGED tables, NEW w \in Worker, NEW x,
           req' = [req EXCEPT ![w] = x], req[w].pc \in DeletionPC, x.pc \in DeletionPC,
           x.overtaken = req[w].overtaken, AllFound(req[w]) => AllFound(x)
    PROVE  Progress'
<1>1. UpToDate(req[w])
  BY DEF Progress
<1>2. UpToDate(x)
  BY <1>1 DEF UpToDate, DeletionPC
<1>. QED BY <1>2, LocalProgress

\* A statement at `pc` that finds `keys` and `rows` has found all that was there.
Finds(r, pc, keys, rows) ==
    \/ r.pc = "look" /\ pc = "messages"
    \/ /\ r.pc = "messages" /\ pc = "events"
       /\ \A a \in Present(tabs) \cap mailed : tabs[a].client \in r.scope => a \in rows
    \/ /\ r.pc = "events" /\ pc = "codes"
       /\ \A e \in events : Doomed(r, e) => e \in rows
    \/ /\ r.pc = "codes" /\ pc = "tokens"
       /\ \A g \in Present(grants) \cap Code : Doomed(r, grants[g]) => g \in keys
    \/ /\ r.pc = "tokens" /\ pc = "tabs"
       /\ \A g \in Present(grants) \cap Token : Doomed(r, grants[g]) => g \in keys
    \/ /\ r.pc = "tabs" /\ pc = "sessions"
       /\ \A a \in Present(tabs) : tabs[a].client \in r.scope => a \in keys
    \/ r.pc = "sessions" /\ pc = "clients" /\ OwnedBy(r) \subseteq keys
    \/ r.pc = "clients" /\ pc \in {"realm", "commit"}
    \/ r.pc = "realm" /\ pc = "commit"

LEMMA FoundStep ==
    ASSUME NEW r, NEW x, NEW pc, NEW keys, NEW rows, Step(r, x, pc, keys, rows), AllFound(r),
           Finds(r, pc, keys, rows)
    PROVE  AllFound(x)
<1>1. /\ x.pc = pc /\ x.gone = r.gone \cup keys /\ x.handled = r.handled \cup rows
      /\ x.scope = r.scope /\ x.moves = r.moves
  BY DEF Step
<1>2. OwnedBy(x) = OwnedBy(r) /\ \A row : Doomed(x, row) <=> Doomed(r, row)
  BY <1>1, SameDoomed
<1>3. HeirsFound(x) /\ MessagesFound(x)
  BY <1>1 DEF AllFound, Finds, HeirsFound, MessagesFound, Flushed, DeletionPC
<1>4. EventsFound(x)
  BY <1>1, <1>2 DEF AllFound, Finds, EventsFound, Flushed, DeletionPC
<1>5. CodesFound(x)
  BY <1>1, <1>2 DEF AllFound, Finds, CodesFound, Flushed, DeletionPC
<1>6. TokensFound(x)
  BY <1>1, <1>2 DEF AllFound, Finds, TokensFound
<1>7. TabsFound(x) /\ SessionsFound(x)
  BY <1>1, <1>2 DEF AllFound, Finds, TabsFound, SessionsFound
<1>. QED BY <1>3, <1>4, <1>5, <1>6, <1>7 DEF AllFound

\* The clients that may inherit a session are stored.
LEMMA HeirsStored ==
    ASSUME IInv, NEW w, NEW s, NEW keys
    PROVE  \A d \in Heirs(w, s, keys) : d \in clients
<1>1. \A g \in Present(grants) : grants[g].client \in clients
  BY DEF IInv, ForeignKeysHold
<1>. QED BY <1>1 DEF Heirs, Foreign

\* The statements of the loop over the sessions of a client.
LEMMA LoopProgress ==
    ASSUME IInv, Progress, NEW w \in Worker, Look(w) \/ LookForCodes(w) \/ Flush(w)
    PROVE  Progress'
<1>. DEFINE r == req[w]
<1>1. /\ UNCHANGED tables /\ r.pc \in {"look", "heirs", "flush"} /\ r.pc \in DeletionPC
      /\ DOMAIN r = Fields /\ UpToDate(r)
  BY DEF IInv, Solo, ShapeOK, RecordOK, Progress, Look, LookForCodes, Flush, Runs, DeletionPC
<1>2. ASSUME NEW x, req' = [req EXCEPT ![w] = x], x.overtaken = r.overtaken,
             x.pc \in {"look", "heirs", "flush"}, AllFound(r) => HeirsFound(x)
      PROVE  Progress'
  <2>1. AllFound(r) => AllFound(x)
    BY <1>2 DEF AllFound, MessagesFound, EventsFound, CodesFound, TokensFound, TabsFound,
                SessionsFound, Flushed
  <2>2. x.pc \in DeletionPC
    BY <1>2 DEF DeletionPC
  <2>. QED BY <1>1, <1>2, <2>1, <2>2, StatementProgress
<1>3. CASE Look(w)
  <2>1. r.pc = "look"
    BY <1>3 DEF Look
  <2>2. CASE Goto(w, "messages")
    <3>1. PICK x : req' = [req EXCEPT ![w] = x] /\ Step(r, x, "messages", {}, {})
      BY <2>2, StepForms
    <3>2. Finds(r, "messages", {}, {})
      BY <2>1 DEF Finds
    <3>3. AllFound(r) => AllFound(x)
      BY <3>1, <3>2, FoundStep
    <3>. QED BY <1>1, <3>1, <3>3, StatementProgress DEF Step, DeletionPC
  <2>3. ASSUME NEW s \in r.look,
               NEW d \in IF Heirs(w, s, Token) = {} THEN {None} ELSE Heirs(w, s, Token),
               req' = [req EXCEPT ![w] =
                         [r EXCEPT !.pc = IF d = None THEN "heirs" ELSE "flush",
                                   !.sess = s, !.client = d,
                                   !.look = @ \ {s}, !.seen = @ \cup Foreign(w, s)]]
        PROVE  Progress'
    <3>. DEFINE x == [r EXCEPT !.pc = IF d = None THEN "heirs" ELSE "flush",
                               !.sess = s, !.client = d,
                               !.look = @ \ {s}, !.seen = @ \cup Foreign(w, s)]
    <3>1. /\ x.pc = IF d = None THEN "heirs" ELSE "flush"
          /\ x.sess = s /\ x.client = d /\ x.look = r.look \ {s} /\ x.overtaken = r.overtaken
      BY <1>1 DEF Fields
    <3>2. req' = [req EXCEPT ![w] = x]
      BY <2>3
    <3>. HIDE DEF x
    <3>3. d # None => d \in clients
      BY HeirsStored
    <3>4. AllFound(r) => HeirsFound(x)
      BY <2>1, <3>1, <3>3 DEF AllFound, HeirsFound
    <3>. QED BY <1>2, <3>1, <3>2, <3>4
  <2>. QED BY <1>3, <2>2, <2>3 DEF Look
<1>4. CASE LookForCodes(w)
  <2>1. r.pc = "heirs"
    BY <1>4 DEF LookForCodes
  <2>2. CASE Goto(w, "look")
    <3>1. PICK x : req' = [req EXCEPT ![w] = x] /\ Step(r, x, "look", {}, {})
      BY <2>2, StepForms
    <3>2. AllFound(r) => HeirsFound(x)
      BY <2>1, <3>1 DEF Step, AllFound, HeirsFound
    <3>. QED BY <1>2, <3>1, <3>2 DEF Step
  <2>3. ASSUME NEW d \in Heirs(w, r.sess, Code),
               req' = [req EXCEPT ![w] = [r EXCEPT !.pc = "flush", !.client = d]]
        PROVE  Progress'
    <3>. DEFINE x == [r EXCEPT !.pc = "flush", !.client = d]
    <3>1. /\ x.pc = "flush" /\ x.sess = r.sess /\ x.client = d /\ x.look = r.look
          /\ x.overtaken = r.overtaken
      BY <1>1 DEF Fields
    <3>2. req' = [req EXCEPT ![w] = x]
      BY <2>3
    <3>. HIDE DEF x
    <3>3. d \in clients
      BY HeirsStored
    <3>4. AllFound(r) => HeirsFound(x)
      BY <2>1, <3>1, <3>3 DEF AllFound, HeirsFound
    <3>. QED BY <1>2, <3>1, <3>2, <3>4
  <2>. QED BY <1>4, <2>2, <2>3 DEF LookForCodes
<1>5. CASE Flush(w)
  <2>1. r.pc = "flush"
    BY <1>5 DEF Flush, Runs
  <2>2. CASE Refuse(w) /\ ~(r.sess \in Present(sessions) /\ r.client \in clients)
    <3>1. r.overtaken
      BY <1>1, <2>1, <2>2 DEF UpToDate, AllFound, HeirsFound
    <3>. QED BY <1>1, <2>2, <3>1, RefusedProgress
  <2>3. CASE req' = [req EXCEPT ![w] =
                      [r EXCEPT !.pc = "look",
                                !.moves = [x \in DOMAIN @ \cup {r.sess} |->
                                             IF x = r.sess THEN r.client ELSE @[x]]]]
    <3>. DEFINE x == [r EXCEPT !.pc = "look",
                               !.moves = [y \in DOMAIN @ \cup {r.sess} |->
                                            IF y = r.sess THEN r.client ELSE @[y]]]
    <3>1. x.pc = "look" /\ x.look = r.look /\ x.overtaken = r.overtaken
      BY <1>1 DEF Fields
    <3>2. req' = [req EXCEPT ![w] = x]
      BY <2>3
    <3>. HIDE DEF x
    <3>3. AllFound(r) => HeirsFound(x)
      BY <2>1, <3>1 DEF AllFound, HeirsFound
    <3>. QED BY <1>2, <3>1, <3>2, <3>3
  <2>. QED BY <1>5, <2>2, <2>3 DEF Flush
<1>. QED BY <1>3, <1>4, <1>5

\* A statement that is refused would have found its rows, had nobody committed.
LEMMA DeletionProgress ==
    ASSUME IInv, Progress, NEW w \in Worker,
           \/ DeleteMessages(w) \/ UnlinkEvents(w) \/ DeleteCodes(w) \/ DeleteTokens(w)
           \/ DeleteTabs(w) \/ DeleteSessions(w) \/ DeleteClients(w) \/ DeleteRealmRow(w)
    PROVE  Progress'
<1>. DEFINE r == req[w]
<1>1. /\ UpToDate(r) /\ TypeOK
  BY DEF IInv, ForeignKeysHold, Progress
<1>2. UNCHANGED tables /\ r.pc \in DeletionPC
  BY DEF DeleteMessages, UnlinkEvents, DeleteCodes, DeleteTokens, DeleteTabs,
         DeleteSessions, DeleteClients, DeleteRealmRow, Runs, DeletionPC
<1>3. ASSUME Refuse(w), AllFound(r) => FALSE PROVE Progress'
  BY <1>1, <1>2, <1>3, RefusedProgress DEF UpToDate
<1>4. ASSUME NEW pc \in DeletionPC, NEW keys, NEW rows, Finds(r, pc, keys, rows),
             NEW x, req' = [req EXCEPT ![w] = x], Step(r, x, pc, keys, rows)
      PROVE  Progress'
  <2>1. AllFound(r) => AllFound(x)
    BY <1>4, FoundStep
  <2>2. x.pc \in DeletionPC /\ x.overtaken = r.overtaken
    BY <1>4 DEF Step
  <2>. QED BY <1>2, <1>4, <2>1, <2>2, StatementProgress
<1>5. ASSUME NEW pc \in DeletionPC, NEW keys, Removes(w, keys, pc), Finds(r, pc, keys, {})
      PROVE  Progress'
  <2>1. PICK x : req' = [req EXCEPT ![w] = x] /\ Step(r, x, pc, keys, {})
    BY <1>5, StepForms
  <2>. QED BY <1>4, <1>5, <2>1
<1>6. ASSUME NEW pc \in DeletionPC, NEW rows, Handles(w, rows, pc), Finds(r, pc, {}, rows)
      PROVE  Progress'
  <2>1. PICK x : req' = [req EXCEPT ![w] = x] /\ Step(r, x, pc, {}, rows)
    BY <1>6, StepForms
  <2>. QED BY <1>4, <1>6, <2>1
<1>7. Present(tabs) \subseteq Tab /\ Present(grants) \subseteq Code \cup Token
  BY <1>1 DEF TypeOK, Present, Grant
<1>8. CASE DeleteMessages(w)
  <2>1. Finds(r, "events", {}, TabsHit(w) \cap mailed)
    BY <1>8 DEF DeleteMessages, Runs, Finds, TabsHit
  <2>. QED BY <1>6, <1>8, <2>1 DEF DeleteMessages, DeletionPC
<1>9. CASE UnlinkEvents(w)
  <2>1. \A e \in events : Doomed(r, e) => e \in EventsHit(w)
    BY SeenBy
  <2>2. Finds(r, "codes", {}, EventsHit(w))
    BY <1>9, <2>1 DEF UnlinkEvents, Runs, Finds
  <2>. QED BY <1>6, <1>9, <2>2 DEF UnlinkEvents, DeletionPC
<1>10. CASE DeleteCodes(w)
  <2>1. \A g \in Present(grants) \cap Code : Doomed(r, grants[g]) => g \in GrantsHit(w, Code)
    BY SeenBy
  <2>2. Finds(r, "tokens", GrantsHit(w, Code), {})
    BY <1>10, <2>1 DEF DeleteCodes, Runs, Finds
  <2>. QED BY <1>5, <1>10, <2>2 DEF DeleteCodes, DeletionPC
<1>11. CASE DeleteTokens(w)
  <2>1. \A g \in Present(grants) \cap Token : Doomed(r, grants[g]) => g \in GrantsHit(w, Token)
    BY SeenBy
  <2>2. Finds(r, "tabs", GrantsHit(w, Token), {})
    BY <1>11, <2>1 DEF DeleteTokens, Runs, Finds
  <2>. QED BY <1>5, <1>11, <2>2 DEF DeleteTokens, DeletionPC
<1>12. CASE DeleteTabs(w)
  <2>1. r.pc = "tabs"
    BY <1>12 DEF DeleteTabs, Runs
  <2>2. CASE Refuse(w) /\ ~(TabsHit(w) \cap mailed \subseteq r.handled)
    <3>1. AllFound(r) => TabsHit(w) \cap mailed \subseteq r.handled
      BY <2>1 DEF AllFound, MessagesFound, TabsHit, Flushed, DeletionPC
    <3>. QED BY <1>3, <2>2, <3>1
  <2>3. CASE Removes(w, TabsHit(w), "sessions")
    <3>1. Finds(r, "sessions", TabsHit(w), {})
      BY <2>1 DEF Finds, TabsHit
    <3>. QED BY <1>5, <2>3, <3>1 DEF DeletionPC
  <2>. QED BY <1>12, <2>2, <2>3 DEF DeleteTabs
<1>13. CASE DeleteSessions(w)
  <2>1. r.pc = "sessions" /\ Owned(w) = OwnedBy(r)
    BY <1>13, SeenBy DEF DeleteSessions, Runs
  <2>2. CASE Refuse(w) /\ SessionChildren(w) # {}
    <3>1. ASSUME AllFound(r) PROVE SessionChildren(w) = {}
      <4>1. /\ \A e \in events : Doomed(r, e) => e \in r.handled
            /\ \A g \in Present(grants) : Doomed(r, grants[g]) => g \in r.gone
        BY <1>7, <2>1, <3>1 DEF AllFound, EventsFound, CodesFound, TokensFound, Flushed, DeletionPC
      <4>. QED BY <2>1, <4>1 DEF SessionChildren, Doomed
    <3>. QED BY <1>3, <2>2, <3>1
  <2>3. CASE Removes(w, Owned(w), "clients")
    <3>1. Finds(r, "clients", Owned(w), {})
      BY <2>1 DEF Finds
    <3>. QED BY <1>5, <2>3, <3>1 DEF DeletionPC
  <2>. QED BY <1>13, <2>2, <2>3 DEF DeleteSessions
<1>14. CASE DeleteClients(w)
  <2>1. r.pc = "clients"
    BY <1>14 DEF DeleteClients, Runs
  <2>2. CASE Refuse(w) /\ ClientChildren(w) # {}
    <3>1. ASSUME AllFound(r) PROVE ClientChildren(w) = {}
      <4>1. /\ \A e \in events : Doomed(r, e) => e \in r.handled
            /\ \A g \in Present(grants) : Doomed(r, grants[g]) => g \in r.gone
        BY <1>7, <2>1, <3>1 DEF AllFound, EventsFound, CodesFound, TokensFound, Flushed, DeletionPC
      <4>2. /\ \A a \in Present(tabs) \cap mailed : tabs[a].client \in r.scope => a \in r.handled
            /\ \A a \in Present(tabs) : tabs[a].client \in r.scope => a \in r.gone
            /\ OwnedBy(r) \subseteq r.gone
        BY <2>1, <3>1 DEF AllFound, MessagesFound, TabsFound, SessionsFound, Flushed, DeletionPC
      <4>3. {s \in Present(sessions) \ r.gone : OwnerSeen(w, s) \in r.scope} = {}
        BY <4>2 DEF OwnedBy, NewOwner, OwnerSeen
      <4>4. /\ {g \in Present(grants) \ r.gone : grants[g].client \in r.scope} = {}
            /\ {e \in events \ r.handled : e.client \in r.scope} = {}
        BY <4>1 DEF Doomed
      <4>5. {a \in TabsHit(w) : a \notin r.gone \/ (a \in mailed /\ a \notin r.handled)} = {}
        BY <4>2 DEF TabsHit
      <4>. QED BY <4>3, <4>4, <4>5 DEF ClientChildren
    <3>. QED BY <1>3, <2>2, <3>1
  <2>3. ASSUME NEW pc \in {"realm", "commit"}, Removes(w, r.scope, pc) PROVE Progress'
    <3>1. Finds(r, pc, r.scope, {})
      BY <2>1 DEF Finds
    <3>. QED BY <1>5, <2>3, <3>1 DEF DeletionPC
  <2>. QED BY <1>14, <2>2, <2>3 DEF DeleteClients
<1>15. CASE DeleteRealmRow(w)
  <2>1. r.pc = "realm" /\ Goto(w, "commit")
    BY <1>15 DEF DeleteRealmRow, Runs
  <2>2. PICK x : req' = [req EXCEPT ![w] = x] /\ Step(r, x, "commit", {}, {})
    BY <2>1, StepForms
  <2>3. Finds(r, "commit", {}, {})
    BY <2>1 DEF Finds
  <2>. QED BY <1>4, <2>2, <2>3 DEF DeletionPC
<1>. QED BY <1>8, <1>9, <1>10, <1>11, <1>12, <1>13, <1>14, <1>15

LEMMA NextProgress == IInv /\ Progress /\ [Next]_vars => Progress'
<1>. SUFFICES ASSUME IInv, Progress, [Next]_vars PROVE Progress'
  OBVIOUS
<1>1. ASSUME NEW w \in Web, Arrive(w) PROVE Progress'
  BY <1>1, RequestProgress DEF Worker
<1>2. ASSUME NEW w \in Admin, RealmDelete(w) \/ \E c \in Client : ClientDelete(w, c)
      PROVE  Progress'
  BY <1>2, StartProgress DEF Worker
<1>3. ASSUME NEW w \in Worker, Proceed(w) PROVE Progress'
  <2>1. CASE Answer(w)
    BY <2>1, IdleProgress DEF Answer
  <2>2. CASE (\E s \in Session : Reuse(w, s)) \/ LockSession(w) \/ Claim(w) \/ Revoke(w) \/ Insert(w)
    BY <2>2, RequestProgress
  <2>3. CASE \/ StoreLogin(w) \/ StoreGrant(w) \/ StoreRevocation(w) \/ StoreTab(w)
             \/ DeletionCommit(w)
    <3>1. \E new : Ended(w, new)
      BY <2>3 DEF StoreLogin, StoreGrant, StoreRevocation, StoreTab, DeletionCommit
    <3>. QED BY <3>1, CommitProgress
  <2>4. CASE Look(w) \/ LookForCodes(w) \/ Flush(w)
    BY <2>4, LoopProgress
  <2>5. CASE \/ DeleteMessages(w) \/ UnlinkEvents(w) \/ DeleteCodes(w) \/ DeleteTokens(w)
             \/ DeleteTabs(w) \/ DeleteSessions(w) \/ DeleteClients(w) \/ DeleteRealmRow(w)
    BY <2>5, DeletionProgress
  <2>. QED BY <1>3, <2>1, <2>2, <2>3, <2>4, <2>5 DEF Proceed
<1>4. ASSUME NEW w \in Worker, Fail(w) PROVE Progress'
  BY <1>4, IdleProgress DEF Fail
<1>5. ASSUME NEW g \in Grant, CleanGrant(g) PROVE Progress'
  BY <1>5, CommitProgress DEF CleanGrant
<1>6. ASSUME NEW s \in Session, CleanSession(s) PROVE Progress'
  BY <1>6, CommitProgress DEF CleanSession
<1>7. CASE UNCHANGED vars
  BY <1>7 DEF vars, tables, Progress, UpToDate, AllFound, HeirsFound, MessagesFound, EventsFound,
     CodesFound, TokensFound, TabsFound, SessionsFound, Doomed, OwnedBy, NewOwner, Present
<1>. QED BY <1>1, <1>2, <1>3, <1>4, <1>5, <1>6, <1>7 DEF Next

\* A deletion that nobody overtakes has, at each statement, found every row its clients
\* and their sessions have left by then.
THEOREM ProgressKept == Spec => []Progress
<1>. QED BY Invariance, InitProgress, NextProgress, PTL DEF Spec

\* RefusedOnlyIfOvertaken for every database: the order of the statements of
\* delete_client and delete_realm leaves no reference behind by itself.
THEOREM OnlyTheOvertakenAreRefused == Spec => []RefusedOnlyIfOvertaken
<1>1. Progress => RefusedOnlyIfOvertaken
  BY DEF Progress, UpToDate, RefusedOnlyIfOvertaken
<1>. QED BY <1>1, ProgressKept, PTL

-----------------------------------------------------------------------------
(* Who waits for whom.                                                      *)

\* Of two requests, the first asks for a lock that the second has got: an update of the
\* session comes before those of codes, tokens and tabs, and the INSERT last.
FurtherThan(r, q) ==
    \/ r.pc = "lock" /\ q.pc \in {"claim", "revoke", "insert", "store"}
    \/ r.pc \in {"claim", "revoke"} /\ q.pc \in {"insert", "store"}

\* What a request has locked, and what it waits for.
LEMMA RequestLocks ==
    ASSUME IInv, NEW v \in Worker, req[v].pc \notin DeletionPC
    PROVE  /\ req[v].gone = {} /\ req[v].handled = {} /\ DOMAIN req[v].moves = {}
           /\ \A s : HoldsSession(v, s) => LocksSession(req[v])
           /\ \A k : HoldsKey(v, k) => req[v].pc \in {"insert", "store"}
           /\ \A s : SharesSession(v, s) => req[v].pc = "store"
           /\ \A c : SharesClient(v, c) => req[v].pc = "store" \/ req[v].kind = "sso"
           /\ SharesRealm(v) => req[v].pc \in {"insert", "store"} \/ req[v].kind = "sso"
<1>1. StagesOK(req[v])
  BY DEF IInv, Solo, ShapeOK
<1>2. req[v].gone = {} /\ req[v].handled = {} /\ DOMAIN req[v].moves = {}
  BY <1>1 DEF StagesOK, Flushed
<1>. QED BY <1>2 DEF HoldsSession, HoldsKey, SharesSession, SharesClient, SharesRealm

LEMMA RequestWaits ==
    ASSUME IInv, NEW w \in Worker, NEW v \in Blockers(w), req[w].pc \notin DeletionPC
    PROVE  /\ req[w].pc \in {"lock", "claim", "revoke", "insert"}
           /\ req[v].pc \notin DeletionPC => FurtherThan(req[w], req[v])
           /\ req[w].pc = "lock" => HoldsSession(v, req[w].sess)
           /\ req[w].pc = "insert" => /\ req[v].pc \in {"clients", "realm", "commit"}
                                      /\ req[v].pc = "clients" => req[w].sess \in Session \cap req[v].gone
<1>1. /\ v \in Worker /\ RecordOK(req[v]) /\ StagesOK(req[v])
      /\ RecordOK(req[w]) /\ RequestOK(req[w])
  BY DEF IInv, Solo, ShapeOK, Blockers, Others
<1>2. CASE req[w].pc = "lock"
  <2>1. HoldsSession(v, req[w].sess)
    BY <1>2 DEF Blockers
  <2>2. req[v].pc \notin DeletionPC => req[v].pc \in {"claim", "revoke", "insert", "store"}
    BY <1>1, <2>1, RequestLocks DEF LocksSession
  <2>. QED BY <1>2, <2>1, <2>2 DEF FurtherThan
<1>3. CASE req[w].pc \in {"claim", "revoke"}
  <2>1. \E k : HoldsKey(v, k)
    <3>1. CASE req[w].pc = "claim"
      BY <3>1 DEF Blockers
    <3>2. CASE req[w].pc = "revoke"
      BY <3>2 DEF Blockers
    <3>. QED BY <1>3, <3>1, <3>2
  <2>2. req[v].pc \notin DeletionPC => req[v].pc \in {"insert", "store"}
    BY <1>1, <2>1, RequestLocks
  <2>. QED BY <1>3, <2>2 DEF FurtherThan
<1>4. CASE req[w].pc = "insert"
  <2>1. {req[w].client, req[w].sess} \cap req[v].gone # {}
    BY <1>4 DEF Blockers
  <2>2. req[w].client \in Client /\ req[w].sess \in Session \cup {None}
    BY <1>1, <1>4 DEF RecordOK, RequestOK, RequestPC
  <2>3. None \notin req[v].gone
    BY <1>1, KeysAssumption DEF RecordOK, Grant
  <2>4. req[v].gone \cap Client # {} \/ req[w].sess \in Session \cap req[v].gone
    BY <2>1, <2>2, <2>3
  <2>5. /\ req[v].pc \in {"clients", "realm", "commit"}
        /\ req[v].pc = "clients" => req[w].sess \in Session \cap req[v].gone
    BY <1>1, <2>4 DEF StagesOK
  <2>6. req[v].pc \in DeletionPC
    BY <2>5 DEF DeletionPC
  <2>. QED BY <1>4, <2>5, <2>6
<1>5. CASE req[w].pc \notin {"lock", "claim", "revoke", "insert"}
  <2>1. req[w].pc \in {"store", "idle", "refused"}
    BY <1>1, <1>5 DEF RecordOK, RequestPC
  <2>2. Blockers(w) = {}
    BY <2>1 DEF Blockers
  <2>. QED BY <2>2
<1>. QED BY <1>2, <1>3, <1>4, <1>5

\* What keeps a deletion waiting for a request.
LEMMA DeletionWaits ==
    ASSUME IInv, NEW v \in Worker, NEW w \in Blockers(v), req[v].pc \in DeletionPC,
           req[w].pc \notin DeletionPC
    PROVE  LocksSession(req[w]) \/ req[w].pc \in {"insert", "store"} \/ req[w].kind = "sso"
<1>1. w \in Worker
  BY DEF Blockers, Others
<1>2. /\ req[w].gone = {} /\ req[w].handled = {} /\ DOMAIN req[w].moves = {}
      /\ \A s : HoldsSession(w, s) => LocksSession(req[w])
      /\ \A k : HoldsKey(w, k) => req[w].pc \in {"insert", "store"}
      /\ \A s : SharesSession(w, s) => req[w].pc = "store"
      /\ \A c : SharesClient(w, c) => req[w].pc = "store" \/ req[w].kind = "sso"
      /\ SharesRealm(w) => req[w].pc \in {"insert", "store"} \/ req[w].kind = "sso"
  BY <1>1, RequestLocks
<1>3. CASE req[v].pc = "flush"
  BY <1>2, <1>3 DEF Blockers
<1>4. CASE req[v].pc = "messages"
  BY <1>2, <1>4 DEF Blockers
<1>5. CASE req[v].pc = "events"
  BY <1>2, <1>5 DEF Blockers
<1>6. CASE req[v].pc = "codes"
  BY <1>2, <1>6 DEF Blockers
<1>7. CASE req[v].pc = "tokens"
  BY <1>2, <1>7 DEF Blockers
<1>8. CASE req[v].pc = "tabs"
  BY <1>2, <1>8 DEF Blockers
<1>9. CASE req[v].pc = "sessions"
  BY <1>2, <1>9 DEF Blockers
<1>10. CASE req[v].pc = "clients"
  BY <1>2, <1>10 DEF Blockers
<1>11. CASE req[v].pc = "realm"
  BY <1>2, <1>11 DEF Blockers
<1>12. CASE req[v].pc \in {"look", "heirs", "commit"}
  BY <1>12 DEF Blockers
<1>. QED BY <1>3, <1>4, <1>5, <1>6, <1>7, <1>8, <1>9, <1>10, <1>11, <1>12 DEF DeletionPC

\* Nobody waits with an INSERT for a deletion that is about to remove the clients: the
\* sessions it has removed by then have no rows left that a request could have updated.
LEMMA NoInsertWaits ==
    ASSUME IInv, NEW w \in Worker, NEW v \in Others(w), req[w].pc = "insert",
           req[w].sess \in Session \cap req[v].gone
    PROVE  req[w].kind \in Deletion
<1>. DEFINE r == req[w]
<1>1. /\ RecordOK(r) /\ RequestOK(r) /\ ParentsStored(r) /\ Holding(r)
      /\ Relies(r, req[v].gone) /\ SessionsEmptied(req[v]) /\ TypeOK
  BY OthersKnown DEF IInv, Solo, ShapeOK, Holding, ForeignKeysHold
<1>2. ~LocksSession(r)
  BY <1>1 DEF Relies
<1>3. r.kind \notin {"visit", "login", "mail"}
  BY <1>1, KeysAssumption DEF RequestOK, RequestPC
<1>4. ASSUME r.kind = "redeem" PROVE FALSE
  <2>1. PICK k : k \in r.keys /\ k \in Grant /\ grants[k].sess = r.sess
    BY <1>1, <1>4 DEF RequestOK, RequestPC, ParentsStored
  <2>2. k \in Present(grants)
    <3>1. k \notin Tab
      BY <2>1, KeysAssumption DEF Grant
    <3>. QED BY <1>1, <2>1, <3>1 DEF ParentsStored, Present, TypeOK
  <2>3. k \in req[v].gone
    BY <1>1, <2>1, <2>2 DEF SessionsEmptied
  <2>. QED BY <1>1, <2>1, <2>3 DEF Relies
<1>. QED BY <1>1, <1>2, <1>3, <1>4 DEF RecordOK, Kind, Deletion, LocksSession

\* Transactions that wait for each other cannot all be requests: each waits for one that
\* has got further.
LEMMA DeletionInCircle ==
    ASSUME IInv, NEW S \in SUBSET Worker, S # {}, Stuck(S)
    PROVE  \E w \in S : req[w].pc \in DeletionPC
<1>. SUFFICES ASSUME \A w \in S : req[w].pc \notin DeletionPC PROVE FALSE
  OBVIOUS
<1>1. ASSUME NEW w \in S
      PROVE  \E v \in S : /\ FurtherThan(req[w], req[v])
                          /\ req[w].pc \in {"lock", "claim", "revoke", "insert"}
  <2>1. PICK v \in Blockers(w) \cap S : TRUE
    BY DEF Stuck
  <2>. QED BY <2>1, RequestWaits
<1>2. PICK w \in S : TRUE
  OBVIOUS
<1>3. PICK v \in S : FurtherThan(req[w], req[v])
  BY <1>1
<1>4. PICK u \in S : FurtherThan(req[v], req[u])
  BY <1>1
<1>5. PICK t \in S : FurtherThan(req[u], req[t])
  BY <1>1
<1>. QED BY <1>3, <1>4, <1>5 DEF FurtherThan

\* A request in a circle has locked what another one of it asks for.
LEMMA RequestInCircle ==
    ASSUME IInv, NEW S \in SUBSET Worker, Stuck(S), NEW w \in S, req[w].pc \notin DeletionPC,
           req[w].kind \notin Deletion
    PROVE  \/ req[w].kind = "sso" /\ req[w].pc = "lock"
           \/ req[w].kind = "refresh" /\ req[w].pc = "claim"
           \/ req[w].kind \in {"logout", "detect"} /\ req[w].pc = "revoke"
           \/ req[w].pc = "insert" /\ \E v \in S : req[v].kind = "delete_realm"
<1>1. w \in Worker /\ RequestOK(req[w])
  BY DEF IInv, Solo, ShapeOK
<1>2. PICK b \in Blockers(w) \cap S : TRUE
  BY DEF Stuck
<1>3. PICK v \in S : w \in Blockers(v)
  BY DEF Stuck
<1>4. v \in Worker /\ b \in Worker /\ b \in Others(w)
  BY <1>2 DEF Blockers
<1>5. /\ req[w].pc \in {"lock", "claim", "revoke", "insert"}
      /\ req[w].pc = "insert" => /\ req[b].pc \in {"clients", "realm", "commit"}
                                 /\ req[b].pc = "clients" => req[w].sess \in Session \cap req[b].gone
  BY <1>1, <1>2, RequestWaits
<1>6. LocksSession(req[w]) \/ req[w].pc \in {"insert", "store"} \/ req[w].kind = "sso"
  <2>1. CASE req[v].pc \in DeletionPC
    BY <1>3, <1>4, <2>1, DeletionWaits
  <2>2. CASE req[v].pc \notin DeletionPC
    <3>1. /\ FurtherThan(req[v], req[w])
          /\ req[v].pc = "lock" => HoldsSession(w, req[v].sess)
      BY <1>3, <1>4, <2>2, RequestWaits
    <3>2. req[v].pc = "lock" => LocksSession(req[w])
      BY <1>1, <3>1, RequestLocks
    <3>. QED BY <3>1, <3>2 DEF FurtherThan
  <2>. QED BY <2>1, <2>2
<1>7. CASE req[w].pc = "lock"
  BY <1>6, <1>7 DEF LocksSession
<1>8. CASE req[w].pc \in {"claim", "revoke"}
  BY <1>1, <1>6, <1>8 DEF LocksSession, RequestOK, RequestPC
<1>9. CASE req[w].pc = "insert"
  <2>1. CASE req[b].pc = "commit"
    <3>1. Blockers(b) = {}
      BY <2>1 DEF Blockers
    <3>. QED BY <1>2, <3>1 DEF Stuck
  <2>2. CASE req[b].pc = "clients"
    BY <1>1, <1>4, <1>5, <1>9, <2>2, NoInsertWaits
  <2>3. CASE req[b].pc = "realm"
    <3>1. StagesOK(req[b])
      BY <1>4 DEF IInv, Solo, ShapeOK
    <3>. QED BY <1>2, <1>9, <2>3, <3>1 DEF StagesOK
  <2>. QED BY <1>5, <1>9, <2>1, <2>2, <2>3
<1>. QED BY <1>5, <1>7, <1>8, <1>9

\* DeadlockShape for any number of workers, and circles of any length: without a deletion
\* there is none, and who is in it has locked a session, or a client by the tab of an SSO,
\* and waits for the deletion with the next statement.
THEOREM DeadlocksNeedDeletion == Spec => []DeadlockShape
<1>1. IInv => DeadlockShape
  <2>1. SUFFICES ASSUME IInv, NEW S \in SUBSET Worker, S # {}, Stuck(S)
                 PROVE  /\ \E w \in S : req[w].kind \in Deletion
                        /\ \A w \in S :
                             \/ req[w].kind \in Deletion
                             \/ req[w].kind = "sso" /\ req[w].pc = "lock"
                             \/ req[w].kind = "refresh" /\ req[w].pc = "claim"
                             \/ req[w].kind \in {"logout", "detect"} /\ req[w].pc = "revoke"
                             \/ req[w].pc = "insert" /\ \E v \in S : req[v].kind = "delete_realm"
    BY DEF DeadlockShape
  <2>2. \A w \in S : req[w].pc \in DeletionPC => req[w].kind \in Deletion
    BY <2>1 DEF IInv, Solo, ShapeOK, StagesOK
  <2>3. \E w \in S : req[w].kind \in Deletion
    BY <2>1, <2>2, DeletionInCircle
  <2>. QED BY <2>1, <2>2, <2>3, RequestInCircle
<1>. QED BY <1>1, Invariance, PTL

\* Requests wait only for requests that have got further: the share of the client that an
\* SSO has from its tab, before it asks for the session, keeps no other request waiting.
RequestsInLine ==
    \A w \in Worker : \A v \in Blockers(w) :
        req[v].pc \in DeletionPC \/ req[w].pc \in DeletionPC \/ FurtherThan(req[w], req[v])

\* Requests alone never wait for each other in a circle.  All of them update the session
\* before codes, tokens and tabs, a logout and a revocation after reuse too, and insert
\* then; only SSO has inserted before (browser.py, services/tokens.py, oidc/logout.py).
THEOREM RequestsKeepInLine == Spec => []RequestsInLine
<1>1. IInv => RequestsInLine
  BY RequestWaits DEF RequestsInLine
<1>. QED BY <1>1, Invariance, PTL
=============================================================================
