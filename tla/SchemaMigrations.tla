---------------------------- MODULE SchemaMigrations ----------------------------
(***************************************************************************)
(* The revisions of the database schema that rewrite rows, run by          *)
(* `flask db upgrade` and `flask db downgrade`: 0005 gives realms and      *)
(* clients normalized names, 0007 and 0008 turn the positions of pending   *)
(* resets into executions of a stored flow.                                *)
(*                                                                         *)
(* A run is one transaction over all its revisions (PostgreSQL).  The      *)
(* runbook stops the web servers for it; jobs that write realms or clients *)
(* may still be about, and the run may be killed at any step.  What the    *)
(* new release does with an upgraded tab is taken from BrowserFlow.        *)
(***************************************************************************)
EXTENDS Naturals, FiniteSets, Sequences

CONSTANTS
    Key,         \* primary keys of realms and clients
    Scope,       \* where a name is unique: among realms, or among the clients of one
    Name,        \* names and client ids as they were given
    Normal(_),   \* strip().casefold() of a name
    Job,         \* command-line jobs and administrators that write realms and clients
    User,        \* users of the realm of the tab
    None,        \* SQL NULL, or an absent column
    MaxFlows,    \* bound: flows created by upgrades
    MaxMessages  \* bound: reset messages of the tab

VARIABLES
    revision,  \* alembic_version, as committed
    rows,      \* tables realms and clients
    tab,       \* a row of authentication_sessions
    messages,  \* its rows of reset_emails
    flow,      \* the reset flow of its realm; 0: the tables do not exist
    made,      \* number of flows created so far: ids are never used again
    job,       \* the row each job has written and not committed
    run        \* the transaction of the migration

vars == <<revision, rows, tab, messages, flow, made, job, run>>

Flow == INSTANCE BrowserFlow
            WITH Worker <- {}, MaxCommits <- 0, life <- "live", req <- <<>>, issued <- 0,
                 uses <- <<>>, logins <- 0, changes <- 0, tab <- tab.row

-----------------------------------------------------------------------------
\* 6 stands for 0005 and 0006, 8 for 0007 to 0009.
Revision == {4, 6, 8}

Absent == [st |-> "absent", scope |-> None, name |-> None, norm |-> None]
Row(s, n, norm) == [st |-> "present", scope |-> s, name |-> n, norm |-> norm]
StoredRow == [st : {"present"}, scope : Scope, name : Name,
              norm : {None} \cup {Normal(n) : n \in Name}]
JobWrite == [key : Key, row : StoredRow]

Present == {k \in Key : rows[k].st = "present"}

ASSUME NoneAssumption == None \notin User /\ None \notin JobWrite
ASSUME MaxFlowsAssumption == MaxFlows \in Nat

\* `row`: the columns and notes of the tab; its positions are ids of executions of
\* the flow `ids`, or the names an older release uses (0: choose-user, email-gate
\* and update-password).  `noted`: the flow in the note reset.email.delivery.
StoredTab == [row : Flow!Tab, ids : 0 .. MaxFlows, noted : 0 .. MaxFlows]

\* `locked`: it holds realms and clients; `seen`: normalized names it has computed.
NoRun == [pc |-> "idle", target |-> 4, locked |-> FALSE, seen |-> <<>>]
RunPC == {"idle", "lock", "read", "fill", "convert", "restore", "drop", "commit", "failed"}

Writing == {j \in Job : job[j] # None}

-----------------------------------------------------------------------------
Init ==
    /\ revision = 4
    /\ rows = [k \in Key |-> Absent]
    /\ tab = [row |-> Flow!NewTab, ids |-> 0, noted |-> 0]
    /\ messages = <<>> /\ flow = 0 /\ made = 0
    /\ job = [j \in Job |-> None]
    /\ run = NoRun

-----------------------------------------------------------------------------
(* Jobs of either release.                                                  *)

\* Mutant: the column stays nullable, so that the old release may go on.
Accepts_Nullable(norm) == norm = None \/ revision >= 6

\* name_normalized is NOT NULL where it exists, and unknown where it does not.
Accepts(norm) == (norm = None) = (revision < 6)

\* The names in use, committed or not: raw ones are unique, normalized ones where
\* the column exists.
Clash(k, r, others) ==
    \E o \in others : o.scope = r.scope /\ (o.name = r.name \/ (r.norm # None /\ o.norm = r.norm))

\* INSERT, or UPDATE of the name, by the release that writes `norm` or does not.
Write(j, k, s, n, norm) ==
    /\ job[j] = None /\ ~run.locked
    /\ \A i \in Writing : job[i].key # k
    /\ k \in Present => rows[k].scope = s
    /\ Accepts(norm)
    /\ ~Clash(k, Row(s, n, norm), {rows[o] : o \in Present \ {k}}
                                  \cup {job[i].row : i \in Writing})
    /\ job' = [job EXCEPT ![j] = [key |-> k, row |-> Row(s, n, norm)]]
    /\ UNCHANGED <<revision, rows, tab, messages, flow, made, run>>

WriteCommit(j) ==
    /\ job[j] # None
    /\ rows' = [rows EXCEPT ![job[j].key] = job[j].row]
    /\ job' = [job EXCEPT ![j] = None]
    /\ UNCHANGED <<revision, tab, messages, flow, made, run>>

WriteRollback(j) ==
    /\ job[j] # None
    /\ job' = [job EXCEPT ![j] = None]
    /\ UNCHANGED <<revision, rows, tab, messages, flow, made, run>>

-----------------------------------------------------------------------------
(* The web servers, of the release that fits the committed revision.        *)

\* What the migrations and their tests say of the tabs of the release before 0007.
OldRelease ==
    /\ revision < 8 /\ run.pc = "idle" /\ tab.row.execution # "authenticated"
    /\ \E e \in Flow!Execution \cup {"authenticated"}, u \in User \cup {None}, s \in BOOLEAN :
         /\ e = "choose" => u = None
         /\ e \in {"password", "authenticated"} => u # None /\ ~s
         /\ tab' = [tab EXCEPT !.row.execution = e, !.row.user = u, !.row.selector = s,
                               !.row.scheduled = (e = "password")]
    /\ UNCHANGED <<revision, rows, messages, flow, made, job, run>>

\* Mutant: the note names the user only.
Seen_ByUser(t) == t.row

\* The note of a delivery names the execution: it counts for this flow only.
Seen(t) == IF t.noted = flow THEN t.row ELSE [t.row EXCEPT !.delivery = None]

\* Session codes, versions and bindings are BrowserFlow's subject.
Kept(row) == [row EXCEPT !.generation = 0]
Writes(t, row) ==
    [t EXCEPT !.row = Kept(row), !.noted = IF row.delivery = None THEN @ ELSE flow]

\* GET of the reset page, and every other request BrowserFlow has.
Visit(t, ms) == Flow!ProcessFlow(Seen(t), Flow!ConsumedUsers(ms))

Request(t, ms) ==
    LET r == Seen(t) IN
    Visit(t, ms)
    \cup (UNION {Flow!ProcessAction(r, u, Flow!ConsumedUsers(ms)) : u \in User \cup {None}})
    \cup (IF r.action /\ r.required /\ Flow!Eligible(r)
          THEN Flow!Complete(Flow!PasswordReplaced(r), r.user, TRUE) ELSE {})
    \cup (IF Flow!Succeeded(r) = {}
          THEN UNION {Flow!Complete([r EXCEPT !.completed = TRUE], u, FALSE) : u \in User} ELSE {})

Sent(o) == IF o.send THEN <<[user |-> o.row.user, consumed |-> FALSE, linked |-> TRUE]>> ELSE <<>>

NewRelease ==
    /\ revision = 8 /\ run.pc = "idle" /\ tab.row.execution # "authenticated"
    /\ \E o \in Request(tab, messages) :
         /\ Len(messages \o Sent(o)) <= MaxMessages
         /\ tab' = Writes(tab, o.row)
         /\ messages' = messages \o Sent(o)
    /\ UNCHANGED <<revision, rows, flow, made, job, run>>

\* The link of a message; an older release's, or one from before a downgrade, names
\* no row.
Link(m) ==
    LET opened == [messages EXCEPT ![m].consumed = TRUE] IN
    /\ revision = 8 /\ run.pc = "idle" /\ tab.row.execution # "authenticated"
    /\ ~messages[m].consumed /\ messages[m].linked /\ tab.row.user = messages[m].user
    /\ \E o \in Visit([tab EXCEPT !.row = Flow!Resumed(@)], opened) :
         /\ Len(messages \o Sent(o)) <= MaxMessages
         /\ tab' = Writes(tab, o.row)
         /\ messages' = opened \o Sent(o)
    /\ UNCHANGED <<revision, rows, flow, made, job, run>>

-----------------------------------------------------------------------------
(* What the revisions make of a tab.                                        *)

Before(e) == CASE e = "choose" -> {} [] e = "email" -> {"choose"} [] e = "password" -> {"choose", "email"}

\* The tab at execution `e` of the new flow.
Placed(t, e, f) ==
    [t EXCEPT !.ids = f,
              !.row = [@ EXCEPT !.execution = e, !.current = e,
                                !.status = [x \in Flow!Execution |->
                                              IF x \in Before(e) THEN "SUCCESS"
                                              ELSE IF x = e THEN "CHALLENGE" ELSE "none"]]]

\* 0007: a position that is a known name is mapped; a pending password update goes
\* back to the message, or to the account if there is none.
UpgradedTab(t, f) ==
    IF t.ids # 0 \/ t.row.execution = "authenticated" THEN t
    ELSE IF t.row.execution = "password"
    THEN [Placed(t, IF t.row.user = None THEN "choose" ELSE "email", f)
            EXCEPT !.row.selector = FALSE, !.row.scheduled = FALSE]
    ELSE Placed(t, t.row.execution, f)

\* Mutant: only the note is asked for the current execution.
DowngradedTab_NoteOnly(t) ==
    LET row == [t.row EXCEPT !.status = [e \in Flow!Execution |-> "none"],
                             !.current = None, !.required = FALSE, !.action = FALSE]
    IN  IF t.ids # flow \/ t.row.execution = "authenticated" \/ t.row.current = None
        THEN [t EXCEPT !.row = row]
        ELSE [t EXCEPT !.ids = 0, !.row = [row EXCEPT !.execution = t.row.current]]

\* The way back: 0008 drops required actions, 0007 names the execution of the note,
\* else of the column, if it is known and the tab has not been authenticated.
DowngradedTab(t) ==
    LET row == [t.row EXCEPT !.status = [e \in Flow!Execution |-> "none"],
                             !.current = None, !.required = FALSE, !.action = FALSE]
    IN  IF t.ids # flow \/ t.row.execution = "authenticated" THEN [t EXCEPT !.row = row]
        ELSE [t EXCEPT !.ids = 0,
                       !.row = [row EXCEPT !.execution = IF t.row.current = None THEN @
                                                         ELSE t.row.current]]

-----------------------------------------------------------------------------
(* The migration.                                                           *)

Goto(pc) == run' = [run EXCEPT !.pc = pc]
Held(pc) == run' = [run EXCEPT !.pc = pc, !.locked = TRUE]
Nothing == UNCHANGED <<revision, rows, tab, messages, flow, made, job>>

Start(target) ==
    /\ run.pc = "idle" /\ target # revision
    /\ target = 8 => made < MaxFlows
    /\ run' = [NoRun EXCEPT !.target = target,
                            !.pc = IF revision = 8 THEN "restore"
                                   ELSE IF revision = 6 /\ target = 8 THEN "convert" ELSE "lock"]
    /\ Nothing

\* Mutant: the tables are not locked.
Lock_Nothing ==
    /\ run.pc = "lock"
    /\ Goto(IF run.target > 4 THEN "read" ELSE "drop")
    /\ Nothing

\* LOCK TABLE realms, clients IN ACCESS EXCLUSIVE MODE waits for every job that has
\* written, and keeps the others from writing until the end.
Lock ==
    /\ run.pc = "lock" /\ Writing = {}
    /\ Held(IF run.target > 4 THEN "read" ELSE "drop")
    /\ Nothing

\* Collision detection, on the committed rows, before anything is changed.
Read ==
    /\ run.pc = "read"
    /\ IF \E j, k \in Present : j # k /\ rows[j].scope = rows[k].scope
                                     /\ Normal(rows[j].name) = Normal(rows[k].name)
       THEN Goto("failed")
       ELSE run' = [run EXCEPT !.pc = "fill", !.seen = [k \in Present |-> Normal(rows[k].name)]]
    /\ Nothing

\* ADD COLUMN and UPDATE by primary key; a row without the value is refused by NOT
\* NULL.  ALTER TABLE takes the lock of its own.
Fill ==
    /\ run.pc = "fill" /\ Writing = {}
    /\ Held(IF Present # DOMAIN run.seen THEN "failed"
            ELSE IF run.target = 8 THEN "convert" ELSE "commit")
    /\ Nothing

\* 0007 and 0008 on the way up, or down, and 0005 on the way down.
Convert == run.pc = "convert" /\ Goto("commit") /\ Nothing
Restore == run.pc = "restore" /\ Goto(IF run.target = 4 THEN "lock" ELSE "commit") /\ Nothing
Drop    == run.pc = "drop" /\ Goto("commit") /\ Nothing

\* Schema, rows and alembic_version are committed together.
Commit ==
    LET up == run.target = 8  down == revision = 8 IN
    /\ run.pc = "commit"
    /\ revision' = run.target
    /\ rows' = [k \in Key |->
                  [rows[k] EXCEPT !.norm = IF run.target = 4 THEN None
                                           ELSE IF k \in DOMAIN run.seen THEN run.seen[k] ELSE @]]
    /\ made' = made + IF up THEN 1 ELSE 0
    /\ flow' = IF up THEN made + 1 ELSE IF down THEN 0 ELSE flow
    /\ tab' = IF up THEN UpgradedTab(tab, made + 1) ELSE IF down THEN DowngradedTab(tab) ELSE tab
    /\ messages' = [m \in DOMAIN messages |-> [messages[m] EXCEPT !.linked = @ /\ ~down]]
    /\ run' = NoRun
    /\ UNCHANGED job

\* The error that ends the run is raised, or the process is killed: all is rolled
\* back, and the operator may try again.
Rollback == run.pc # "idle" /\ run' = NoRun /\ Nothing

-----------------------------------------------------------------------------
Next ==
    \/ \E j \in Job : \/ \E k \in Key, s \in Scope, n \in Name :
                           Write(j, k, s, n, None) \/ Write(j, k, s, n, Normal(n))
                      \/ WriteCommit(j) \/ WriteRollback(j)
    \/ OldRelease \/ NewRelease \/ \E m \in DOMAIN messages : Link(m)
    \/ \E target \in Revision : Start(target)
    \/ Lock \/ Read \/ Fill \/ Convert \/ Restore \/ Drop \/ Commit \/ Rollback

Spec == Init /\ [][Next]_vars

-----------------------------------------------------------------------------
(* Properties.                                                              *)

\* Rows and positions are well formed.
TypeOK ==
    /\ revision \in Revision
    /\ rows \in [Key -> {Absent} \cup StoredRow]
    /\ tab \in StoredTab
    /\ messages \in Seq(Flow!Message)
    /\ flow \in 0 .. MaxFlows /\ made \in 0 .. MaxFlows
    /\ job \in [Job -> {None} \cup JobWrite]
    /\ run.pc \in RunPC /\ run.target \in Revision

\* 0005 is given up only for names that collide among the committed rows, as its
\* docstring says: no row written beside it makes a constraint fail halfway.
RefusedOnlyForCollision ==
    run.pc = "failed" =>
        \E j, k \in Present : j # k /\ rows[j].scope = rows[k].scope
                              /\ Normal(rows[j].name) = Normal(rows[k].name)

\* From 0005 on every realm and client has its normalized name, and no two in one
\* scope share it, whichever release wrote it and whatever runs were rolled back;
\* before 0005 there is none.
IdentitiesNormalized ==
    /\ \A k \in Present : rows[k].norm = IF revision < 6 THEN None ELSE Normal(rows[k].name)
    /\ revision >= 6 =>
          \A j, k \in Present : rows[j].scope = rows[k].scope /\ rows[j].norm = rows[k].norm => j = k

\* The position of a pending tab is one that the release of the committed revision
\* knows: an execution of the stored flow, or one of the three old names; never the
\* id of an execution that a downgrade has dropped.
PositionsKnown ==
    /\ TypeOK
    /\ tab.row.execution # "authenticated" =>
          IF revision = 8 THEN flow # 0 /\ tab.ids = flow ELSE tab.ids = 0

\* An upgrade leaves every pending tab where its next visit shows a page, and none
\* where that visit reaches the password form or a login: a pending password update
\* starts over with a message of its own, messages and proofs of before included.
UpgradeStep ==
    revision' = 8 /\ revision # 8 /\ tab.row.execution # "authenticated" =>
        LET visit == Visit(tab, messages)' IN
        /\ visit # {}
        /\ \A o \in visit : ~o.row.action /\ ~o.login
        /\ tab'.row.user # None /\ tab'.row.execution = "email" /\ ~tab'.row.selector
              => \E o \in visit : o.send
UpgradeAsksAgain == [][UpgradeStep]_vars
=============================================================================
