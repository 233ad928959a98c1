------------------------ MODULE SchemaMigrations_proofs ------------------------
(***************************************************************************)
(* Proofs about SchemaMigrations, for any number of rows, jobs, names,     *)
(* users, flows and messages, and for any way to normalize a name.         *)
(***************************************************************************)
EXTENDS SchemaMigrations, TLAPS

-----------------------------------------------------------------------------
(* What the release after 0007 makes of a tab, whatever its notes say.      *)

\* A row of the table, and a message for somebody if one is sent.
OutcomeOK(o) == o.row \in Flow!Tab /\ (o.send => o.row.user \in User)

LEMMA PlainOK ==
    ASSUME NEW t \in Flow!Tab, NEW o \in Flow!Plain(t)
    PROVE  OutcomeOK(o)
BY DEF Flow!Plain, Flow!Outcome, OutcomeOK

LEMMA ResultOK ==
    ASSUME NEW t \in Flow!Tab, NEW e \in Flow!Execution, NEW s \in Flow!FlowStatus
    PROVE  Flow!ProcessResult(t, e, s) \in Flow!Tab
BY DEF Flow!ProcessResult, Flow!Tab

LEMMA CompleteOK ==
    ASSUME NEW t \in Flow!Tab, NEW u \in User, NEW c, NEW o \in Flow!Complete(t, u, c)
    PROVE  OutcomeOK(o)
<1>. DEFINE r == [t EXCEPT !.user = u, !.execution = "authenticated",
                           !.completed = FALSE, !.current = None, !.selector = FALSE]
<1>1. o = Flow!Outcome(r, FALSE, TRUE, c)
  BY DEF Flow!Complete, Flow!Refused
<1>2. r \in Flow!Tab
  BY DEF Flow!Tab
<1>. QED BY <1>1, <1>2 DEF Flow!Outcome, OutcomeOK

LEMMA FlowSuccessfulOK ==
    ASSUME NEW t \in Flow!Tab, NEW o \in Flow!FlowSuccessful(t)
    PROVE  OutcomeOK(o)
<1>. DEFINE c == [t EXCEPT !.completed = TRUE, !.current = None, !.selector = FALSE]
            r == [c EXCEPT !.action = TRUE]
<1>1. c \in Flow!Tab /\ r \in Flow!Tab
  BY DEF Flow!Tab
<1>2. CASE o \in Flow!Plain(r)
  BY <1>1, <1>2, PlainOK
<1>3. CASE c.user # None /\ o \in Flow!Complete(c, c.user, FALSE)
  <2>1. c.user \in User
    BY <1>1, <1>3 DEF Flow!Tab
  <2>. QED BY <1>1, <1>3, <2>1, CompleteOK
<1>. QED BY <1>2, <1>3 DEF Flow!FlowSuccessful, Flow!FlowResponse, Flow!Refused

LEMMA ResetPasswordOK ==
    ASSUME NEW t \in Flow!Tab, NEW r \in Flow!ResetPassword(t)
    PROVE  r \in Flow!Tab
<1>. DEFINE s == [t EXCEPT !.required = TRUE, !.scheduled = TRUE]
<1>1. s \in Flow!Tab /\ r = Flow!ProcessResult(s, "password", "SUCCESS")
  BY DEF Flow!ResetPassword, Flow!Tab
<1>2. "password" \in Flow!Execution /\ "SUCCESS" \in Flow!FlowStatus
  BY DEF Flow!Execution, Flow!FlowStatus
<1>. QED BY <1>1, <1>2, ResultOK

LEMMA EmailForkOK ==
    ASSUME NEW t \in Flow!Tab, NEW o \in Flow!EmailFork(t)
    PROVE  OutcomeOK(o)
<1>. DEFINE s == [t EXCEPT !.delivery = t.user]
<1>1. s \in Flow!Tab /\ "email" \in Flow!Execution /\ "FORK" \in Flow!FlowStatus
      /\ s.user = t.user
  BY DEF Flow!Tab, Flow!Execution, Flow!FlowStatus
<1>2. /\ Flow!ProcessResult(t, "email", "FORK") \in Flow!Tab
      /\ Flow!ProcessResult(s, "email", "FORK") \in Flow!Tab
  BY <1>1, ResultOK
<1>3. CASE o = Flow!Outcome(Flow!ProcessResult(t, "email", "FORK"), FALSE, FALSE, FALSE)
  BY <1>2, <1>3 DEF Flow!Outcome, OutcomeOK
<1>4. CASE /\ t.user # None
           /\ o = Flow!Outcome(Flow!ProcessResult(s, "email", "FORK"), TRUE, FALSE, FALSE)
  <2>1. Flow!ProcessResult(s, "email", "FORK").user = t.user
    BY <1>1 DEF Flow!ProcessResult, Flow!Tab
  <2>2. t.user \in User
    BY <1>4 DEF Flow!Tab
  <2>. QED BY <1>2, <1>4, <2>1, <2>2 DEF Flow!Outcome, OutcomeOK
<1>. QED BY <1>3, <1>4 DEF Flow!EmailFork

LEMMA TraverseOK ==
    ASSUME NEW t \in Flow!Tab, NEW consumed, NEW o \in Flow!Traverse(t, consumed)
    PROVE  OutcomeOK(o)
<1>. "choose" \in Flow!Execution /\ "email" \in Flow!Execution
     /\ "SUCCESS" \in Flow!FlowStatus /\ "CHALLENGE" \in Flow!FlowStatus
  BY DEF Flow!Execution, Flow!FlowStatus
<1>1. ASSUME NEW r \in Flow!Tab, o \in Flow!TraversePassword(r)
      PROVE  OutcomeOK(o)
  BY <1>1, FlowSuccessfulOK, ResetPasswordOK DEF Flow!TraversePassword
<1>2. ASSUME o \in Flow!TraverseEmail(t, consumed)
      PROVE  OutcomeOK(o)
  <2>1. Flow!ProcessResult(t, "email", "SUCCESS") \in Flow!Tab
    BY ResultOK
  <2>. QED BY <1>1, <1>2, <2>1, EmailForkOK DEF Flow!TraverseEmail
<1>3. Flow!ProcessResult(t, "choose", "CHALLENGE") \in Flow!Tab
  BY ResultOK
<1>. QED BY <1>2, <1>3, PlainOK DEF Flow!Traverse

\* The page of a tab, as every GET shows it.
LEMMA VisitOK ==
    ASSUME NEW t \in Flow!Tab, NEW consumed, NEW o \in Flow!ProcessFlow(t, consumed)
    PROVE  OutcomeOK(o)
BY PlainOK, TraverseOK DEF Flow!ProcessFlow

LEMMA AuthenticateOK ==
    ASSUME NEW t \in Flow!Tab, NEW e \in Flow!Execution, NEW consumed,
           NEW o \in Flow!Authenticate(t, e, consumed)
    PROVE  OutcomeOK(o)
<1>1. /\ Flow!ProcessResult(t, e, "SUCCESS") \in Flow!Tab
      /\ Flow!ProcessResult(t, e, "CHALLENGE") \in Flow!Tab
  BY ResultOK DEF Flow!FlowStatus
<1>2. CASE e \in Flow!Succeeded(t)
  BY <1>2, TraverseOK DEF Flow!Authenticate
<1>3. CASE e \notin Flow!Succeeded(t) /\ e = "choose"
  BY <1>1, <1>3, PlainOK DEF Flow!Authenticate
<1>4. CASE e \notin Flow!Succeeded(t) /\ e = "email"
  BY <1>1, <1>4, TraverseOK, EmailForkOK DEF Flow!Authenticate
<1>5. CASE e \notin Flow!Succeeded(t) /\ e = "password"
  BY <1>5, TraverseOK, ResetPasswordOK DEF Flow!Authenticate
<1>. QED BY <1>2, <1>3, <1>4, <1>5 DEF Flow!Execution

LEMMA ActionOK ==
    ASSUME NEW t \in Flow!Tab, NEW e \in Flow!Execution, NEW u \in User \cup {None},
           NEW consumed, NEW o \in Flow!Action(t, e, u, consumed)
    PROVE  OutcomeOK(o)
<1>. DEFINE s == [t EXCEPT !.user = u, !.scheduled = FALSE, !.proof = None, !.delivery = None]
<1>1. e \notin Flow!Succeeded(t)
  BY DEF Flow!Action, Flow!Refused
<1>2. s \in Flow!Tab
  BY DEF Flow!Tab
<1>3. /\ Flow!ProcessResult(t, e, "SUCCESS") \in Flow!Tab
      /\ Flow!ProcessResult(s, e, "SUCCESS") \in Flow!Tab
  BY <1>2, ResultOK DEF Flow!FlowStatus
<1>4. CASE e = "choose"
  BY <1>1, <1>3, <1>4, TraverseOK DEF Flow!Action
<1>5. CASE e = "email"
  BY <1>1, <1>3, <1>5, TraverseOK DEF Flow!Action, Flow!Refused
<1>6. CASE e = "password"
  BY <1>1, <1>6, TraverseOK, ResetPasswordOK DEF Flow!Action
<1>. QED BY <1>4, <1>5, <1>6 DEF Flow!Execution

LEMMA ProcessActionOK ==
    ASSUME NEW t \in Flow!Tab, NEW u \in User \cup {None}, NEW consumed,
           NEW o \in Flow!ProcessAction(t, u, consumed)
    PROVE  OutcomeOK(o)
<1>. DEFINE a == [t EXCEPT !.execution = t.current, !.selector = TRUE]
            b == [t EXCEPT !.selector = FALSE]
<1>1. t.current \in Flow!Execution
  BY DEF Flow!ProcessAction, Flow!Refused, Flow!Tab
<1>2. a \in Flow!Tab /\ b \in Flow!Tab
  BY <1>1 DEF Flow!Tab
<1>3. \/ o \in Flow!Plain(a) \/ o \in Flow!Action(t, t.current, u, consumed)
      \/ \E e \in Flow!Execution : o \in Flow!Authenticate(b, e, consumed)
  BY <1>1 DEF Flow!ProcessAction, Flow!Refused
<1>. HIDE DEF a, b
<1>. QED BY <1>1, <1>2, <1>3, PlainOK, ActionOK, AuthenticateOK

-----------------------------------------------------------------------------
(* The inductive invariant.                                                 *)

\* Two committed names of one scope that differ in spelling only.
Collision ==
    \E j, k \in Present : j # k /\ rows[j].scope = rows[k].scope
                          /\ Normal(rows[j].name) = Normal(rows[k].name)

\* What a run has computed is still what is stored.
SeenOK ==
    /\ ~Collision
    /\ DOMAIN run.seen = Present
    /\ \A k \in Present : run.seen[k] = Normal(rows[k].name)

\* A run that touches revision 0005 has the tables to itself from its LOCK TABLE on;
\* the others leave names alone.
RunOK ==
    /\ run = [pc |-> run.pc, target |-> run.target, locked |-> run.locked, seen |-> run.seen]
    /\ IF run.pc = "idle" THEN run = NoRun ELSE run.target # revision
    /\ run.locked => Writing = {}
    /\ run.pc \in {"read", "fill", "drop", "failed"} => run.locked
    /\ run.pc \in {"convert", "commit"} /\ 4 \in {revision, run.target} => run.locked
    /\ run.pc \in {"read", "fill"} => revision = 4
    /\ run.pc = "lock" => 4 \in {revision, run.target}
    /\ run.pc = "convert" => run.target = 8
    /\ run.pc = "restore" => revision = 8
    /\ run.pc = "drop" => run.target = 4
    /\ IF revision = 4 /\ run.pc \in {"fill", "convert", "commit"} THEN SeenOK
                                                                ELSE run.seen = <<>>
    /\ run.pc = "failed" => Collision
    /\ run.pc # "idle" /\ run.target = 8 => made < MaxFlows

\* The normalized name a release of the committed revision writes.
Norm(n) == IF revision < 6 THEN None ELSE Normal(n)
SameName(r, o) == r.scope = o.scope /\ r.norm = o.norm

\* Rows, committed or not, have it; where the column exists it is taken once, the
\* version that a job is about to replace aside.
NamesOK ==
    /\ \A k \in Present : rows[k].norm = Norm(rows[k].name)
    /\ \A j \in Writing : job[j].row.norm = Norm(job[j].row.name)
    /\ \A i, j \in Writing : job[i].key = job[j].key => i = j
    /\ revision >= 6 =>
          /\ \A j, k \in Present : SameName(rows[j], rows[k]) => j = k
          /\ \A j \in Writing, k \in Present :
                SameName(job[j].row, rows[k]) => k = job[j].key
          /\ \A i, j \in Writing : SameName(job[i].row, job[j].row) => i = j

\* Flows are numbered in the order of their creation; while no release knows them,
\* no required action is under way and no message can be used.
TabOK ==
    /\ PositionsKnown
    /\ flow <= made /\ tab.noted <= made
    /\ revision # 8 => ~tab.row.action /\ \A m \in DOMAIN messages : ~messages[m].linked

IInv == TabOK /\ NamesOK /\ RunOK

LEMMA InitOK == Init => IInv
<1>. SUFFICES ASSUME Init PROVE IInv
  OBVIOUS
<1>. USE DEF Init
<1>1. Present = {} /\ Writing = {}
  BY DEF Present, Absent, Writing
<1>2. Flow!NewTab \in Flow!Tab
  BY DEF Flow!NewTab, Flow!Tab, Flow!Execution, Flow!FlowStatus
<1>3. TypeOK
  BY <1>2, MaxFlowsAssumption DEF TypeOK, Revision, StoredTab, NoRun, RunPC
<1>4. TabOK
  BY <1>3, <1>2 DEF TabOK, PositionsKnown, Flow!NewTab
<1>5. NamesOK
  BY <1>1 DEF NamesOK
<1>6. RunOK
  BY <1>1 DEF RunOK, NoRun
<1>. QED BY <1>4, <1>5, <1>6 DEF IInv

\* What an action leaves alone.
LEMMA TabFrame ==
    ASSUME TabOK, TypeOK', UNCHANGED <<revision, tab, messages, flow, made>>
    PROVE  TabOK'
BY DEF TabOK, PositionsKnown

LEMMA NamesFrame ==
    ASSUME NamesOK, UNCHANGED <<revision, rows, job>>
    PROVE  NamesOK'
BY DEF NamesOK, Norm, Present, Writing, SameName

LEMMA RunFrame ==
    ASSUME RunOK, UNCHANGED <<revision, rows, job, made, run>>
    PROVE  RunOK'
BY DEF RunOK, SeenOK, Collision, Present, Writing

-----------------------------------------------------------------------------
(* Jobs.                                                                    *)

\* The rows and the writers after a job has written.
LEMMA WriteEffect ==
    ASSUME IInv, NEW j \in Job, NEW k \in Key, NEW s \in Scope, NEW n \in Name,
           NEW norm, norm = None \/ norm = Normal(n), Write(j, k, s, n, norm)
    PROVE  /\ TypeOK' /\ norm = Norm(n) /\ j \notin Writing
           /\ Present' = Present /\ Writing' = Writing \cup {j}
           /\ job'[j] = [key |-> k, row |-> Row(s, n, norm)]
           /\ \A i \in Job \ {j} : job'[i] = job[i]
           /\ \A i \in Writing : job[i].key # k
<1>. DEFINE r == [key |-> k, row |-> Row(s, n, norm)]
<1>. USE DEF Write
<1>1. TypeOK
  BY DEF IInv, TabOK, PositionsKnown
<1>2. r \in JobWrite
  BY DEF JobWrite, StoredRow, Row
<1>3. job' = [job EXCEPT ![j] = r] /\ job \in [Job -> {None} \cup JobWrite]
  BY <1>1 DEF TypeOK
<1>. HIDE DEF r
<1>4. job'[j] = r /\ \A i \in Job \ {j} : job'[i] = job[i]
  BY <1>3
<1>5. Writing' = Writing \cup {j} /\ j \notin Writing
  BY <1>2, <1>4, NoneAssumption DEF Writing
<1>6. TypeOK'
  BY <1>1, <1>2, <1>3 DEF TypeOK
<1>7. norm = Norm(n)
  BY <1>1 DEF Accepts, Norm, TypeOK, Revision
<1>. QED BY <1>4, <1>5, <1>6, <1>7 DEF r, Present

LEMMA WriteStep ==
    ASSUME IInv, NEW j \in Job, NEW k \in Key, NEW s \in Scope, NEW n \in Name,
           NEW norm, norm = None \/ norm = Normal(n), Write(j, k, s, n, norm)
    PROVE  IInv'
<1>. DEFINE r == Row(s, n, norm)
<1>1. /\ TypeOK' /\ norm = Norm(n) /\ j \notin Writing
      /\ Present' = Present /\ Writing' = Writing \cup {j}
      /\ job'[j] = [key |-> k, row |-> r]
      /\ \A i \in Job \ {j} : job'[i] = job[i]
      /\ \A i \in Writing : job[i].key # k
  BY WriteEffect
<1>2. UNCHANGED <<revision, rows, tab, messages, flow, made, run>> /\ ~run.locked
  BY DEF Write
<1>3. r.norm = norm /\ r.name = n /\ r.scope = s /\ job'[j].row = r /\ job'[j].key = k
  BY <1>1 DEF Row
<1>4. TabOK'
  BY <1>1, <1>2, TabFrame DEF IInv
<1>5. RunOK'
  BY <1>1, <1>2 DEF IInv, RunOK, SeenOK, Collision
<1>. HIDE DEF r
<1>6. NamesOK'
  <2>1. revision \in {4, 6, 8} /\ Writing \subseteq Job
    BY DEF IInv, TabOK, PositionsKnown, TypeOK, Revision, Writing
  <2>2. revision >= 6 =>
          /\ \A o \in Present \ {k} : ~SameName(r, rows[o]) /\ ~SameName(rows[o], r)
          /\ \A i \in Writing : ~SameName(r, job[i].row) /\ ~SameName(job[i].row, r)
    <3>. SUFFICES ASSUME revision >= 6 PROVE
            \A o \in {rows[i] : i \in Present \ {k}} \cup {job[i].row : i \in Writing} :
               ~SameName(r, o) /\ ~SameName(o, r)
      OBVIOUS
    <3>1. norm # None
      BY <1>1, <2>1 DEF Write, Accepts
    <3>. QED BY <1>3, <3>1 DEF Write, Clash, SameName, r
  <2>3. \A i \in Writing' : i # j => i \in Writing /\ job'[i] = job[i]
    BY <1>1, <2>1
  <2>4. \A i \in Writing' : job'[i].row.norm = Norm(job'[i].row.name)
    BY <1>1, <1>3, <2>3 DEF IInv, NamesOK
  <2>5. \A i, l \in Writing' : job'[i].key = job'[l].key => i = l
    BY <1>1, <1>3, <2>3 DEF IInv, NamesOK
  <2>6. revision >= 6 => \A i \in Writing', o \in Present :
            SameName(job'[i].row, rows[o]) => o = job'[i].key
    BY <1>3, <2>2, <2>3 DEF IInv, NamesOK
  <2>7. revision >= 6 => \A i, l \in Writing' : SameName(job'[i].row, job'[l].row) => i = l
    BY <1>3, <2>2, <2>3 DEF IInv, NamesOK
  <2>. QED
    BY <1>1, <1>2, <2>4, <2>5, <2>6, <2>7 DEF IInv, NamesOK, Norm, SameName
<1>. QED BY <1>4, <1>5, <1>6 DEF IInv

LEMMA WriteRollbackStep ==
    ASSUME IInv, NEW j \in Job, WriteRollback(j)
    PROVE  IInv'
<1>. USE DEF WriteRollback
<1>1. TypeOK
  BY DEF IInv, TabOK, PositionsKnown
<1>2. TypeOK'
  BY <1>1 DEF TypeOK
<1>3. Writing' = Writing \ {j} /\ \A i \in Writing' : job'[i] = job[i]
  BY <1>1 DEF TypeOK, Writing
<1>4. Present' = Present
  BY DEF Present
<1>5. TabOK'
  BY <1>2, TabFrame DEF IInv
<1>6. RunOK'
  BY <1>3, <1>4 DEF IInv, RunOK, SeenOK, Collision
<1>7. NamesOK'
  BY <1>3, <1>4 DEF IInv, NamesOK, Norm, SameName
<1>. QED BY <1>5, <1>6, <1>7 DEF IInv

LEMMA WriteCommitStep ==
    ASSUME IInv, NEW j \in Job, WriteCommit(j)
    PROVE  IInv'
<1>. DEFINE k == job[j].key  r == job[j].row
<1>. USE DEF WriteCommit
<1>1. TypeOK
  BY DEF IInv, TabOK, PositionsKnown
<1>2. k \in Key /\ r \in StoredRow /\ j \in Writing
  BY <1>1 DEF TypeOK, JobWrite, Writing
<1>3. /\ rows \in [Key -> {Absent} \cup StoredRow] /\ rows' = [rows EXCEPT ![k] = r]
      /\ job \in [Job -> {None} \cup JobWrite] /\ job' = [job EXCEPT ![j] = None]
      /\ UNCHANGED <<revision, tab, messages, flow, made, run>>
  BY <1>1 DEF TypeOK
<1>4. r = job[j].row /\ k = job[j].key
  OBVIOUS
<1>. HIDE DEF k, r
<1>5. rows'[k] = r /\ \A o \in Key \ {k} : rows'[o] = rows[o]
  BY <1>2, <1>3
<1>6. Present' = Present \cup {k}
  BY <1>2, <1>5 DEF Present, StoredRow
<1>7. Writing' = Writing \ {j} /\ \A i \in Writing' : job'[i] = job[i]
  BY <1>3 DEF Writing
<1>8. TypeOK'
  BY <1>1, <1>2, <1>3 DEF TypeOK
<1>9. TabOK'
  BY <1>3, <1>8, TabFrame DEF IInv
<1>10. RunOK'
  <2>1. ~run.locked /\ run.pc # "failed" /\ ~(revision = 4 /\ run.pc \in {"fill", "convert", "commit"})
    BY <1>2 DEF IInv, RunOK
  <2>. QED BY <1>3, <2>1 DEF IInv, RunOK
<1>11. NamesOK'
  <2>1. \A o \in Present' : o # k => o \in Present /\ rows'[o] = rows[o]
    BY <1>5, <1>6 DEF Present
  <2>2. \A i \in Writing' : i \in Writing /\ i # j /\ job'[i] = job[i] /\ job[i].key # k
    BY <1>2, <1>4, <1>7 DEF IInv, NamesOK
  <2>3. \A o \in Present' : rows'[o].norm = Norm(rows'[o].name)
    BY <1>2, <1>4, <1>5, <2>1 DEF IInv, NamesOK
  <2>4. revision >= 6 => \A o, q \in Present' : SameName(rows'[o], rows'[q]) => o = q
    BY <1>2, <1>4, <1>5, <2>1 DEF IInv, NamesOK, SameName
  <2>5. revision >= 6 => \A i \in Writing', o \in Present' :
            SameName(job'[i].row, rows'[o]) => o = job'[i].key
    BY <1>2, <1>4, <1>5, <2>1, <2>2 DEF IInv, NamesOK
  <2>6. revision >= 6 => \A i, l \in Writing' : SameName(job'[i].row, job'[l].row) => i = l
    BY <2>2 DEF IInv, NamesOK
  <2>. QED
    BY <1>3, <2>2, <2>3, <2>4, <2>5, <2>6 DEF IInv, NamesOK, Norm, SameName
<1>. QED BY <1>9, <1>10, <1>11 DEF IInv

-----------------------------------------------------------------------------
(* The web servers.                                                         *)

\* A tab in the hands of its release: row and note change, the position stays with
\* its flow.
LEMMA TabMoves ==
    ASSUME IInv, NEW row \in Flow!Tab, NEW noted \in {tab.noted, flow},
           tab' = [tab EXCEPT !.row = row, !.noted = noted],
           tab.row.execution # "authenticated", messages' \in Seq(Flow!Message),
           revision # 8 => row.action = tab.row.action /\ messages' = messages,
           UNCHANGED <<revision, rows, flow, made, job, run>>
    PROVE  IInv'
<1>1. TypeOK
  BY DEF IInv, TabOK, PositionsKnown
<1>2. tab \in StoredTab /\ noted \in 0 .. MaxFlows /\ noted <= made
  BY <1>1 DEF IInv, TabOK, TypeOK, StoredTab
<1>3. /\ tab' \in StoredTab
      /\ tab'.row = row /\ tab'.ids = tab.ids /\ tab'.noted = noted
  BY <1>2 DEF StoredTab
<1>4. TypeOK'
  BY <1>1, <1>3 DEF TypeOK
<1>5. PositionsKnown'
  BY <1>3, <1>4 DEF IInv, TabOK, PositionsKnown
<1>6. TabOK'
  BY <1>2, <1>3, <1>5 DEF IInv, TabOK
<1>. QED BY <1>6, NamesFrame, RunFrame DEF IInv

LEMMA OldReleaseStep == IInv /\ OldRelease => IInv'
<1>. SUFFICES ASSUME IInv, OldRelease PROVE IInv'
  OBVIOUS
<1>1. PICK e \in Flow!Execution \cup {"authenticated"}, u \in User \cup {None}, s \in BOOLEAN :
         tab' = [tab EXCEPT !.row.execution = e, !.row.user = u, !.row.selector = s,
                            !.row.scheduled = (e = "password")]
  BY DEF OldRelease
<1>0. PICK b \in BOOLEAN : b = (e = "password")
  OBVIOUS
<1>. DEFINE row == [tab.row EXCEPT !.execution = e, !.user = u, !.selector = s,
                                   !.scheduled = b]
<1>2. TypeOK
  BY DEF IInv, TabOK, PositionsKnown
<1>3. tab \in StoredTab /\ tab.row \in Flow!Tab /\ messages \in Seq(Flow!Message)
  BY <1>2 DEF TypeOK, StoredTab
<1>4. row \in Flow!Tab /\ row.action = tab.row.action
  BY <1>3 DEF Flow!Tab
<1>5. tab' = [tab EXCEPT !.row = row, !.noted = tab.noted]
  BY <1>0, <1>1, <1>3 DEF StoredTab
<1>. HIDE DEF row
<1>. QED BY <1>3, <1>4, <1>5, TabMoves DEF OldRelease

LEMMA SeenTyped ==
    ASSUME NEW t, t.row \in Flow!Tab
    PROVE  Seen(t) \in Flow!Tab
BY DEF Seen, Flow!Tab

\* The tab and the messages after a request of the release after 0007.
LEMMA WritesEffect ==
    ASSUME NEW t \in StoredTab, NEW o, OutcomeOK(o), NEW ms \in Seq(Flow!Message)
    PROVE  /\ Kept(o.row) \in Flow!Tab /\ ms \o Sent(o) \in Seq(Flow!Message)
           /\ \E noted \in {t.noted, flow} :
                 Writes(t, o.row) = [t EXCEPT !.row = Kept(o.row), !.noted = noted]
<1>1. Kept(o.row) \in Flow!Tab
  BY DEF OutcomeOK, Kept, Flow!Tab
<1>2. Sent(o) \in Seq(Flow!Message)
  <2>1. CASE o.send
    <3>1. [user |-> o.row.user, consumed |-> FALSE, linked |-> TRUE] \in Flow!Message
      BY <2>1 DEF OutcomeOK, Flow!Message
    <3>. QED BY <2>1, <3>1 DEF Sent
  <2>. QED BY <2>1 DEF Sent
<1>3. ms \o Sent(o) \in Seq(Flow!Message)
  BY <1>2
<1>. QED BY <1>1, <1>3 DEF Writes, StoredTab

LEMMA RequestOK ==
    ASSUME NEW t, t.row \in Flow!Tab, NEW ms, NEW o \in Request(t, ms)
    PROVE  OutcomeOK(o)
<1>. DEFINE r == Seen(t)
<1>1. r \in Flow!Tab
  BY SeenTyped
<1>. HIDE DEF r
<1>2. CASE o \in Flow!ProcessFlow(r, Flow!ConsumedUsers(ms))
  BY <1>1, <1>2, VisitOK
<1>3. ASSUME NEW u \in User \cup {None}, o \in Flow!ProcessAction(r, u, Flow!ConsumedUsers(ms))
      PROVE  OutcomeOK(o)
  BY <1>1, <1>3, ProcessActionOK
<1>4. CASE Flow!Eligible(r) /\ o \in Flow!Complete(Flow!PasswordReplaced(r), r.user, TRUE)
  <2>1. r.user \in User
    BY <1>1, <1>4 DEF Flow!Eligible, Flow!Tab
  <2>2. Flow!PasswordReplaced(r) \in Flow!Tab
    BY <1>1 DEF Flow!PasswordReplaced, Flow!Tab
  <2>. QED BY <1>4, <2>1, <2>2, CompleteOK
<1>5. ASSUME NEW u \in User, o \in Flow!Complete([r EXCEPT !.completed = TRUE], u, FALSE)
      PROVE  OutcomeOK(o)
  <2>1. [r EXCEPT !.completed = TRUE] \in Flow!Tab
    BY <1>1 DEF Flow!Tab
  <2>. QED BY <1>5, <2>1, CompleteOK
<1>6. \/ o \in Flow!ProcessFlow(r, Flow!ConsumedUsers(ms))
      \/ \E u \in User \cup {None} : o \in Flow!ProcessAction(r, u, Flow!ConsumedUsers(ms))
      \/ Flow!Eligible(r) /\ o \in Flow!Complete(Flow!PasswordReplaced(r), r.user, TRUE)
      \/ \E u \in User : o \in Flow!Complete([r EXCEPT !.completed = TRUE], u, FALSE)
  <2>. DEFINE A == Flow!ProcessFlow(r, Flow!ConsumedUsers(ms))
              B == UNION {Flow!ProcessAction(r, u, Flow!ConsumedUsers(ms)) : u \in User \cup {None}}
              C == Flow!Complete(Flow!PasswordReplaced(r), r.user, TRUE)
              D == UNION {Flow!Complete([r EXCEPT !.completed = TRUE], u, FALSE) : u \in User}
  <2>1. Request(t, ms) = A \cup B \cup (IF r.action /\ r.required /\ Flow!Eligible(r) THEN C ELSE {})
                         \cup (IF Flow!Succeeded(r) = {} THEN D ELSE {})
    BY DEF Request, Visit, r
  <2>2. o \in A \/ o \in B \/ (Flow!Eligible(r) /\ o \in C) \/ o \in D
    <3>. HIDE DEF A, B, C, D
    <3>. QED BY <2>1
  <2>. QED BY <2>2
<1>. QED BY <1>2, <1>3, <1>4, <1>5, <1>6

LEMMA NewReleaseStep == IInv /\ NewRelease => IInv'
<1>. SUFFICES ASSUME IInv, NewRelease PROVE IInv'
  OBVIOUS
<1>1. PICK o \in Request(tab, messages) :
         tab' = Writes(tab, o.row) /\ messages' = messages \o Sent(o)
  BY DEF NewRelease
<1>2. TypeOK
  BY DEF IInv, TabOK, PositionsKnown
<1>3. tab \in StoredTab /\ tab.row \in Flow!Tab /\ messages \in Seq(Flow!Message)
  BY <1>2 DEF TypeOK, StoredTab
<1>4. OutcomeOK(o)
  BY <1>3, RequestOK
<1>5. PICK noted \in {tab.noted, flow} :
         tab' = [tab EXCEPT !.row = Kept(o.row), !.noted = noted]
  BY <1>1, <1>3, <1>4, WritesEffect
<1>6. Kept(o.row) \in Flow!Tab /\ messages' \in Seq(Flow!Message)
  BY <1>1, <1>3, <1>4, WritesEffect
<1>. QED BY <1>5, <1>6, TabMoves DEF NewRelease

LEMMA LinkStep == \A m \in DOMAIN messages : IInv /\ Link(m) => IInv'
<1>. SUFFICES ASSUME NEW m \in DOMAIN messages, IInv, Link(m) PROVE IInv'
  OBVIOUS
<1>. DEFINE opened == [messages EXCEPT ![m].consumed = TRUE]
            t == [tab EXCEPT !.row = Flow!Resumed(@)]
<1>1. PICK o \in Visit(t, opened) :
         tab' = Writes(tab, o.row) /\ messages' = opened \o Sent(o)
  BY DEF Link
<1>2. TypeOK
  BY DEF IInv, TabOK, PositionsKnown
<1>3. tab \in StoredTab /\ tab.row \in Flow!Tab /\ messages \in Seq(Flow!Message)
  BY <1>2 DEF TypeOK, StoredTab
<1>4. t.row \in Flow!Tab
  <2>. DEFINE r == tab.row
  <2>0. r.user \in User \cup {None} /\ r.generation + 1 \in Nat /\ r \in Flow!Tab
    BY <1>3 DEF Flow!Tab
  <2>. HIDE DEF r
  <2>2. Flow!Resumed(r) \in Flow!Tab
    BY <2>0 DEF Flow!Resumed, Flow!Tab
  <2>1. Flow!Resumed(tab.row) \in Flow!Tab
    BY <2>2 DEF r
  <2>. QED BY <1>3, <2>1 DEF StoredTab
<1>5. opened \in Seq(Flow!Message)
  <2>1. m \in 1 .. Len(messages) /\ messages[m] \in Flow!Message
    BY <1>3
  <2>2. [messages[m] EXCEPT !.consumed = TRUE] \in Flow!Message
    BY <2>1 DEF Flow!Message
  <2>3. opened = [messages EXCEPT ![m] = [messages[m] EXCEPT !.consumed = TRUE]]
    OBVIOUS
  <2>. QED BY <1>3, <2>1, <2>2, <2>3
<1>. HIDE DEF t, opened
<1>6. OutcomeOK(o)
  BY <1>1, <1>4, SeenTyped, VisitOK DEF Visit
<1>7. PICK noted \in {tab.noted, flow} :
         tab' = [tab EXCEPT !.row = Kept(o.row), !.noted = noted]
  BY <1>1, <1>3, <1>6, WritesEffect
<1>8. Kept(o.row) \in Flow!Tab /\ messages' \in Seq(Flow!Message)
  BY <1>1, <1>3, <1>5, <1>6, WritesEffect
<1>. QED BY <1>7, <1>8, TabMoves DEF Link

-----------------------------------------------------------------------------
(* The migration.                                                           *)

\* Until its commit a run changes nothing but its own record.
LEMMA RunMoves ==
    ASSUME IInv, Nothing, RunOK', run'.pc \in RunPC, run'.target \in Revision
    PROVE  IInv'
<1>1. TypeOK'
  BY DEF IInv, TabOK, PositionsKnown, TypeOK, Nothing
<1>. QED BY <1>1, TabFrame, NamesFrame DEF IInv, Nothing

LEMMA RunStep ==
    ASSUME IInv,
           \/ \E target \in Revision : Start(target)
           \/ Lock \/ Read \/ Fill \/ Convert \/ Restore \/ Drop \/ Rollback
    PROVE  IInv'
<1>0. run.pc \in RunPC /\ run.target \in Revision /\ revision \in {4, 6, 8}
  BY DEF IInv, TabOK, PositionsKnown, TypeOK, Revision
<1>. RunOK
  BY DEF IInv
<1>1. run = [pc |-> run.pc, target |-> run.target, locked |-> run.locked, seen |-> run.seen]
  BY <1>0 DEF RunOK
<1>. USE DEF Nothing, Goto, Held, RunPC, Revision
<1>. SUFFICES RunOK' /\ run'.pc \in RunPC /\ run'.target \in Revision /\ Nothing
  BY RunMoves
<1>2. Nothing => (Writing' = Writing /\ Present' = Present /\ Collision' = Collision)
  BY DEF Writing, Present, Collision
<1>3. ASSUME NEW target \in Revision, Start(target)
      PROVE  RunOK' /\ run'.pc \in RunPC /\ run'.target \in Revision /\ Nothing
  <2>1. run' = [pc |-> run'.pc, target |-> target, locked |-> FALSE, seen |-> <<>>]
    BY <1>3 DEF Start, NoRun
  <2>2. run'.pc = IF revision = 8 THEN "restore"
                  ELSE IF revision = 6 /\ target = 8 THEN "convert" ELSE "lock"
    BY <1>3 DEF Start, NoRun
  <2>3. /\ run'.pc \in {"restore", "convert", "lock"} /\ run'.target = target
        /\ run'.locked = FALSE /\ run'.seen = <<>>
    BY <2>1, <2>2
  <2>4. UNCHANGED <<revision, rows, tab, messages, flow, made, job>> /\ target # revision
        /\ (target = 8 => made < MaxFlows)
    BY <1>3 DEF Start
  <2>5. /\ run'.pc = "restore" => revision = 8
        /\ run'.pc = "convert" => revision = 6 /\ target = 8
        /\ run'.pc = "lock" => 4 \in {revision, target}
    BY <1>0, <2>2, <2>4
  <2>6. RunOK'
    BY <2>1, <2>3, <2>4, <2>5 DEF RunOK
  <2>. QED BY <2>3, <2>4, <2>6
<1>4. CASE Lock
  <2>1. run' = [pc |-> IF run.target > 4 THEN "read" ELSE "drop", target |-> run.target,
                locked |-> TRUE, seen |-> run.seen]
    BY <1>1, <1>4 DEF Lock
  <2>2. /\ run'.pc = (IF run.target > 4 THEN "read" ELSE "drop") /\ run'.target = run.target
        /\ run'.locked = TRUE /\ run'.seen = run.seen
    BY <2>1
  <2>3. /\ Writing' = {} /\ Nothing /\ run.seen = <<>> /\ run.target # revision
        /\ IF run.target > 4 THEN revision = 4 ELSE run.target = 4
        /\ run.target = 8 => made < MaxFlows
    BY <1>0, <1>2, <1>4 DEF RunOK, Lock
  <2>4. RunOK'
    BY <2>1, <2>2, <2>3 DEF RunOK
  <2>. QED BY <1>0, <2>2, <2>3, <2>4
<1>5. CASE Read
  <2>1. CASE Collision
    <3>1. run' = [pc |-> "failed", target |-> run.target, locked |-> run.locked, seen |-> run.seen]
      BY <1>1, <1>5, <2>1 DEF Read, Collision
    <3>. QED BY <1>0, <1>2, <1>5, <2>1, <3>1 DEF RunOK, Read
  <2>2. CASE ~Collision
    <3>1. run' = [pc |-> "fill", target |-> run.target, locked |-> run.locked,
                  seen |-> [k \in Present |-> Normal(rows[k].name)]]
      BY <1>1, <1>5, <2>2 DEF Read, Collision
    <3>2. SeenOK'
      BY <1>2, <1>5, <2>2, <3>1 DEF SeenOK, Read
    <3>. QED BY <1>0, <1>2, <1>5, <3>1, <3>2 DEF RunOK, Read
  <2>. QED BY <2>1, <2>2
<1>6. CASE Fill
  <2>1. SeenOK /\ run.locked /\ revision = 4
    BY <1>0, <1>6 DEF RunOK, Fill
  <2>2. run' = [pc |-> IF run.target = 8 THEN "convert" ELSE "commit", target |-> run.target,
                locked |-> TRUE, seen |-> run.seen]
    BY <1>1, <1>6, <2>1 DEF Fill, SeenOK
  <2>3. SeenOK'
    BY <1>2, <1>6, <2>1, <2>2 DEF SeenOK, Fill
  <2>4. /\ run'.pc = (IF run.target = 8 THEN "convert" ELSE "commit") /\ run'.target = run.target
        /\ run'.locked = TRUE
    BY <2>2
  <2>5. /\ Writing' = {} /\ Nothing /\ run.target # revision
        /\ run.target = 8 => made < MaxFlows
    BY <1>2, <1>6 DEF RunOK, Fill
  <2>6. RunOK'
    BY <2>1, <2>2, <2>3, <2>4, <2>5 DEF RunOK
  <2>. QED BY <1>0, <2>4, <2>5, <2>6
<1>7. CASE Convert
  <2>1. run' = [pc |-> "commit", target |-> run.target, locked |-> run.locked, seen |-> run.seen]
    BY <1>1, <1>7 DEF Convert
  <2>2. SeenOK => SeenOK'
    BY <1>2, <1>7, <2>1 DEF SeenOK, Convert
  <2>. QED BY <1>0, <1>2, <1>7, <2>1, <2>2 DEF RunOK, Convert
<1>8. CASE Restore
  <2>1. run' = [pc |-> IF run.target = 4 THEN "lock" ELSE "commit", target |-> run.target,
                locked |-> run.locked, seen |-> run.seen]
    BY <1>1, <1>8 DEF Restore
  <2>. QED BY <1>0, <1>2, <1>8, <2>1 DEF RunOK, Restore
<1>9. CASE Drop
  <2>1. run' = [pc |-> "commit", target |-> run.target, locked |-> run.locked, seen |-> run.seen]
    BY <1>1, <1>9 DEF Drop
  <2>. QED BY <1>0, <1>2, <1>9, <2>1 DEF RunOK, Drop
<1>10. CASE Rollback
  BY <1>0, <1>2, <1>10 DEF RunOK, Rollback, NoRun
<1>. QED BY <1>3, <1>4, <1>5, <1>6, <1>7, <1>8, <1>9, <1>10

\* A tab that is placed: the executions before the position have succeeded.
LEMMA PlacedEffect ==
    ASSUME NEW t \in StoredTab, NEW e \in Flow!Execution, NEW f \in 0 .. MaxFlows
    PROVE  LET p == Placed(t, e, f) IN
           /\ p \in StoredTab /\ p.ids = f /\ p.noted = t.noted
           /\ p.row.execution = e /\ Flow!Succeeded(p.row) = Before(e)
           /\ p.row.current = e
           /\ p.row.user = t.row.user /\ p.row.action = t.row.action
           /\ p.row.selector = t.row.selector /\ p.row.scheduled = t.row.scheduled
           /\ p.row.delivery = t.row.delivery
<1>. DEFINE st == [x \in Flow!Execution |-> IF x \in Before(e) THEN "SUCCESS"
                                           ELSE IF x = e THEN "CHALLENGE" ELSE "none"]
            r == t.row
            row == [r EXCEPT !.execution = e, !.current = e, !.status = st]
            p == [t EXCEPT !.ids = f, !.row = row]
<1>1. st \in [Flow!Execution -> Flow!FlowStatus]
  BY DEF Flow!FlowStatus
<1>2. r \in Flow!Tab
  BY DEF StoredTab
<1>3. Before(e) \subseteq Flow!Execution
  BY DEF Before, Flow!Execution
<1>4. {x \in Flow!Execution : st[x] = "SUCCESS"} = Before(e)
  BY <1>3
<1>. HIDE DEF st, r
<1>5. /\ row \in Flow!Tab /\ row.execution = e /\ row.current = e /\ row.status = st
      /\ row.user = r.user /\ row.action = r.action /\ row.selector = r.selector
      /\ row.scheduled = r.scheduled /\ row.delivery = r.delivery
  BY <1>1, <1>2 DEF Flow!Tab
<1>. HIDE DEF row
<1>6. p \in StoredTab /\ p.ids = f /\ p.noted = t.noted /\ p.row = row
  BY <1>5 DEF StoredTab
<1>7. Flow!Succeeded(row) = Before(e)
  BY <1>4, <1>5 DEF Flow!Succeeded
<1>8. Placed(t, e, f) = p
  BY DEF Placed, p, row, r, st, StoredTab
<1>. HIDE DEF p
<1>. QED BY <1>5, <1>6, <1>7, <1>8 DEF r

\* Where an upgrade leaves a tab in progress: before the message, a pending password
\* update included.
LEMMA UpgradedEffect ==
    ASSUME NEW t \in StoredTab, NEW f \in 0 .. MaxFlows,
           t.ids = 0, t.row.execution # "authenticated"
    PROVE  LET p == UpgradedTab(t, f) IN
           /\ p \in StoredTab /\ p.ids = f /\ p.noted = t.noted
           /\ p.row.execution \in {"choose", "email"}
           /\ p.row.current = p.row.execution
           /\ Flow!Succeeded(p.row) = Before(p.row.execution)
           /\ p.row.action = t.row.action
<1>1. t.row \in Flow!Tab /\ t.row.execution \in Flow!Execution
  BY DEF StoredTab, Flow!Tab
<1>2. CASE t.row.execution # "password"
  <2>1. UpgradedTab(t, f) = Placed(t, t.row.execution, f) /\ t.row.execution \in {"choose", "email"}
    BY <1>1, <1>2 DEF UpgradedTab, Flow!Execution
  <2>. QED BY <1>1, <2>1, PlacedEffect
<1>3. CASE t.row.execution = "password"
  <2>. DEFINE e == IF t.row.user = None THEN "choose" ELSE "email"
              q == Placed(t, e, f)
              row == [q.row EXCEPT !.selector = FALSE, !.scheduled = FALSE]
              p == [q EXCEPT !.row = row]
  <2>1. e \in {"choose", "email"} /\ e \in Flow!Execution
    BY DEF Flow!Execution
  <2>. HIDE DEF e
  <2>2. /\ q \in StoredTab /\ q.ids = f /\ q.noted = t.noted
        /\ q.row.execution = e /\ Flow!Succeeded(q.row) = Before(e)
        /\ q.row.current = e /\ q.row.action = t.row.action
    BY <2>1, PlacedEffect
  <2>. HIDE DEF q
  <2>3. /\ row \in Flow!Tab /\ row.execution = e /\ row.current = e
        /\ row.action = t.row.action /\ row.status = q.row.status
    BY <2>2 DEF StoredTab, Flow!Tab
  <2>4. p \in StoredTab /\ p.ids = f /\ p.noted = t.noted /\ p.row = row
    BY <2>2, <2>3 DEF StoredTab
  <2>5. Flow!Succeeded(row) = Before(e)
    BY <2>2, <2>3 DEF Flow!Succeeded
  <2>6. UpgradedTab(t, f) = p
    BY <1>3, <2>2 DEF UpgradedTab, StoredTab, p, row, q, e
  <2>. HIDE DEF p, row
  <2>. QED BY <2>1, <2>3, <2>4, <2>5, <2>6
<1>. QED BY <1>2, <1>3

\* Where a downgrade leaves a tab: with an old name, unless it is done with.
LEMMA DowngradedEffect ==
    ASSUME NEW t \in StoredTab
    PROVE  LET p == DowngradedTab(t) IN
           /\ p \in StoredTab /\ p.noted = t.noted /\ ~p.row.action
           /\ t.ids = flow /\ p.row.execution # "authenticated" => p.ids = 0
           /\ t.row.execution = "authenticated" => p.row.execution = "authenticated"
<1>. DEFINE r == t.row
            row == [r EXCEPT !.status = [e \in Flow!Execution |-> "none"],
                             !.current = None, !.required = FALSE, !.action = FALSE]
            e == IF r.current = None THEN r.execution ELSE r.current
            back == [row EXCEPT !.execution = e]
<1>1. r \in Flow!Tab /\ [x \in Flow!Execution |-> "none"] \in [Flow!Execution -> Flow!FlowStatus]
  BY DEF StoredTab, Flow!FlowStatus
<1>2. e \in Flow!Execution \cup {"authenticated"}
  BY <1>1 DEF Flow!Tab
<1>. HIDE DEF r, e
<1>3. row \in Flow!Tab /\ ~row.action /\ row.execution = r.execution
  BY <1>1 DEF Flow!Tab
<1>4. back \in Flow!Tab /\ ~back.action
  BY <1>2, <1>3 DEF Flow!Tab
<1>5. CASE t.ids # flow \/ t.row.execution = "authenticated"
  <2>1. DowngradedTab(t) = [t EXCEPT !.row = row]
    BY <1>5 DEF DowngradedTab, r
  <2>. HIDE DEF row
  <2>. QED BY <1>3, <1>5, <2>1 DEF StoredTab, r
<1>6. CASE t.ids = flow /\ t.row.execution # "authenticated"
  <2>1. DowngradedTab(t) = [t EXCEPT !.ids = 0, !.row = back]
    BY <1>1, <1>3, <1>6 DEF DowngradedTab, r, e
  <2>. HIDE DEF back
  <2>2. 0 \in 0 .. MaxFlows
    BY MaxFlowsAssumption
  <2>. QED BY <1>4, <1>6, <2>1, <2>2 DEF StoredTab
<1>. QED BY <1>5, <1>6

\* What a commit makes of the names: none below 0005, the computed ones on the way up
\* from there, and the stored ones otherwise.
LEMMA CommitRows ==
    ASSUME IInv, Commit
    PROVE  /\ rows' \in [Key -> {Absent} \cup StoredRow] /\ Present' = Present
           /\ \A k \in Present :
                 /\ rows'[k].scope = rows[k].scope /\ rows'[k].name = rows[k].name
                 /\ rows'[k].norm = IF run.target = 4 THEN None ELSE Normal(rows[k].name)
<1>. DEFINE norm(k) == IF run.target = 4 THEN None
                       ELSE IF k \in DOMAIN run.seen THEN run.seen[k] ELSE rows[k].norm
<1>1. TypeOK /\ RunOK /\ NamesOK /\ run.pc = "commit"
  BY DEF IInv, TabOK, PositionsKnown, Commit
<1>2. rows \in [Key -> {Absent} \cup StoredRow] /\ revision \in {4, 6, 8} /\ run.target # revision
  BY <1>1 DEF TypeOK, Revision, RunOK
<1>3. \A k \in Key : rows'[k] = [rows[k] EXCEPT !.norm = norm(k)]
  BY DEF Commit
<1>4. DOMAIN rows' = Key /\ rows' = [k \in Key |-> rows'[k]]
  BY DEF Commit
<1>5. ASSUME NEW k \in Key, k \notin Present
      PROVE  rows'[k] = Absent
  <2>1. rows[k] = Absent
    BY <1>2, <1>5 DEF Present, StoredRow
  <2>2. k \notin DOMAIN run.seen
    BY <1>1, <1>5 DEF RunOK, SeenOK
  <2>3. norm(k) = None
    BY <2>1, <2>2 DEF Absent
  <2>. HIDE DEF norm
  <2>. QED BY <1>3, <2>1, <2>3 DEF Absent
<1>6. ASSUME NEW k \in Present
      PROVE  norm(k) = IF run.target = 4 THEN None ELSE Normal(rows[k].name)
  <2>1. CASE revision = 4
    <3>1. run.seen[k] = Normal(rows[k].name) /\ k \in DOMAIN run.seen
      BY <1>1, <2>1 DEF RunOK, SeenOK
    <3>. QED BY <3>1
  <2>2. CASE revision # 4
    <3>1. run.seen = <<>>
      BY <1>1, <2>2 DEF RunOK
    <3>2. DOMAIN run.seen = {}
      BY <3>1
    <3>3. rows[k].norm = Normal(rows[k].name)
      BY <1>1, <1>2, <2>2 DEF NamesOK, Norm
    <3>. QED BY <3>2, <3>3
  <2>. QED BY <2>1, <2>2
<1>7. ASSUME NEW k \in Present
      PROVE  /\ k \in Key /\ rows[k] \in StoredRow /\ rows'[k] \in StoredRow
             /\ rows'[k].scope = rows[k].scope /\ rows'[k].name = rows[k].name
             /\ rows'[k].norm = norm(k)
  <2>1. k \in Key /\ rows[k] \in StoredRow
    BY <1>2 DEF Present, Absent
  <2>2. norm(k) \in {None} \cup {Normal(n) : n \in Name}
    BY <1>6, <2>1 DEF StoredRow
  <2>. HIDE DEF norm
  <2>. QED BY <1>3, <2>1, <2>2 DEF StoredRow
<1>. HIDE DEF norm
<1>8. rows' \in [Key -> {Absent} \cup StoredRow]
  BY <1>4, <1>5, <1>7
<1>9. Present' = Present
  BY <1>5, <1>7 DEF Present, StoredRow, Absent
<1>. QED BY <1>6, <1>7, <1>8, <1>9

LEMMA CommitNames ==
    ASSUME IInv, Commit
    PROVE  NamesOK'
<1>1. /\ Present' = Present
      /\ \A k \in Present :
            /\ rows'[k].scope = rows[k].scope /\ rows'[k].name = rows[k].name
            /\ rows'[k].norm = IF run.target = 4 THEN None ELSE Normal(rows[k].name)
  BY CommitRows
<1>2. /\ revision' = run.target /\ job' = job /\ Writing' = Writing
      /\ revision \in {4, 6, 8} /\ run.target \in {4, 6, 8}
      /\ RunOK /\ NamesOK /\ run.pc = "commit" /\ run.target # revision
  BY DEF IInv, TabOK, PositionsKnown, TypeOK, Revision, RunOK, Commit, Writing
<1>3. \A k \in Present' : rows'[k].norm = IF revision' < 6 THEN None ELSE Normal(rows'[k].name)
  BY <1>1, <1>2
<1>4. CASE revision = 4 \/ run.target = 4
  <2>1. Writing = {}
    BY <1>2, <1>4 DEF RunOK
  <2>2. run.target # 4 => SeenOK
    BY <1>2, <1>4 DEF RunOK
  <2>3. run.target # 4 => \A j, k \in Present : SameName(rows'[j], rows'[k]) => j = k
    BY <1>1, <2>2 DEF SeenOK, Collision, SameName
  <2>4. revision' >= 6 => run.target # 4
    BY <1>2
  <2>. QED BY <1>1, <1>2, <1>3, <2>1, <2>3, <2>4 DEF NamesOK, SameName, Norm
<1>5. CASE revision # 4 /\ run.target # 4
  <2>1. \A k \in Present : rows'[k].norm = rows[k].norm
    BY <1>1, <1>2, <1>5 DEF NamesOK, Norm
  <2>2. \A j \in Writing : job'[j].row.norm = IF revision' < 6 THEN None ELSE Normal(job'[j].row.name)
    BY <1>2, <1>5 DEF NamesOK, Norm
  <2>3. revision >= 6
    BY <1>2, <1>5
  <2>4. \A j, k \in Present : SameName(rows'[j], rows'[k]) => j = k
    BY <1>1, <1>2, <2>1, <2>3 DEF NamesOK, SameName
  <2>5. \A j \in Writing, k \in Present : SameName(job[j].row, rows'[k]) => k = job[j].key
    BY <1>1, <1>2, <2>1, <2>3 DEF NamesOK, SameName
  <2>. QED BY <1>1, <1>2, <1>3, <2>2, <2>3, <2>4, <2>5 DEF NamesOK, SameName, Norm
<1>. QED BY <1>4, <1>5

LEMMA CommitTab ==
    ASSUME IInv, Commit
    PROVE  TabOK'
<1>. DEFINE down == revision = 8
<1>1. /\ TypeOK /\ RunOK /\ TabOK /\ run.pc = "commit"
      /\ revision \in {4, 6, 8} /\ run.target \in {4, 6, 8} /\ run.target # revision
      /\ tab \in StoredTab /\ messages \in Seq(Flow!Message)
      /\ flow \in 0 .. MaxFlows /\ made \in 0 .. MaxFlows
      /\ flow <= made /\ tab.noted <= made
  BY DEF IInv, TabOK, PositionsKnown, TypeOK, Revision, RunOK, Commit
<1>2. /\ messages' \in Seq(Flow!Message)
      /\ revision' # 8 => \A m \in DOMAIN messages' : ~messages'[m].linked
  <2>. DEFINE x(m) == [messages[m] EXCEPT !.linked = @ /\ ~down]
  <2>1. ASSUME NEW m \in DOMAIN messages
        PROVE  x(m) \in Flow!Message /\ (revision' # 8 => ~x(m).linked)
    <3>1. messages[m] \in Flow!Message
      BY <1>1
    <3>2. PICK b \in BOOLEAN : b = (messages[m].linked /\ ~down)
      OBVIOUS
    <3>3. revision' # 8 => ~b
      BY <1>1, <3>2 DEF TabOK, Commit
    <3>4. x(m) = [messages[m] EXCEPT !.linked = b]
      BY <3>2
    <3>. HIDE DEF x
    <3>5. x(m) \in Flow!Message /\ x(m).linked = b
      BY <3>1, <3>4 DEF Flow!Message
    <3>. QED BY <3>3, <3>5
  <2>2. messages' = [m \in DOMAIN messages |-> x(m)]
    BY DEF Commit
  <2>3. DOMAIN messages = 1 .. Len(messages) /\ Len(messages) \in Nat
    BY <1>1
  <2>. HIDE DEF x
  <2>. QED BY <2>1, <2>2, <2>3
<1>3. CASE run.target = 8
  <2>1. revision' = 8 /\ flow' = made + 1 /\ made' = made + 1 /\ tab' = UpgradedTab(tab, made + 1)
    BY <1>1, <1>3 DEF Commit
  <2>2. made + 1 \in 0 .. MaxFlows
    BY <1>1, <1>3, MaxFlowsAssumption DEF RunOK
  <2>3. CASE tab.row.execution = "authenticated"
    <3>1. tab' = tab
      BY <2>1, <2>3 DEF UpgradedTab
    <3>2. TypeOK'
      BY <1>1, <1>2, <2>1, <2>2, <3>1, CommitRows DEF TypeOK, Commit, Revision, NoRun, RunPC
    <3>. QED BY <1>1, <1>2, <2>1, <2>3, <3>1, <3>2 DEF TabOK, PositionsKnown, StoredTab
  <2>4. CASE tab.row.execution # "authenticated"
    <3>1. tab.ids = 0
      BY <1>1, <1>3, <2>4 DEF TabOK, PositionsKnown
    <3>2. tab' \in StoredTab /\ tab'.ids = made + 1 /\ tab'.noted = tab.noted
      BY <1>1, <2>1, <2>2, <2>4, <3>1, UpgradedEffect
    <3>3. TypeOK'
      BY <1>1, <1>2, <2>1, <2>2, <3>2, CommitRows DEF TypeOK, Commit, Revision, NoRun, RunPC
    <3>. QED BY <1>1, <1>2, <2>1, <3>2, <3>3 DEF TabOK, PositionsKnown, StoredTab
  <2>. QED BY <2>3, <2>4
<1>4. CASE revision = 8
  <2>1. revision' \in {4, 6} /\ flow' = 0 /\ made' = made /\ tab' = DowngradedTab(tab)
    BY <1>1, <1>4 DEF Commit
  <2>2. /\ tab' \in StoredTab /\ tab'.noted = tab.noted /\ ~tab'.row.action
        /\ tab'.row.execution # "authenticated" => tab'.ids = 0
    BY <1>1, <1>4, <2>1, DowngradedEffect DEF TabOK, PositionsKnown
  <2>3. TypeOK'
    BY <1>1, <1>2, <2>1, <2>2, CommitRows, MaxFlowsAssumption
       DEF TypeOK, Commit, Revision, NoRun, RunPC
  <2>. QED BY <1>1, <1>2, <2>1, <2>2, <2>3 DEF TabOK, PositionsKnown
<1>5. CASE run.target # 8 /\ revision # 8
  <2>1. revision' \in {4, 6} /\ flow' = flow /\ made' = made /\ tab' = tab
    BY <1>1, <1>5 DEF Commit
  <2>2. TypeOK'
    BY <1>1, <1>2, <2>1, CommitRows DEF TypeOK, Commit, Revision, NoRun, RunPC
  <2>. QED BY <1>1, <1>2, <1>5, <2>1, <2>2 DEF TabOK, PositionsKnown
<1>. QED BY <1>3, <1>4, <1>5

LEMMA CommitStep == IInv /\ Commit => IInv'
<1>. SUFFICES ASSUME IInv, Commit PROVE IInv'
  OBVIOUS
<1>1. RunOK'
  BY DEF RunOK, NoRun, Commit
<1>. QED BY <1>1, CommitNames, CommitTab DEF IInv

-----------------------------------------------------------------------------
(* The theorems.                                                            *)

LEMMA Inductive == IInv /\ [Next]_vars => IInv'
<1>. SUFFICES ASSUME IInv, [Next]_vars PROVE IInv'
  OBVIOUS
<1>1. ASSUME NEW j \in Job, NEW k \in Key, NEW s \in Scope, NEW n \in Name,
             Write(j, k, s, n, None) \/ Write(j, k, s, n, Normal(n))
      PROVE  IInv'
  BY <1>1, WriteStep
<1>2. ASSUME NEW j \in Job, WriteCommit(j) \/ WriteRollback(j)
      PROVE  IInv'
  BY <1>2, WriteCommitStep, WriteRollbackStep
<1>3. CASE OldRelease \/ NewRelease \/ \E m \in DOMAIN messages : Link(m)
  BY <1>3, OldReleaseStep, NewReleaseStep, LinkStep
<1>4. CASE \/ \E target \in Revision : Start(target)
           \/ Lock \/ Read \/ Fill \/ Convert \/ Restore \/ Drop \/ Rollback
  BY <1>4, RunStep
<1>5. CASE Commit
  BY <1>5, CommitStep
<1>6. CASE UNCHANGED vars
  <2>1. TypeOK'
    BY <1>6 DEF IInv, TabOK, PositionsKnown, TypeOK, vars
  <2>. QED BY <1>6, <2>1, TabFrame, NamesFrame, RunFrame DEF IInv, vars
<1>. QED BY <1>1, <1>2, <1>3, <1>4, <1>5, <1>6 DEF Next

\* The inductive invariant holds in every reachable state: runs, jobs and tabs agree
\* on the revision, whatever is rolled back.
THEOREM Invariance == Spec => []IInv
BY InitOK, Inductive, PTL DEF Spec

\* RefusedOnlyForCollision for every set of rows and jobs: 0005 locks before it reads,
\* and what it has read is what it fills.
THEOREM CollisionsOnly == Spec => []RefusedOnlyForCollision
<1>1. IInv => RefusedOnlyForCollision
  BY DEF IInv, RunOK, Collision, RefusedOnlyForCollision
<1>. QED BY <1>1, Invariance, PTL

\* IdentitiesNormalized for every set of names and every normalization: each name has
\* its normalized form from 0005 on, and a scope has none twice.
THEOREM NamesNormalized == Spec => []IdentitiesNormalized
<1>1. IInv => IdentitiesNormalized
  BY DEF IInv, NamesOK, Norm, SameName, IdentitiesNormalized
<1>. QED BY <1>1, Invariance, PTL

\* PositionsKnown for any number of upgrades and downgrades: a pending tab stands at
\* an execution of the stored flow or at an old name, as its release expects.
THEOREM PositionsStayKnown == Spec => []PositionsKnown
<1>1. IInv => PositionsKnown
  BY DEF IInv, TabOK
<1>. QED BY <1>1, Invariance, PTL

\* The page that an upgraded tab shows next.
LEMMA FirstVisit ==
    ASSUME NEW t \in Flow!Tab, t.execution \in {"choose", "email"}, t.current = t.execution,
           Flow!Succeeded(t) = Before(t.execution), ~t.action, t.delivery = None
    PROVE  LET visit == Flow!ProcessFlow(t, {}) IN
           /\ visit # {}
           /\ \A o \in visit : ~o.row.action /\ ~o.login
           /\ t.user # None /\ t.execution = "email" /\ ~t.selector => \E o \in visit : o.send
<1>. DEFINE visit == Flow!ProcessFlow(t, {})
            asked == Flow!ProcessResult(t, "choose", "CHALLENGE")
            waiting == Flow!ProcessResult(t, "email", "FORK")
            s == [t EXCEPT !.delivery = t.user]
            mailed == Flow!ProcessResult(s, "email", "FORK")
<1>1. ~asked.action /\ ~waiting.action
  BY DEF Flow!ProcessResult, Flow!Tab
<1>2. ~mailed.action
  <2>1. s \in Flow!Tab /\ ~s.action
    BY DEF Flow!Tab
  <2>. HIDE DEF s
  <2>. QED BY <2>1 DEF Flow!ProcessResult, Flow!Tab
<1>. SUFFICES /\ visit # {}
              /\ \A o \in visit : ~o.row.action /\ ~o.login
              /\ t.user # None /\ t.execution = "email" /\ ~t.selector => \E o \in visit : o.send
  OBVIOUS
<1>. HIDE DEF asked, waiting, mailed
<1>3. CASE t.selector /\ t.current # None
  <2>1. visit = {Flow!Outcome(t, FALSE, FALSE, FALSE)}
    BY <1>3 DEF Flow!ProcessFlow, Flow!Plain
  <2>. HIDE DEF visit
  <2>. QED BY <1>3, <2>1 DEF Flow!Outcome
<1>4. CASE ~(t.selector /\ t.current # None) /\ t.execution = "choose"
  <2>1. visit = {Flow!Outcome(asked, FALSE, FALSE, FALSE)}
    BY <1>4 DEF Flow!ProcessFlow, Flow!Traverse, Flow!Plain, Before, asked
  <2>. HIDE DEF visit
  <2>. QED BY <1>1, <1>4, <2>1 DEF Flow!Outcome
<1>5. CASE ~(t.selector /\ t.current # None) /\ t.execution = "email"
  <2>1. "choose" \in Flow!Succeeded(t) /\ "email" \notin Flow!Succeeded(t)
    BY <1>5 DEF Before
  <2>2. ~Flow!Validated(t, {})
    BY DEF Flow!Validated
  <2>3. visit = Flow!EmailFork(t)
    BY <1>5, <2>1, <2>2 DEF Flow!ProcessFlow, Flow!Traverse, Flow!TraverseEmail
  <2>4. visit = {Flow!Outcome(waiting, FALSE, FALSE, FALSE)} \cup
                (IF t.user # None THEN {Flow!Outcome(mailed, TRUE, FALSE, FALSE)} ELSE {})
    BY <2>3 DEF Flow!EmailFork, waiting, mailed, s
  <2>. DEFINE first == Flow!Outcome(waiting, FALSE, FALSE, FALSE)
              second == Flow!Outcome(mailed, TRUE, FALSE, FALSE)
  <2>5. /\ ~first.row.action /\ ~first.login
        /\ ~second.row.action /\ ~second.login /\ second.send
    BY <1>1, <1>2 DEF Flow!Outcome
  <2>. HIDE DEF visit, first, second
  <2>6. /\ first \in visit /\ (t.user # None => second \in visit)
        /\ \A o \in visit : o = first \/ o = second
    BY <2>4 DEF first, second
  <2>7. \A o \in visit : ~o.row.action /\ ~o.login
    BY <2>5, <2>6, Zenon
  <2>. QED BY <2>5, <2>6, <2>7
<1>. QED BY <1>3, <1>4, <1>5

LEMMA UpgradeShows == IInv /\ [Next]_vars => UpgradeStep
<1>. SUFFICES ASSUME IInv, [Next]_vars, revision' = 8, revision # 8,
                     tab.row.execution # "authenticated"
              PROVE  LET visit == Visit(tab, messages)' IN
                     /\ visit # {}
                     /\ \A o \in visit : ~o.row.action /\ ~o.login
                     /\ tab'.row.user # None /\ tab'.row.execution = "email" /\ ~tab'.row.selector
                          => \E o \in visit : o.send
  BY DEF UpgradeStep
<1>1. Commit
  <2>1. revision' # revision
    OBVIOUS
  <2>2. /\ \A j \in Job, k \in Key, s \in Scope, n \in Name :
             ~Write(j, k, s, n, None) /\ ~Write(j, k, s, n, Normal(n))
        /\ \A j \in Job : ~WriteCommit(j) /\ ~WriteRollback(j)
    BY <2>1 DEF Write, WriteCommit, WriteRollback
  <2>3. ~OldRelease /\ ~NewRelease /\ \A m \in DOMAIN messages : ~Link(m)
    BY <2>1 DEF OldRelease, NewRelease, Link
  <2>4. /\ \A target \in Revision : ~Start(target)
        /\ ~Lock /\ ~Read /\ ~Fill /\ ~Convert /\ ~Restore /\ ~Drop /\ ~Rollback
    BY <2>1 DEF Start, Lock, Read, Fill, Convert, Restore, Drop, Rollback, Nothing
  <2>. QED BY <2>1, <2>2, <2>3, <2>4 DEF Next, vars
<1>2. /\ TypeOK /\ RunOK /\ TabOK /\ run.target = 8 /\ run.pc # "idle"
      /\ tab \in StoredTab /\ tab.ids = 0 /\ made + 1 \in 0 .. MaxFlows
      /\ tab.noted # made + 1
      /\ flow' = made + 1 /\ tab' = UpgradedTab(tab, made + 1)
      /\ ~tab.row.action
  BY <1>1, MaxFlowsAssumption DEF IInv, TabOK, PositionsKnown, TypeOK, StoredTab, RunOK, Commit
<1>. DEFINE t == Seen(tab)'
<1>3. /\ tab' \in StoredTab /\ tab'.noted = tab.noted
      /\ tab'.row.execution \in {"choose", "email"}
      /\ tab'.row.current = tab'.row.execution
      /\ Flow!Succeeded(tab'.row) = Before(tab'.row.execution)
      /\ ~tab'.row.action
  <2>. DEFINE p == UpgradedTab(tab, made + 1)
  <2>1. /\ p \in StoredTab /\ p.noted = tab.noted
        /\ p.row.execution \in {"choose", "email"}
        /\ p.row.current = p.row.execution
        /\ Flow!Succeeded(p.row) = Before(p.row.execution)
        /\ p.row.action = tab.row.action
    BY <1>2, UpgradedEffect
  <2>. QED BY <1>2, <2>1
<1>4. tab'.noted # flow' /\ tab'.row \in Flow!Tab
  BY <1>2, <1>3 DEF StoredTab
<1>5. t = [tab'.row EXCEPT !.delivery = None]
  BY <1>4 DEF Seen
<1>6. /\ t \in Flow!Tab /\ t.execution = tab'.row.execution /\ t.current = t.execution
      /\ t.status = tab'.row.status /\ ~t.action /\ t.delivery = None
      /\ t.user = tab'.row.user /\ t.selector = tab'.row.selector
  BY <1>3, <1>4, <1>5 DEF Flow!Tab
<1>7. Flow!Succeeded(t) = Before(t.execution)
  BY <1>3, <1>6 DEF Flow!Succeeded
<1>8. Flow!ConsumedUsers(messages') = {}
  <2>1. \A m \in DOMAIN messages' : m \in DOMAIN messages /\ ~messages'[m].linked
    <3>. SUFFICES ASSUME NEW m \in DOMAIN messages'
                  PROVE  m \in DOMAIN messages /\ ~messages'[m].linked
      OBVIOUS
    <3>1. m \in DOMAIN messages /\ messages[m] \in Flow!Message /\ ~messages[m].linked
      BY <1>1, <1>2 DEF Commit, TypeOK, TabOK
    <3>2. messages'[m] = [messages[m] EXCEPT !.linked = FALSE]
      BY <1>1, <3>1 DEF Commit
    <3>. QED BY <3>1, <3>2 DEF Flow!Message
  <2>. QED BY <2>1 DEF Flow!ConsumedUsers
<1>9. Visit(tab, messages)' = Flow!ProcessFlow(t, {})
  BY <1>8 DEF Visit
<1>. HIDE DEF t
<1>. QED BY <1>3, <1>6, <1>7, <1>9, FirstVisit

\* UpgradeAsksAgain for every tab of the old release: the first page after an upgrade is
\* the account form, the selector or the message, and a pending reset is mailed anew.
THEOREM UpgradesAskAgain == Spec => UpgradeAsksAgain
<1>1. IInv /\ [Next]_vars => [UpgradeStep]_vars
  BY UpgradeShows
<1>. QED BY <1>1, Invariance, PTL DEF Spec, UpgradeAsksAgain
=============================================================================
