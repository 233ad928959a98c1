------------------------------ MODULE GrantLedger ------------------------------
(***************************************************************************)
(* What the token endpoint promises relying parties, without transactions, *)
(* locks or clocks: a ledger of the refresh tokens it has handed out.      *)
(*                                                                         *)
(* An authorization code opens one family.  A family grows at its tip, one *)
(* token for another.  A session that has been closed grows no family.     *)
(* SessionTokens implements this (SessionTokens!ImplementsLedger).         *)
(***************************************************************************)
EXTENDS Naturals, TLAPS

CONSTANTS Session, Code, Token, None

VARIABLES
    closed,  \* sessions closed by logout or after reuse of a spent token
    ledger   \* what each token was handed out for

vars == <<closed, ledger>>

Blank == [sess |-> None, code |-> None, family |-> None, gen |-> 0, spent |-> FALSE]
Entry(s, c, f, g) == [sess |-> s, code |-> c, family |-> f, gen |-> g, spent |-> FALSE]

Written(t) == ledger[t] # Blank

Init ==
    /\ closed = {}
    /\ ledger = [t \in Token |-> Blank]

\* A password, or a code that has opened no family, buys the first token.
Open(t, s, c) ==
    /\ ~Written(t)
    /\ c # None => \A u \in Token : ledger[u].code # c
    /\ ledger' = [ledger EXCEPT ![t] = Entry(s, c, t, 0)]
    /\ UNCHANGED closed

\* The tip buys its successor, while the session is open.
Extend(t, u) ==
    LET e == ledger[t] IN
    /\ Written(t) /\ ~e.spent /\ e.sess \notin closed
    /\ ~Written(u)
    /\ ledger' = [ledger EXCEPT ![t].spent = TRUE,
                                ![u] = Entry(e.sess, e.code, e.family, e.gen + 1)]
    /\ UNCHANGED closed

Close(s) ==
    /\ closed' = closed \cup {s}
    /\ UNCHANGED ledger

Next ==
    \/ \E t \in Token, s \in Session, c \in Code \cup {None} : Open(t, s, c)
    \/ \E t, u \in Token : Extend(t, u)
    \/ \E s \in Session : Close(s)

Spec == Init /\ [][Next]_vars

-----------------------------------------------------------------------------
\* A code has one family, and a family one tip: of all the tokens a relying party
\* was handed for one code, one at most can still be exchanged.
OneTip ==
    \A t, u \in Token :
        /\ Written(t) /\ Written(u) /\ ~ledger[t].spent /\ ~ledger[u].spent
        /\ \/ ledger[t].family = ledger[u].family
           \/ ledger[t].code # None /\ ledger[t].code = ledger[u].code
        => t = u

-----------------------------------------------------------------------------
(* The proof.                                                               *)

EntryType == [sess : Session \cup {None}, code : Code \cup {None},
              family : Token \cup {None}, gen : Nat, spent : BOOLEAN]

\* Types, and what an entry owes to the one that opened its family.
Lineage ==
    /\ ledger \in [Token -> EntryType]
    /\ \A t \in Token : Written(t) =>
          ledger[t].family \in Token /\ Written(ledger[t].family)
    /\ \A t, u \in Token :
          /\ Written(t) /\ Written(u)
          /\ ledger[t].code # None /\ ledger[t].code = ledger[u].code
          => ledger[t].family = ledger[u].family

LInv == Lineage /\ OneTip

LEMMA LInvInit == Init => LInv
BY DEF Init, LInv, Lineage, EntryType, OneTip, Blank, Written

LEMMA LInvOpen ==
    ASSUME None \notin Token, LInv, NEW t \in Token, NEW s \in Session,
           NEW c \in Code \cup {None}, Open(t, s, c)
    PROVE  LInv'
<1>1. /\ ledger'[t] = Entry(s, c, t, 0)
      /\ \A u \in Token \ {t} : ledger'[u] = ledger[u]
      /\ Written(t)' /\ ~Written(t)
      /\ \A u \in Token \ {t} : Written(u)' <=> Written(u)
  BY DEF Open, LInv, Lineage, Entry, Blank, Written
<1>2. Lineage'
  BY <1>1 DEF Open, LInv, Lineage, EntryType, Entry, Written
<1>3. OneTip'
  BY <1>1 DEF Open, LInv, Lineage, OneTip, Entry, Written
<1>. QED BY <1>2, <1>3 DEF LInv

LEMMA LInvExtend ==
    ASSUME None \notin Token, LInv, NEW t \in Token, NEW u \in Token, Extend(t, u)
    PROVE  LInv'
<1>. DEFINE e == ledger[t]
<1>1. /\ t # u /\ Written(t) /\ ~Written(u) /\ ~e.spent
      /\ ledger'[t] = [e EXCEPT !.spent = TRUE]
      /\ ledger'[u] = Entry(e.sess, e.code, e.family, e.gen + 1)
      /\ \A v \in Token \ {t, u} : ledger'[v] = ledger[v]
  BY DEF Extend, LInv, Lineage
<1>2. /\ e.family \in Token /\ Written(e.family)
      /\ ledger'[t].sess = e.sess /\ ledger'[t].code = e.code
      /\ ledger'[t].family = e.family /\ ledger'[t].gen = e.gen /\ ledger'[t].spent
  BY <1>1 DEF LInv, Lineage, EntryType
<1>3. /\ Written(t)' /\ Written(u)'
      /\ \A v \in Token \ {t, u} : Written(v)' <=> Written(v)
  BY <1>1, <1>2 DEF Written, Blank, Entry
<1>4. ledger' \in [Token -> EntryType]
  <2>1. e \in EntryType
    BY DEF LInv, Lineage
  <2>2. [e EXCEPT !.spent = TRUE] \in EntryType
    BY <2>1 DEF EntryType
  <2>3. Entry(e.sess, e.code, e.family, e.gen + 1) \in EntryType
    <3>1. /\ e.sess \in Session \cup {None} /\ e.code \in Code \cup {None}
          /\ e.family \in Token \cup {None} /\ e.gen + 1 \in Nat
      BY <2>1 DEF EntryType
    <3>. HIDE DEF e
    <3>. QED BY <3>1 DEF EntryType, Entry
  <2>4. \A v \in Token : ledger'[v] \in EntryType
    <3>. HIDE DEF e
    <3>. QED BY <1>1, <2>2, <2>3 DEF LInv, Lineage
  <2>5. ledger' = [v \in Token |-> ledger'[v]]
    BY DEF Extend, LInv, Lineage
  <2>. QED BY <2>4, <2>5
<1>5. /\ ledger'[u].family = ledger[t].family /\ ledger'[u].code = ledger[t].code
      /\ ~ledger'[u].spent /\ ledger'[t].spent /\ ~ledger[t].spent
      /\ \A v \in Token \ {u} : /\ ledger'[v].family = ledger[v].family
                                /\ ledger'[v].code = ledger[v].code
                                /\ ~ledger'[v].spent => ~ledger[v].spent
  <2>1. /\ ledger'[u].family = e.family /\ ledger'[u].code = e.code
        /\ ~ledger'[u].spent
    <3>. HIDE DEF e
    <3>. QED BY <1>1 DEF Entry
  <2>. QED BY <1>1, <1>2, <2>1
<1>6. Written(t) /\ ~Written(u) /\ \A v \in Token \ {u} : Written(v)' <=> Written(v)
  BY <1>1, <1>3
<1>. HIDE DEF e
<1>7. Lineage'
  <2>1. \A v \in Token : Written(v) =>
           ledger[v].family \in Token \ {u} /\ Written(ledger[v].family)
    BY <1>6 DEF LInv, Lineage
  <2>2. \A v \in Token : Written(v)' =>
           ledger'[v].family \in Token /\ Written(ledger[v].family)'
    BY <2>1, <1>5, <1>6 DEF Written
  <2>3. \A v, x \in Token :
          /\ Written(v)' /\ Written(x)'
          /\ ledger'[v].code # None /\ ledger'[v].code = ledger'[x].code
          => ledger'[v].family = ledger'[x].family
    BY <1>5, <1>6 DEF LInv, Lineage
  <2>. QED BY <1>4, <2>2, <2>3 DEF Lineage
<1>8. OneTip'
  BY <1>5, <1>6 DEF LInv, Lineage, OneTip
<1>. QED BY <1>7, <1>8 DEF LInv

LEMMA LInvNext == None \notin Token /\ LInv /\ [Next]_vars => LInv'
<1>. SUFFICES ASSUME None \notin Token, LInv, [Next]_vars
              PROVE  LInv'
  OBVIOUS
<1>1. ASSUME NEW s \in Session, Close(s)
      PROVE  LInv'
  BY <1>1 DEF Close, LInv, Lineage, OneTip, Written
<1>2. CASE UNCHANGED vars
  BY <1>2 DEF vars, LInv, Lineage, OneTip, Written
<1>. QED BY <1>1, <1>2, LInvOpen, LInvExtend DEF Next

\* Whoever implements the ledger has one exchangeable token at most for each code
\* and for each family.
THEOREM LedgerHasOneTip ==
    ASSUME None \notin Token
    PROVE  Spec => []OneTip
<1>1. LInv /\ [Next]_vars => LInv'
  BY LInvNext
<1>2. LInv => OneTip
  BY DEF LInv
<1>. QED BY <1>1, <1>2, LInvInit, PTL DEF Spec
=============================================================================
