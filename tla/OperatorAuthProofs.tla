------------------------- MODULE OperatorAuthProofs -------------------------
(***************************************************************************)
(* Proofs about OperatorAuth, for any number of callbacks, requests,       *)
(* users and restarts, and whatever emails the provider reports.           *)
(***************************************************************************)
EXTENDS OperatorAuth, TLAPS

USE AuthAssumption

-----------------------------------------------------------------------------
(* Type correctness.                                                       *)

\* Saving a row keeps the table typed and loses no row.
LEMMA SaveTyped ==
    ASSUME TypeOK, NEW o \in OperatorIds, NEW row \in Operator, SaveOperator(o, row)
    PROVE  /\ DOMAIN operators' = DOMAIN operators \cup {o}
           /\ DOMAIN operators' \subseteq OperatorIds
           /\ operators' \in [DOMAIN operators' -> Operator]
           /\ operators'[o] = row
           /\ \A x \in DOMAIN operators : x # o => operators'[x] = operators[x]
  BY DEF TypeOK, SaveOperator

LEMMA AuthTypeInit == Init => TypeOK
  <1> SUFFICES ASSUME Init PROVE TypeOK
    OBVIOUS
  <1>1. DOMAIN operators = {} /\ operators \in [DOMAIN operators -> Operator]
    BY DEF Init
  <1>2. login \in [Callbacks -> Login]
    BY DEF Init, Phases, Login
  <1>3. request \in [Requests -> Request]
    BY DEF Init, RequestPhases, Request
  <1> QED BY <1>1, <1>2, <1>3 DEF Init, TypeOK

\* What a start does to the operators.
LEMMA BootstrapSaves ==
    ASSUME TypeOK, NEW p \in Passwords, BootstrapAdmin(p)
    PROVE  \E o \in OperatorIds : \E row \in Operator :
              /\ SaveOperator(o, row)
              /\ row.email = AdminEmail /\ row.hash = p
              /\ \/ o \in DOMAIN operators /\ operators[o].email = AdminEmail
                    /\ row.subject = operators[o].subject
                 \/ o \notin DOMAIN operators /\ ByEmail(AdminEmail) = {} /\ row.subject = None
  <1>1. CASE \E o \in ByEmail(AdminEmail) : SaveOperator(o, [operators[o] EXCEPT !.hash = p])
    <2>1. PICK o \in ByEmail(AdminEmail) : SaveOperator(o, [operators[o] EXCEPT !.hash = p])
      BY <1>1
    <2>2. /\ o \in OperatorIds /\ o \in DOMAIN operators
          /\ operators[o] \in Operator /\ operators[o].email = AdminEmail
      BY DEF TypeOK, ByEmail
    <2> DEFINE row == [operators[o] EXCEPT !.hash = p]
    <2>3. /\ row \in Operator /\ row.email = AdminEmail /\ row.hash = p
          /\ row.subject = operators[o].subject
      BY <2>2 DEF Operator
    <2> QED BY <2>1, <2>2, <2>3
  <1>2. CASE /\ ByEmail(AdminEmail) = {}
             /\ \E o \in FreshIds :
                    SaveOperator(o, [email |-> AdminEmail, subject |-> None, hash |-> p])
    <2>1. PICK o \in FreshIds :
               SaveOperator(o, [email |-> AdminEmail, subject |-> None, hash |-> p])
      BY <1>2
    <2> DEFINE row == [email |-> AdminEmail, subject |-> None, hash |-> p]
    <2>2. /\ row \in Operator /\ row.email = AdminEmail /\ row.hash = p /\ row.subject = None
          /\ o \in OperatorIds /\ o \notin DOMAIN operators
      BY DEF Operator, FreshIds
    <2> QED BY <1>2, <2>1, <2>2
  <1> QED BY <1>1, <1>2 DEF BootstrapAdmin

\* What a sign-in does: it ends in a conflict, or saves the subject's row, the
\* email's, or a new one.
LEMMA UpsertSaves ==
    ASSUME TypeOK, NEW c \in Callbacks, NEW s \in Subjects, NEW e \in Emails,
           UpsertOperator(c, s, e)
    PROVE  \E o \in OperatorIds : \E row \in Operator :
              /\ Persist(c, o, row)
              /\ row.email = e /\ row.subject = s
              /\ \/ o \in DOMAIN operators /\ o \in Held(s, e) /\ row.hash = operators[o].hash
                 \/ o \notin DOMAIN operators /\ Held(s, e) = {}
  <1>1. CASE \E o \in Held(s, e) :
                Persist(c, o, [operators[o] EXCEPT !.email = e, !.subject = s])
    <2>1. PICK o \in Held(s, e) :
               Persist(c, o, [operators[o] EXCEPT !.email = e, !.subject = s])
      BY <1>1
    <2>2. /\ o \in OperatorIds /\ o \in DOMAIN operators
          /\ operators[o] \in Operator
      BY DEF TypeOK, Held, ByEmail, BySubject
    <2> DEFINE row == [operators[o] EXCEPT !.email = e, !.subject = s]
    <2>3. /\ row \in Operator /\ row.email = e /\ row.subject = s
          /\ row.hash = operators[o].hash
      BY <2>2 DEF Operator
    <2> QED BY <2>1, <2>2, <2>3
  <1>2. CASE /\ Held(s, e) = {}
             /\ \E o \in FreshIds : Persist(c, o, [email |-> e, subject |-> s, hash |-> None])
    <2>1. PICK o \in FreshIds : Persist(c, o, [email |-> e, subject |-> s, hash |-> None])
      BY <1>2
    <2> DEFINE row == [email |-> e, subject |-> s, hash |-> None]
    <2>2. /\ row \in Operator /\ row.email = e /\ row.subject = s
          /\ o \in OperatorIds /\ o \notin DOMAIN operators
      BY DEF Operator, FreshIds
    <2> QED BY <1>2, <2>1, <2>2
  <1> QED BY <1>1, <1>2 DEF UpsertOperator

\* A callback and a request move between phases.
LEMMA PhasesListed ==
    /\ {"refused", "exchange", "failed", "conflict", "session", "done", "lost"} \subseteq Phases
    /\ {"read", "lookup", "expired", "admitted", "refused", "lost"} \subseteq RequestPhases
    /\ \A pc \in Phases : Killed(pc) \in Phases /\ Killed(pc) # "session"
    /\ \A pc \in RequestPhases : Killed(pc) \in RequestPhases
  BY DEF Phases, RequestPhases, Killed

\* The conjuncts of TypeOK about the callbacks, and those about the requests.
LoginOK ==
    /\ login \in [Callbacks -> Login]
    /\ \A c \in Callbacks : login[c].pc = "session" => login[c].operator \in DOMAIN operators
RequestOK == request \in [Requests -> Request]

\* They stand as long as no row goes and neither callbacks nor requests move.
LEMMA MoreOperators ==
    ASSUME TypeOK, DOMAIN operators \subseteq DOMAIN operators'
    PROVE  /\ sessions \subseteq [token : SessionTokens, operator : DOMAIN operators',
                                  expires : Nat]
           /\ login' = login => LoginOK'
           /\ request' = request => RequestOK'
  BY DEF TypeOK, LoginOK, RequestOK, Login, Request

LEMMA LoginMoves ==
    ASSUME TypeOK, NEW c \in Callbacks, NEW pc \in Phases, NEW t \in StateTokens \cup {None},
           pc # "session", DOMAIN operators = DOMAIN operators',
           \/ login' = [login EXCEPT ![c].pc = pc]
           \/ login' = [login EXCEPT ![c].pc = pc, ![c].state = t]
    PROVE  LoginOK'
  BY DEF TypeOK, LoginOK, Login

\* ... or when the provider has named the user of one.
LEMMA UserKnown ==
    ASSUME TypeOK, NEW c \in Callbacks, NEW s \in Subjects,
           DOMAIN operators \subseteq DOMAIN operators',
           \/ login' = [login EXCEPT ![c].pc = "conflict", ![c].subject = s]
           \/ \E o \in DOMAIN operators' :
                login' = [login EXCEPT ![c].pc = "session", ![c].subject = s, ![c].operator = o]
    PROVE  LoginOK'
  <1>1. \A d \in Callbacks : login[d] \in Login'
    BY DEF TypeOK, Login
  <1>2. CASE login' = [login EXCEPT ![c].pc = "conflict", ![c].subject = s]
    <2>1. login'[c] = [login[c] EXCEPT !.pc = "conflict", !.subject = s]
      BY <1>2 DEF TypeOK
    <2>2. login'[c] \in Login'
      BY <1>1, <2>1, PhasesListed DEF Login
    <2>3. login'[c].pc = "conflict"
      BY <1>1, <2>1 DEF Login
    <2> QED BY <1>1, <1>2, <2>2, <2>3 DEF TypeOK, LoginOK
  <1>3. ASSUME NEW o \in DOMAIN operators',
               login' = [login EXCEPT ![c].pc = "session", ![c].subject = s, ![c].operator = o]
        PROVE  LoginOK'
    <2>1. login'[c] = [login[c] EXCEPT !.pc = "session", !.subject = s, !.operator = o]
      BY <1>3 DEF TypeOK
    <2>2. login'[c] \in Login'
      BY <1>1, <2>1, PhasesListed DEF Login
    <2>3. login'[c].operator = o
      BY <1>1, <2>1 DEF Login
    <2> QED BY <1>1, <1>3, <2>2, <2>3 DEF TypeOK, LoginOK
  <1> QED BY <1>2, <1>3

LEMMA RequestMoves ==
    ASSUME TypeOK, NEW r \in Requests, NEW pc \in RequestPhases, NEW o \in DOMAIN operators,
           DOMAIN operators = DOMAIN operators',
           \/ request' = [request EXCEPT ![r].pc = pc]
           \/ request' = [request EXCEPT ![r].operator = o, ![r].pc = pc]
    PROVE  RequestOK'
  BY DEF TypeOK, RequestOK, Request

\* A start, a sign-in and a protected request, step by step.
LEMMA StartTyped == TypeOK /\ Start => TypeOK'
  <1> SUFFICES ASSUME TypeOK, Start PROVE TypeOK'
    OBVIOUS
  <1>1. PICK p \in Passwords : /\ password' = p
                               /\ IF PasswordEnabled THEN BootstrapAdmin(p)
                                  ELSE UNCHANGED operators
    BY DEF Start
  <1>2. /\ DOMAIN operators \subseteq DOMAIN operators'
        /\ DOMAIN operators' \subseteq OperatorIds
        /\ operators' \in [DOMAIN operators' -> Operator]
    <2>1. CASE UNCHANGED operators
      BY <2>1 DEF TypeOK
    <2>2. CASE BootstrapAdmin(p)
      <3>1. PICK o \in OperatorIds, row \in Operator : SaveOperator(o, row)
        BY <2>2, BootstrapSaves
      <3> QED BY <3>1, SaveTyped
    <2> QED BY <1>1, <2>1, <2>2
  <1>3. LoginOK' /\ RequestOK'
    BY <1>2, MoreOperators DEF Start
  <1> QED BY <1>1, <1>2, <1>3, MoreOperators DEF Start, TypeOK, LoginOK, RequestOK, history

LEMMA CrashTyped == TypeOK /\ Crash => TypeOK'
  <1> SUFFICES ASSUME TypeOK, Crash PROVE TypeOK'
    OBVIOUS
  <1>1. /\ login' = [c \in Callbacks |-> [login[c] EXCEPT !.pc = Killed(login[c].pc)]]
        /\ request' = [r \in Requests |-> [request[r] EXCEPT !.pc = Killed(request[r].pc)]]
        /\ operators' = operators
    BY DEF Crash, tables
  <1>2. \A c \in Callbacks : login'[c] \in Login /\ login'[c].pc # "session"
    BY <1>1, PhasesListed DEF TypeOK, Login
  <1>3. \A r \in Requests : request'[r] \in Request
    BY <1>1, PhasesListed DEF TypeOK, Request
  <1>4. LoginOK' /\ RequestOK'
    BY <1>1, <1>2, <1>3 DEF LoginOK, RequestOK, Login, Request
  <1> QED BY <1>4 DEF Crash, TypeOK, LoginOK, RequestOK, tables, history

LEMMA CreateSessionTyped ==
    ASSUME TypeOK, NEW k \in FreshTokens, NEW o \in DOMAIN operators, CreateSession(k, o)
    PROVE  /\ sessions' \subseteq [token : SessionTokens, operator : DOMAIN operators,
                                   expires : Nat]
           /\ opened' \subseteq [token : SessionTokens, email : Emails, expires : Nat]
  BY DEF FreshTokens, CreateSession, TypeOK, Operator

LEMMA SignInTyped ==
    ASSUME TypeOK, NEW c \in Callbacks, SignIn(c)
    PROVE  TypeOK'
  <1>1. CASE Callback(c)
    <2>1. PICK t \in issued : PopState(c, t)
      BY <1>1 DEF Callback
    <2>2. t \in StateTokens /\ oauth' \subseteq oauth
      BY <2>1 DEF PopState, TypeOK
    <2>3. PICK pc \in {"refused", "exchange"} : Redeem(c, t, pc)
      BY <2>1 DEF PopState
    <2>4. LoginOK'
      BY <1>1, <2>2, <2>3, PhasesListed, LoginMoves DEF Callback, Redeem
    <2> QED BY <1>1, <2>2, <2>4 DEF Callback, TypeOK, LoginOK, Login, Request, history
  <1>2. CASE ProviderFails(c)
    <2>1. LoginOK'
      BY <1>2, PhasesListed, LoginMoves DEF ProviderFails, Goes, tables
    <2> QED BY <1>2, <2>1 DEF ProviderFails, TypeOK, LoginOK, Login, Request, tables, history
  <1>3. CASE Userinfo(c)
    <2>1. PICK a \in Accounts : UpsertOperator(c, a.subject, a.email)
      BY <1>3 DEF Userinfo
    <2>2. a.subject \in Subjects /\ a.email \in Emails
      OBVIOUS
    <2>3. PICK o \in OperatorIds, row \in Operator :
               Persist(c, o, row) /\ row.subject = a.subject
      BY <2>1, <2>2, UpsertSaves
    <2>4. CASE EmailTaken(o, row.email)
      <3>1. /\ login' = [login EXCEPT ![c].pc = "conflict", ![c].subject = row.subject]
            /\ UNCHANGED <<operators, loop>>
        BY <2>3, <2>4 DEF Persist
      <3>2. LoginOK'
        BY <2>2, <2>3, <3>1, UserKnown, PhasesListed DEF Login
      <3> QED BY <1>3, <3>1, <3>2 DEF Userinfo, TypeOK, LoginOK, Request, history
    <2>5. CASE ~EmailTaken(o, row.email)
      <3>1. /\ DOMAIN operators' = DOMAIN operators \cup {o}
            /\ DOMAIN operators' \subseteq OperatorIds
            /\ operators' \in [DOMAIN operators' -> Operator]
        BY <2>3, <2>5, SaveTyped DEF Persist
      <3>2. /\ login' = [login EXCEPT ![c].pc = "session", ![c].subject = row.subject,
                                      ![c].operator = o]
            /\ loop' = c
        BY <2>3, <2>5 DEF Persist
      <3>3. LoginOK'
        BY <2>2, <2>3, <3>1, <3>2, UserKnown, PhasesListed
      <3>4. RequestOK'
        BY <1>3, <3>1, MoreOperators DEF Userinfo
      <3> QED BY <1>3, <3>1, <3>2, <3>3, <3>4, MoreOperators
              DEF Userinfo, TypeOK, LoginOK, RequestOK, history
    <2> QED BY <2>4, <2>5
  <1>4. CASE OpenSession(c)
    <2>1. login[c].operator \in DOMAIN operators
      BY <1>4 DEF OpenSession, TypeOK
    <2>2. LoginOK'
      BY <1>4, PhasesListed, LoginMoves DEF OpenSession, Goes
    <2>3. PICK k \in FreshTokens : CreateSession(k, login[c].operator)
      BY <1>4 DEF OpenSession
    <2> QED BY <1>4, <2>1, <2>2, <2>3, CreateSessionTyped
            DEF OpenSession, TypeOK, LoginOK, Request
  <1> QED BY <1>1, <1>2, <1>3, <1>4 DEF SignIn

LEMMA GuardTyped ==
    ASSUME TypeOK, NEW r \in Requests, Guard(r)
    PROVE  TypeOK'
  <1>1. RequestOK'
    <2>1. CASE Arrive(r)
      BY <2>1, PhasesListed DEF Arrive, TypeOK, RequestOK, Request, tables
    <2>2. CASE ReadSession(r)
      <3>1. CASE RequestGoes(r, "refused")
        BY <2>2, <3>1, PhasesListed DEF ReadSession, RequestGoes, TypeOK, RequestOK, Request, tables
      <3>2. ASSUME NEW s \in sessions, NEW pc \in {"expired", "lookup"},
                   request' = [request EXCEPT ![r].operator = s.operator, ![r].pc = pc]
            PROVE  RequestOK'
        <4>1. s.operator \in DOMAIN operators
          BY DEF TypeOK
        <4> QED BY <2>2, <3>2, <4>1, PhasesListed, RequestMoves DEF ReadSession, tables
      <3> QED BY <2>2, <3>1, <3>2 DEF ReadSession
    <2>3. CASE DropExpired(r)
      BY <2>3, PhasesListed DEF DropExpired, RequestGoes, TypeOK, RequestOK, Request
    <2>4. CASE ReadOperator(r)
      BY <2>4, PhasesListed DEF ReadOperator, RequestGoes, TypeOK, RequestOK, Request, tables
    <2> QED BY <2>1, <2>2, <2>3, <2>4 DEF Guard
  <1>2. LoginOK'
    BY MoreOperators DEF Guard, Arrive, ReadSession, DropExpired, ReadOperator, tables
  <1>3. sessions' \subseteq sessions
    BY DEF Guard, Arrive, ReadSession, DropExpired, ReadOperator, tables
  <1> QED BY <1>1, <1>2, <1>3
          DEF Guard, Arrive, ReadSession, DropExpired, ReadOperator, TypeOK, LoginOK,
              RequestOK, tables, history

LEMMA AuthTypeStep == TypeOK /\ [Next]_vars => TypeOK'
  <1> SUFFICES ASSUME TypeOK, [Next]_vars PROVE TypeOK'
    OBVIOUS
  <1>1. CASE Tick
    BY <1>1 DEF Tick, TypeOK, Login, Request, tables, history
  <1>2. CASE BeginOidcLogin
    BY <1>2 DEF BeginOidcLogin, TypeOK, Login, Request
  <1>3. CASE PasswordLogin
    <2>1. PICK k \in FreshTokens, o \in DOMAIN operators : CreateSession(k, o)
      BY <1>3 DEF PasswordLogin, ByEmail
    <2> QED BY <1>3, <2>1, CreateSessionTyped DEF PasswordLogin, TypeOK, Login, Request
  <1>4. CASE Logout
    BY <1>4 DEF Logout, TypeOK, Login, Request
  <1>5. CASE UNCHANGED vars
    BY <1>5 DEF vars, TypeOK, Login, Request, tables, history
  <1> QED BY <1>1, <1>2, <1>3, <1>4, <1>5, StartTyped, CrashTyped, SignInTyped, GuardTyped
          DEF Next

\* Every table and every handler keeps its types: TypeOK, whatever the
\* interleaving of callbacks, requests, starts and crashes (core/security/auth.py).
THEOREM AuthTypeCorrect == Spec => []TypeOK
  BY AuthTypeInit, AuthTypeStep, PTL DEF Spec

-----------------------------------------------------------------------------
(* The operator table.  Inductive: emails are unique, so are subjects, and *)
(* the provider has reported every subject with the email of its row.      *)
UniqueEmails ==
    \A o, p \in DOMAIN operators : operators[o].email = operators[p].email => o = p

RowsReported ==
    \A o \in DOMAIN operators : operators[o].subject \in Subjects =>
        [subject |-> operators[o].subject, email |-> operators[o].email] \in Accounts

OperatorsInv ==
    TypeOK /\ UniqueEmails /\ OneOperatorPerSubject /\ RowsReported /\ LoginsDoNotConflict

LEMMA OperatorsInit == Init => OperatorsInv
  <1> SUFFICES ASSUME Init PROVE OperatorsInv
    OBVIOUS
  <1>1. DOMAIN operators = {}
    BY DEF Init
  <1>2. \A c \in Callbacks : login[c].pc # "conflict"
    BY DEF Init
  <1> QED BY <1>1, <1>2, AuthTypeInit
          DEF OperatorsInv, UniqueEmails, OneOperatorPerSubject, RowsReported, LoginsDoNotConflict

\* What a sign-in of s as e finds: at most one row, and one that has the email
\* already if s always reports it, or if whoever reports the row's email does.
LEMMA HeldRow ==
    ASSUME OperatorsInv, NEW s \in Subjects, NEW e \in Emails, NEW o \in Held(s, e),
           [subject |-> s, email |-> e] \in Accounts
    PROVE  /\ o \in DOMAIN operators
           /\ Stable(s) \/ Settled(operators[o].email) => operators[o].email = e
           /\ \A p \in DOMAIN operators : operators[p].subject = s => p = o
  <1>1. o \in DOMAIN operators
    BY DEF Held, ByEmail, BySubject
  <1>2. CASE BySubject(s) # {}
    <2>1. operators[o].subject = s
      BY <1>2 DEF Held, BySubject
    <2>2. [subject |-> s, email |-> operators[o].email] \in Accounts
      BY <1>1, <2>1 DEF OperatorsInv, RowsReported
    <2>3. Stable(s) => operators[o].email = e
      BY <2>2 DEF Stable
    <2>4. Settled(operators[o].email) => Stable(s)
      BY <2>2 DEF Settled
    <2> QED BY <1>1, <2>1, <2>3, <2>4 DEF OperatorsInv, OneOperatorPerSubject
  <1>3. CASE BySubject(s) = {}
    BY <1>1, <1>3 DEF Held, ByEmail, BySubject
  <1> QED BY <1>2, <1>3

\* A sign-in whose email is taken names a user who has changed emails.
LEMMA ConflictMoved ==
    ASSUME OperatorsInv, NEW s \in Subjects, NEW e \in Emails, NEW o \in OperatorIds,
           [subject |-> s, email |-> e] \in Accounts,
           \/ o \in Held(s, e)
           \/ Held(s, e) = {},
           EmailTaken(o, e)
    PROVE  ~Stable(s)
  <1> SUFFICES ASSUME Stable(s) PROVE FALSE
    OBVIOUS
  <1>1. PICK p \in DOMAIN operators : operators[p].email = e /\ p # o
    BY DEF EmailTaken, ByEmail
  <1>2. CASE o \in Held(s, e)
    <2>1. o \in DOMAIN operators /\ operators[o].email = e
      BY <1>2, HeldRow
    <2> QED BY <1>1, <2>1 DEF OperatorsInv, UniqueEmails
  <1>3. CASE Held(s, e) = {}
    BY <1>1, <1>3 DEF Held, ByEmail
  <1> QED BY <1>2, <1>3

\* Saving the row of a sign-in, or of a start, keeps the table's invariant.
LEMMA SaveKeepsTable ==
    ASSUME OperatorsInv, NEW o \in OperatorIds, NEW row \in Operator, SaveOperator(o, row),
           ~EmailTaken(o, row.email),
           row.subject \in Subjects =>
               /\ [subject |-> row.subject, email |-> row.email] \in Accounts
               /\ \A p \in DOMAIN operators : operators[p].subject = row.subject => p = o
    PROVE  UniqueEmails' /\ OneOperatorPerSubject' /\ RowsReported'
  <1>1. /\ DOMAIN operators' = DOMAIN operators \cup {o}
        /\ operators'[o] = row
        /\ \A x \in DOMAIN operators : x # o => operators'[x] = operators[x]
    BY SaveTyped DEF OperatorsInv
  <1>2. UniqueEmails'
    BY <1>1 DEF UniqueEmails, OperatorsInv, EmailTaken, ByEmail
  <1>3. OneOperatorPerSubject'
    BY <1>1 DEF OneOperatorPerSubject, OperatorsInv
  <1>4. RowsReported'
    BY <1>1 DEF RowsReported, OperatorsInv
  <1> QED BY <1>2, <1>3, <1>4

\* The steps that leave the operators alone report no conflict.
LEMMA OtherSteps ==
    ASSUME OperatorsInv, [Next]_vars, ~Start, \A c \in Callbacks : ~Userinfo(c)
    PROVE  /\ operators' = operators
           /\ \A c \in Callbacks : login'[c].pc = "conflict" =>
                  login[c].pc = "conflict" /\ login'[c].subject = login[c].subject
  <1> USE DEF OperatorsInv, TypeOK, Login
  <1>1. CASE Crash
    BY <1>1 DEF Crash, Killed, tables
  <1>2. CASE \E c \in Callbacks : Callback(c)
    <2>1. PICK c \in Callbacks, t \in issued : Callback(c) /\ PopState(c, t)
      BY <1>2 DEF Callback
    <2>2. PICK pc \in {"refused", "exchange"} : Redeem(c, t, pc)
      BY <2>1 DEF PopState
    <2> QED BY <2>1, <2>2 DEF Callback, Redeem
  <1>3. CASE \E c \in Callbacks : ProviderFails(c) \/ OpenSession(c)
    BY <1>3 DEF ProviderFails, OpenSession, Goes, tables
  <1>4. CASE UNCHANGED <<operators, login>>
    BY <1>4
  <1> QED BY <1>1, <1>2, <1>3, <1>4
          DEF Next, SignIn, Guard, Tick, BeginOidcLogin, PasswordLogin, Logout, Arrive,
              ReadSession, DropExpired, ReadOperator, vars, tables

\* A sign-in, as the invariants need it: either it ends in a conflict, or one
\* row is saved that keeps its password and, once settled, its email.
LEMMA UserinfoEffect ==
    ASSUME OperatorsInv, NEW c \in Callbacks, Userinfo(c)
    PROVE  \/ /\ operators' = operators
              /\ \E s \in Subjects : ~Stable(s) /\
                     login' = [login EXCEPT ![c].pc = "conflict", ![c].subject = s]
           \/ /\ UniqueEmails' /\ OneOperatorPerSubject' /\ RowsReported'
              /\ \A d \in Callbacks : login'[d].pc = "conflict" =>
                     login[d].pc = "conflict" /\ login'[d].subject = login[d].subject
              /\ DOMAIN operators \subseteq DOMAIN operators'
              /\ \A o \in DOMAIN operators :
                     /\ operators'[o].hash = operators[o].hash
                     /\ Settled(operators[o].email) => operators'[o].email = operators[o].email
  <1>1. PICK a \in Accounts : UpsertOperator(c, a.subject, a.email)
    BY DEF Userinfo
  <1> DEFINE s == a.subject
             e == a.email
  <1>2. s \in Subjects /\ e \in Emails /\ [subject |-> s, email |-> e] \in Accounts
    OBVIOUS
  <1> HIDE DEF s, e
  <1>3. UpsertOperator(c, s, e)
    BY <1>1 DEF s, e
  <1>4. PICK o \in OperatorIds, row \in Operator :
              /\ Persist(c, o, row)
              /\ row.email = e /\ row.subject = s
              /\ \/ o \in DOMAIN operators /\ o \in Held(s, e) /\ row.hash = operators[o].hash
                 \/ o \notin DOMAIN operators /\ Held(s, e) = {}
    BY <1>2, <1>3, UpsertSaves DEF OperatorsInv
  <1>5. CASE EmailTaken(o, row.email)
    BY <1>2, <1>4, <1>5, ConflictMoved DEF Persist
  <1>6. CASE ~EmailTaken(o, row.email)
    <2>1. /\ SaveOperator(o, row)
          /\ login' = [login EXCEPT ![c].pc = "session", ![c].subject = row.subject,
                                    ![c].operator = o]
      BY <1>4, <1>6 DEF Persist
    <2>2. \A p \in DOMAIN operators : operators[p].subject = s => p = o
      <3>1. CASE o \in Held(s, e)
        BY <1>2, <3>1, HeldRow
      <3>2. CASE Held(s, e) = {}
        BY <3>2 DEF Held, BySubject
      <3> QED BY <1>4, <3>1, <3>2
    <2>3. UniqueEmails' /\ OneOperatorPerSubject' /\ RowsReported'
      BY <1>2, <1>4, <1>6, <2>1, <2>2, SaveKeepsTable
    <2>4. /\ DOMAIN operators \subseteq DOMAIN operators' /\ operators'[o] = row
          /\ \A x \in DOMAIN operators : x # o => operators'[x] = operators[x]
      BY <2>1, SaveTyped DEF OperatorsInv
    <2>5. o \in DOMAIN operators => /\ row.hash = operators[o].hash
                                    /\ Settled(operators[o].email) => row.email = operators[o].email
      BY <1>2, <1>4, HeldRow
    <2>6. \A d \in Callbacks : login'[d].pc = "conflict" =>
              login[d].pc = "conflict" /\ login'[d].subject = login[d].subject
      BY <2>1 DEF OperatorsInv, TypeOK, Login
    <2> QED BY <2>3, <2>4, <2>5, <2>6
  <1> QED BY <1>5, <1>6

\* A start saves the admin's row with the configured password, and no other.
LEMMA StartEffect ==
    ASSUME OperatorsInv, Start
    PROVE  /\ UniqueEmails' /\ OneOperatorPerSubject' /\ RowsReported'
           /\ DOMAIN operators \subseteq DOMAIN operators'
           /\ \A o \in DOMAIN operators : operators'[o].email = operators[o].email
           /\ PasswordEnabled => \E o \in DOMAIN operators' :
                  operators'[o].email = AdminEmail /\ operators'[o].hash = password'
  <1>1. PICK p \in Passwords : /\ password' = p
                               /\ IF PasswordEnabled THEN BootstrapAdmin(p)
                                  ELSE UNCHANGED operators
    BY DEF Start
  <1>2. CASE ~PasswordEnabled
    BY <1>1, <1>2 DEF OperatorsInv, UniqueEmails, OneOperatorPerSubject, RowsReported
  <1>3. CASE PasswordEnabled
    <2>1. PICK o \in OperatorIds, row \in Operator :
              /\ SaveOperator(o, row)
              /\ row.email = AdminEmail /\ row.hash = p
              /\ \/ o \in DOMAIN operators /\ operators[o].email = AdminEmail
                    /\ row.subject = operators[o].subject
                 \/ o \notin DOMAIN operators /\ ByEmail(AdminEmail) = {} /\ row.subject = None
      BY <1>1, <1>3, BootstrapSaves DEF OperatorsInv
    <2>2. ~EmailTaken(o, row.email)
      BY <2>1 DEF EmailTaken, ByEmail, OperatorsInv, UniqueEmails
    <2>3. row.subject \in Subjects =>
              /\ [subject |-> row.subject, email |-> row.email] \in Accounts
              /\ \A q \in DOMAIN operators : operators[q].subject = row.subject => q = o
      BY <2>1 DEF OperatorsInv, RowsReported, OneOperatorPerSubject
    <2>4. UniqueEmails' /\ OneOperatorPerSubject' /\ RowsReported'
      BY <2>1, <2>2, <2>3, SaveKeepsTable
    <2>5. /\ DOMAIN operators' = DOMAIN operators \cup {o} /\ operators'[o] = row
          /\ \A x \in DOMAIN operators : x # o => operators'[x] = operators[x]
      BY <2>1, SaveTyped DEF OperatorsInv
    <2> QED BY <1>1, <2>1, <2>4, <2>5
  <1> QED BY <1>2, <1>3

LEMMA OperatorsStep == OperatorsInv /\ [Next]_vars => OperatorsInv'
  <1> SUFFICES ASSUME OperatorsInv, [Next]_vars PROVE OperatorsInv'
    OBVIOUS
  <1>1. TypeOK'
    BY AuthTypeStep DEF OperatorsInv
  <1>2. CASE Start
    <2>1. login' = login
      BY <1>2 DEF Start
    <2> QED BY <1>1, <1>2, <2>1, StartEffect DEF OperatorsInv, LoginsDoNotConflict, Stable
  <1>3. ASSUME NEW c \in Callbacks, Userinfo(c)
        PROVE  OperatorsInv'
    <2>1. ASSUME operators' = operators, NEW s \in Subjects, ~Stable(s),
                 login' = [login EXCEPT ![c].pc = "conflict", ![c].subject = s]
          PROVE  OperatorsInv'
      <3>1. LoginsDoNotConflict'
        BY <2>1 DEF LoginsDoNotConflict, OperatorsInv, TypeOK, Login
      <3> QED BY <1>1, <2>1, <3>1
              DEF OperatorsInv, UniqueEmails, OneOperatorPerSubject, RowsReported
    <2>2. CASE /\ UniqueEmails' /\ OneOperatorPerSubject' /\ RowsReported'
               /\ \A d \in Callbacks : login'[d].pc = "conflict" =>
                      login[d].pc = "conflict" /\ login'[d].subject = login[d].subject
      BY <1>1, <2>2 DEF OperatorsInv, LoginsDoNotConflict
    <2> QED BY <1>3, <2>1, <2>2, UserinfoEffect
  <1>4. CASE ~Start /\ \A c \in Callbacks : ~Userinfo(c)
    BY <1>1, <1>4, OtherSteps
       DEF OperatorsInv, UniqueEmails, OneOperatorPerSubject, RowsReported, LoginsDoNotConflict
  <1> QED BY <1>2, <1>3, <1>4

\* _upsert_oidc_operator gives no subject two operators, though nothing in the
\* database forbids it and users change emails between their sign-ins.
THEOREM SubjectsHaveOneOperator == Spec => []OneOperatorPerSubject
  <1>1. OperatorsInv => OneOperatorPerSubject
    BY DEF OperatorsInv
  <1> QED BY <1>1, OperatorsInit, OperatorsStep, PTL DEF Spec

\* The unique email of the operator table fails no sign-in of a user whom the
\* provider always reports with the same email.
THEOREM StableLoginsSucceed == Spec => []LoginsDoNotConflict
  <1>1. OperatorsInv => LoginsDoNotConflict
    BY DEF OperatorsInv
  <1> QED BY <1>1, OperatorsInit, OperatorsStep, PTL DEF Spec

\* bootstrap_password_admin: the configured admin can sign in with the password
\* for as long as the process serves, if whoever the provider reports with the
\* admin's email keeps it.
THEOREM AdminKeepsAccess ==
    ASSUME Settled(AdminEmail)
    PROVE  Spec => []AdminPasswordWorks
  <1>1. Init => AdminPasswordWorks
    BY DEF Init, AdminPasswordWorks
  <1>2. OperatorsInv /\ AdminPasswordWorks /\ [Next]_vars => AdminPasswordWorks'
    <2> SUFFICES ASSUME OperatorsInv, AdminPasswordWorks, [Next]_vars, up', PasswordEnabled
                 PROVE  \E o \in DOMAIN operators' :
                            operators'[o].email = AdminEmail /\ operators'[o].hash = password'
      BY DEF AdminPasswordWorks
    <2>1. CASE Start
      BY <2>1, StartEffect
    <2>2. CASE ~Start
      <3>1. up /\ password' = password
        BY <2>2 DEF Next, SignIn, Guard, Crash, Tick, BeginOidcLogin, PasswordLogin, Logout,
                    Callback, ProviderFails, Userinfo, OpenSession, Arrive, ReadSession,
                    DropExpired, ReadOperator, vars
      <3>2. PICK o \in DOMAIN operators :
                 operators[o].email = AdminEmail /\ operators[o].hash = password
        BY <3>1 DEF AdminPasswordWorks
      <3>3. CASE \E c \in Callbacks : Userinfo(c)
        BY <3>1, <3>2, <3>3, UserinfoEffect
      <3>4. CASE \A c \in Callbacks : ~Userinfo(c)
        BY <2>2, <3>1, <3>2, <3>4, OtherSteps
      <3> QED BY <3>3, <3>4
    <2> QED BY <2>1, <2>2
  <1> QED BY <1>1, <1>2, OperatorsInit, OperatorsStep, PTL DEF Spec

-----------------------------------------------------------------------------
(* The states of sign-ins.  Inductive: a state in the table is no          *)
(* callback's that went on with it.                                        *)
StatesInv ==
    /\ TypeOK
    /\ StateUsedOnce
    /\ \A s \in oauth : s.token \in issued
    /\ \A s, t \in oauth : s.token = t.token => s = t
    /\ \A c \in Callbacks : Redeemed(c) =>
          login[c].state \in issued /\ \A s \in oauth : s.token # login[c].state

LEMMA StatesInit == Init => StatesInv
  BY AuthTypeInit DEF Init, StatesInv, StateUsedOnce, Redeemed

\* Where a callback goes when the provider names its user.
LEMMA UserinfoLogin ==
    ASSUME NEW c \in Callbacks, Userinfo(c)
    PROVE  /\ login[c].pc = "exchange"
           /\ \E s, o : \/ login' = [login EXCEPT ![c].pc = "conflict", ![c].subject = s]
                       \/ login' = [login EXCEPT ![c].pc = "session", ![c].subject = s,
                                                 ![c].operator = o]
  BY DEF Userinfo, UpsertOperator, Persist

\* Only the callback itself redeems a state.
LEMMA OthersRedeemNothing ==
    ASSUME TypeOK, [Next]_vars, NEW c \in Callbacks, ~Callback(c)
    PROVE  Redeemed(c)' <=> Redeemed(c)
  <1> USE DEF TypeOK, Login
  <1>1. CASE Crash
    BY <1>1 DEF Crash, Killed, Redeemed
  <1>2. CASE \E d \in Callbacks : d # c /\ Callback(d)
    BY <1>2 DEF Callback, PopState, Redeem, Redeemed
  <1>3. CASE \E d \in Callbacks : ProviderFails(d) \/ OpenSession(d)
    BY <1>3 DEF ProviderFails, OpenSession, Goes, Redeemed
  <1>4. CASE \E d \in Callbacks : Userinfo(d)
    <2>1. PICK d \in Callbacks : Userinfo(d)
      BY <1>4
    <2>2. /\ login[d].pc = "exchange"
          /\ \E s, o : \/ login' = [login EXCEPT ![d].pc = "conflict", ![d].subject = s]
                      \/ login' = [login EXCEPT ![d].pc = "session", ![d].subject = s,
                                                ![d].operator = o]
      BY <2>1, UserinfoLogin
    <2>3. \/ login'[c] = login[c]
          \/ /\ login[c].pc = "exchange" /\ login'[c].pc \in {"conflict", "session"}
             /\ login'[c].state = login[c].state
      BY <2>2
    <2> QED BY <2>3 DEF Redeemed
  <1>5. CASE UNCHANGED login
    BY <1>5 DEF Redeemed
  <1> QED BY <1>1, <1>2, <1>3, <1>4, <1>5
          DEF Next, SignIn, Guard, Start, Tick, BeginOidcLogin, PasswordLogin, Logout, Arrive,
              ReadSession, DropExpired, ReadOperator, vars

\* ... and its state stays what it was.
LEMMA OthersKeepStates ==
    ASSUME TypeOK, [Next]_vars, NEW c \in Callbacks, ~Callback(c)
    PROVE  login'[c].state = login[c].state
  <1> USE DEF TypeOK, Login
  <1>1. CASE Crash
    BY <1>1 DEF Crash
  <1>2. CASE \E d \in Callbacks : d # c /\ Callback(d)
    BY <1>2 DEF Callback, PopState, Redeem
  <1>3. CASE \E d \in Callbacks : ProviderFails(d) \/ OpenSession(d)
    BY <1>3 DEF ProviderFails, OpenSession, Goes
  <1>4. CASE \E d \in Callbacks : Userinfo(d)
    <2>1. PICK d \in Callbacks : Userinfo(d)
      BY <1>4
    <2>2. /\ login[d].pc = "exchange"
          /\ \E s, o : \/ login' = [login EXCEPT ![d].pc = "conflict", ![d].subject = s]
                      \/ login' = [login EXCEPT ![d].pc = "session", ![d].subject = s,
                                                ![d].operator = o]
      BY <2>1, UserinfoLogin
    <2>3. \/ login'[c] = login[c]
          \/ /\ login[c].pc = "exchange" /\ login'[c].pc \in {"conflict", "session"}
             /\ login'[c].state = login[c].state
      BY <2>2
    <2> QED BY <2>3
  <1>5. CASE UNCHANGED login
    BY <1>5
  <1> QED BY <1>1, <1>2, <1>3, <1>4, <1>5
          DEF Next, SignIn, Guard, Start, Tick, BeginOidcLogin, PasswordLogin, Logout, Arrive,
              ReadSession, DropExpired, ReadOperator, vars

LEMMA StatesStep == StatesInv /\ [Next]_vars => StatesInv'
  <1> SUFFICES ASSUME StatesInv, [Next]_vars PROVE StatesInv'
    OBVIOUS
  <1>1. TypeOK /\ TypeOK'
    BY AuthTypeStep DEF StatesInv
  <1>2. CASE \E c \in Callbacks : Callback(c)
    <2>1. PICK c \in Callbacks : Callback(c)
      BY <1>2
    <2>2. PICK t \in issued : PopState(c, t)
      BY <2>1 DEF Callback
    <2>3. issued' = issued
      BY <2>1 DEF Callback, history
    <2>4. \A d \in Callbacks : d # c =>
              (Redeemed(d)' <=> Redeemed(d)) /\ login'[d].state = login[d].state
      BY <2>1, <2>2 DEF PopState, Redeem, Redeemed, TypeOK, StatesInv
    <2>5. CASE \E s \in oauth : s.token = t /\ oauth' = oauth \ {s}
      <3>1. PICK s \in oauth : s.token = t /\ oauth' = oauth \ {s}
        BY <2>5
      <3>2. login'[c].state = t
        <4>1. PICK pc : Redeem(c, t, pc)
          BY <2>2 DEF PopState
        <4> QED BY <1>1, <4>1 DEF Redeem, TypeOK, Login
      <3>3. \A x \in oauth' : x.token # t
        BY <3>1 DEF StatesInv
      <3>4. \A d \in Callbacks : d # c /\ Redeemed(d) => login[d].state # t
        BY <3>1 DEF StatesInv
      <3>5. StateUsedOnce'
        BY <2>4, <3>2, <3>4 DEF StatesInv, StateUsedOnce
      <3> QED BY <1>1, <2>3, <2>4, <3>1, <3>2, <3>3, <3>5 DEF StatesInv
    <2>6. CASE Redeem(c, t, "refused") /\ UNCHANGED oauth
      <3>1. ~Redeemed(c)'
        BY <1>1, <2>6 DEF Redeem, Redeemed, TypeOK, Login
      <3>2. StateUsedOnce'
        BY <2>4, <3>1 DEF StatesInv, StateUsedOnce
      <3> QED BY <1>1, <2>3, <2>4, <2>6, <3>1, <3>2 DEF StatesInv
    <2> QED BY <2>2, <2>5, <2>6 DEF PopState
  <1>3. CASE \A c \in Callbacks : ~Callback(c)
    <2>1. \A c \in Callbacks : /\ Redeemed(c)' <=> Redeemed(c)
                               /\ login'[c].state = login[c].state
      BY <1>1, <1>3, OthersRedeemNothing, OthersKeepStates
    <2>2. StateUsedOnce'
      BY <2>1 DEF StatesInv, StateUsedOnce
    <2>3. CASE BeginOidcLogin
      <3>1. PICK t \in StateTokens \ issued :
                /\ oauth' = oauth \cup {[token |-> t, expires |-> now + StateTtl]}
                /\ issued' = issued \cup {t}
        BY <2>3 DEF BeginOidcLogin
      <3> QED BY <1>1, <2>1, <2>2, <3>1 DEF StatesInv
    <2>4. CASE UNCHANGED <<oauth, issued>>
      BY <1>1, <2>1, <2>2, <2>4 DEF StatesInv
    <2> QED BY <1>3, <2>3, <2>4
            DEF Next, SignIn, Guard, Start, Crash, Tick, PasswordLogin, Logout, ProviderFails,
                Userinfo, OpenSession, Arrive, ReadSession, DropExpired, ReadOperator, vars,
                tables, history
  <1> QED BY <1>2, <1>3

\* complete_oidc_login: one state takes at most one callback to the exchange of
\* its code, over all overlaps and restarts.
THEOREM StatesAreUsedOnce == Spec => []StateUsedOnce
  <1>1. StatesInv => StateUsedOnce
    BY DEF StatesInv
  <1> QED BY <1>1, StatesInit, StatesStep, PTL DEF Spec

-----------------------------------------------------------------------------
(* Sessions.  Inductive: a session in the table is the one opened under    *)
(* its token, and not signed out; a late request's session is dead.        *)
SessionsMatch ==
    /\ \A s \in sessions : s.token \notin ended
    /\ \A s \in sessions : \E x \in opened : x.token = s.token /\ x.expires = s.expires
    /\ \A x, y \in opened : x.token = y.token => x = y

Dead(k) == \E x \in opened : x.token = k /\ (k \in ended \/ x.expires < now)

EndedOpened == \A k \in ended : \E x \in opened : x.token = k

LateIsDead ==
    \A r \in Requests : request[r].late =>
        request[r].pc \notin {"lookup", "admitted"} /\ Dead(request[r].token)

SessionsInv == TypeOK /\ SessionsMatch /\ EndedOpened /\ LateIsDead

LEMMA SessionsInit == Init => SessionsInv
  BY AuthTypeInit DEF Init, SessionsInv, SessionsMatch, EndedOpened, LateIsDead

\* The dead stay dead.
LEMMA DeadStays ==
    ASSUME TypeOK, NEW k, Dead(k), opened \subseteq opened', ended \subseteq ended',
           now' = now \/ now' = now + 1
    PROVE  Dead(k)'
  BY DEF Dead, TypeOK

\* A step that leaves the requests alone, and at most opens or drops sessions.
LEMMA RequestsUntouched ==
    ASSUME SessionsInv, SessionsMatch', EndedOpened', TypeOK', request' = request,
           opened \subseteq opened', ended \subseteq ended', now' = now \/ now' = now + 1
    PROVE  SessionsInv'
  BY DeadStays DEF SessionsInv, LateIsDead

LEMMA CreateSessionMatches ==
    ASSUME SessionsInv, NEW k \in FreshTokens, NEW o \in DOMAIN operators,
           CreateSession(k, o), ended' = ended
    PROVE  SessionsMatch' /\ EndedOpened' /\ opened \subseteq opened'
  <1>1. \A x \in opened : x.token # k
    BY DEF FreshTokens
  <1>2. k \notin ended
    BY <1>1 DEF SessionsInv, EndedOpened
  <1>3. \A s \in sessions : s.token # k
    BY <1>1 DEF SessionsInv, SessionsMatch
  <1> DEFINE s0 == [token |-> k, operator |-> o, expires |-> now + SessionTtl]
             x0 == [token |-> k, email |-> operators[o].email, expires |-> now + SessionTtl]
  <1>4. sessions' = sessions \cup {s0} /\ opened' = opened \cup {x0}
    BY DEF CreateSession
  <1>5. x0.token = k /\ s0.token = k /\ x0.expires = s0.expires
    OBVIOUS
  <1> HIDE DEF s0, x0
  <1>6. SessionsMatch'
    BY <1>1, <1>2, <1>4, <1>5 DEF SessionsInv, SessionsMatch
  <1> QED BY <1>4, <1>6 DEF SessionsInv, EndedOpened

LEMMA SessionsStep == SessionsInv /\ [Next]_vars => SessionsInv'
  <1> SUFFICES ASSUME SessionsInv, [Next]_vars PROVE SessionsInv'
    OBVIOUS
  <1>1. TypeOK /\ TypeOK'
    BY AuthTypeStep DEF SessionsInv
  <1>2. CASE PasswordLogin
    <2>1. PICK k \in FreshTokens, o \in DOMAIN operators : CreateSession(k, o)
      BY <1>2 DEF PasswordLogin, ByEmail
    <2> QED BY <1>1, <1>2, <2>1, CreateSessionMatches, RequestsUntouched DEF PasswordLogin
  <1>3. CASE \E c \in Callbacks : OpenSession(c)
    <2>1. PICK c \in Callbacks : OpenSession(c)
      BY <1>3
    <2>2. login[c].operator \in DOMAIN operators
      BY <1>1, <2>1 DEF OpenSession, TypeOK
    <2>3. PICK k \in FreshTokens : CreateSession(k, login[c].operator)
      BY <2>1 DEF OpenSession
    <2> QED BY <1>1, <2>1, <2>2, <2>3, CreateSessionMatches, RequestsUntouched DEF OpenSession
  <1>4. CASE Logout
    <2>1. SessionsMatch' /\ EndedOpened'
      BY <1>4 DEF Logout, SessionsInv, SessionsMatch, EndedOpened
    <2> QED BY <1>1, <1>4, <2>1, RequestsUntouched DEF Logout
  <1>5. CASE UNCHANGED <<request, sessions, opened, ended>> /\ (now' = now \/ now' = now + 1)
    BY <1>1, <1>5, RequestsUntouched DEF SessionsInv, SessionsMatch, EndedOpened
  <1>6. ASSUME \A r \in Requests :
                   \/ request'[r] = request[r]
                   \/ request'[r].late => /\ request'[r].pc \notin {"lookup", "admitted"}
                                          /\ Dead(request'[r].token),
               sessions' \subseteq sessions, UNCHANGED <<opened, ended, now>>
        PROVE  SessionsInv'
    <2>1. \A k : Dead(k)' <=> Dead(k)
      BY <1>6 DEF Dead
    <2>2. LateIsDead'
      BY <1>6, <2>1 DEF SessionsInv, LateIsDead
    <2> QED BY <1>1, <1>6, <2>2 DEF SessionsInv, SessionsMatch, EndedOpened
  <1>7. CASE Crash
    <2>1. \A r \in Requests : /\ request'[r].late = request[r].late
                              /\ request'[r].token = request[r].token
                              /\ request'[r].pc \in {request[r].pc, "lost"}
      BY <1>1, <1>7 DEF Crash, Killed, TypeOK, Request
    <2>2. \A r \in Requests : request'[r].late =>
              request'[r].pc \notin {"lookup", "admitted"} /\ Dead(request'[r].token)
      BY <2>1 DEF SessionsInv, LateIsDead
    <2> QED BY <1>6, <1>7, <2>2 DEF Crash, tables, history
  <1>8. ASSUME NEW r \in Requests, Guard(r)
        PROVE  SessionsInv'
    <2>1. \A q \in Requests : q # r => request'[q] = request[q]
      BY <1>1, <1>8
         DEF Guard, Arrive, ReadSession, DropExpired, ReadOperator, RequestGoes, TypeOK
    <2>2. sessions' \subseteq sessions /\ UNCHANGED <<opened, ended, now>>
      BY <1>8 DEF Guard, Arrive, ReadSession, DropExpired, ReadOperator, tables, history
    <2>3. SUFFICES ASSUME request'[r].late
                   PROVE  /\ request'[r].pc \notin {"lookup", "admitted"}
                          /\ Dead(request'[r].token)
      BY <1>6, <2>1, <2>2
    <2>4. CASE Arrive(r)
      <3>1. PICK x \in opened : request' = [request EXCEPT ![r] =
                [pc |-> "read", token |-> x.token, operator |-> None,
                 late |-> x.token \in ended \/ x.expires < now]]
        BY <2>4 DEF Arrive
      <3>2. request'[r] = [pc |-> "read", token |-> x.token, operator |-> None,
                           late |-> x.token \in ended \/ x.expires < now]
        BY <1>1, <3>1 DEF TypeOK
      <3> DEFINE late == x.token \in ended \/ x.expires < now
      <3> HIDE DEF late
      <3>3. request'[r] = [pc |-> "read", token |-> x.token, operator |-> None, late |-> late]
        BY <3>2 DEF late
      <3>4. /\ request'[r].pc = "read" /\ request'[r].token = x.token
            /\ request'[r].late = late
        BY <3>3
      <3>5. late
        BY <2>3, <3>4
      <3> QED BY <3>4, <3>5 DEF Dead, late
    <2>5. ASSUME ~Arrive(r)
          PROVE  request[r].late /\ request'[r].token = request[r].token
      <3>1. \E pc, o : \/ request' = [request EXCEPT ![r].pc = pc]
                      \/ request' = [request EXCEPT ![r].operator = o, ![r].pc = pc]
        BY <1>8, <2>5 DEF Guard, ReadSession, DropExpired, ReadOperator, RequestGoes
      <3> QED BY <1>1, <2>3, <3>1 DEF TypeOK, Request
    <2>6. CASE ~Arrive(r)
      <3>1. request[r].pc \notin {"lookup", "admitted"} /\ Dead(request[r].token)
        BY <2>5, <2>6 DEF SessionsInv, LateIsDead
      <3>2. \A s \in sessions : s.token = request[r].token => s.expires < now
        BY <3>1 DEF Dead, SessionsInv, SessionsMatch
      <3>3. request'[r].pc \in {"expired", "refused"}
        <4>1. ~ReadOperator(r)
          BY <3>1 DEF ReadOperator
        <4>2. CASE DropExpired(r)
          BY <1>1, <4>2 DEF DropExpired, RequestGoes, TypeOK, Request
        <4>3. CASE ReadSession(r)
          <5>1. \/ request' = [request EXCEPT ![r].pc = "refused"]
                \/ \E s \in sessions :
                      request' = [request EXCEPT ![r].operator = s.operator, ![r].pc = "expired"]
            BY <3>2, <4>3 DEF ReadSession, RequestGoes
          <5>2. CASE request' = [request EXCEPT ![r].pc = "refused"]
            BY <1>1, <5>2 DEF TypeOK, Request
          <5>3. ASSUME NEW o, request' = [request EXCEPT ![r].operator = o, ![r].pc = "expired"]
                PROVE  request'[r].pc = "expired"
            BY <1>1, <5>3 DEF TypeOK, Request
          <5> QED BY <5>1, <5>2, <5>3
        <4> QED BY <1>8, <2>6, <4>1, <4>2, <4>3 DEF Guard
      <3> QED BY <2>5, <2>6, <3>1, <3>3
    <2> QED BY <2>4, <2>6
  <1> QED BY <1>2, <1>3, <1>4, <1>5, <1>7, <1>8
          DEF Next, SignIn, Start, Tick, BeginOidcLogin, Callback, ProviderFails, Userinfo, vars,
              tables, history

\* require_operator: a request that arrives after its session was signed out or
\* expired is refused, however its guard's reads interleave.
THEOREM LateRequestsAreRefused == Spec => []LateRequestsRefused
  <1>1. SessionsInv => LateRequestsRefused
    BY DEF SessionsInv, LateIsDead, LateRequestsRefused
  <1> QED BY <1>1, SessionsInit, SessionsStep, PTL DEF Spec

\* A session acts for the operator it was opened for as long as it is stored,
\* if nobody leaves that operator's email (get_operator_for_session_token reads
\* the operator anew on every request).
THEOREM SessionsActForTheirOperator == Spec => []SessionsKeepTheirOperator
  <1> DEFINE IInv == OperatorsInv /\ SessionsInv /\ SessionsKeepTheirOperator
  <1>1. Init => IInv
    BY OperatorsInit, SessionsInit DEF Init, SessionsKeepTheirOperator
  <1>2. IInv /\ [Next]_vars => IInv'
    <2> SUFFICES ASSUME IInv, [Next]_vars PROVE SessionsKeepTheirOperator'
      BY OperatorsStep, SessionsStep
    <2>1. TypeOK /\ TypeOK'
      BY AuthTypeStep DEF OperatorsInv
    <2>2. \A o \in DOMAIN operators :
              /\ o \in DOMAIN operators'
              /\ Settled(operators[o].email) => operators'[o].email = operators[o].email
      <3>1. CASE Start
        BY <3>1, StartEffect
      <3>2. CASE \E c \in Callbacks : Userinfo(c)
        BY <3>2, UserinfoEffect
      <3>3. CASE ~Start /\ \A c \in Callbacks : ~Userinfo(c)
        BY <3>3, OtherSteps
      <3> QED BY <3>1, <3>2, <3>3
    <2>3. ASSUME sessions' \subseteq sessions, opened' = opened
          PROVE  SessionsKeepTheirOperator'
      BY <2>1, <2>2, <2>3 DEF SessionsKeepTheirOperator, TypeOK, Settled, Stable
    <2>4. ASSUME NEW k \in FreshTokens, NEW o \in DOMAIN operators, CreateSession(k, o),
                 operators' = operators
          PROVE  SessionsKeepTheirOperator'
      <3>1. /\ \A s \in sessions : s.token # k
            /\ \A x \in opened : x.token # k
        BY DEF FreshTokens, SessionsInv, SessionsMatch
      <3> DEFINE s0 == [token |-> k, operator |-> o, expires |-> now + SessionTtl]
                 x0 == [token |-> k, email |-> operators[o].email, expires |-> now + SessionTtl]
      <3>2. sessions' = sessions \cup {s0} /\ opened' = opened \cup {x0}
        BY <2>4 DEF CreateSession
      <3>3. s0.token = k /\ x0.token = k /\ operators[s0.operator].email = x0.email
        OBVIOUS
      <3> HIDE DEF s0, x0
      <3> QED BY <2>4, <3>1, <3>2, <3>3 DEF SessionsKeepTheirOperator, Settled, Stable
    <2>5. CASE PasswordLogin
      <3>1. PICK k \in FreshTokens, o \in DOMAIN operators : CreateSession(k, o)
        BY <2>5 DEF PasswordLogin, ByEmail
      <3> QED BY <2>4, <2>5, <3>1 DEF PasswordLogin
    <2>6. CASE \E c \in Callbacks : OpenSession(c)
      <3>1. PICK c \in Callbacks : OpenSession(c)
        BY <2>6
      <3>2. login[c].operator \in DOMAIN operators
        BY <2>1, <3>1 DEF OpenSession, TypeOK
      <3> QED BY <2>4, <3>1, <3>2 DEF OpenSession
    <2> QED BY <2>3, <2>5, <2>6
            DEF Next, SignIn, Guard, Start, Crash, Tick, BeginOidcLogin, Logout, Callback,
                ProviderFails, Userinfo, Arrive, ReadSession, DropExpired, ReadOperator, vars,
                tables, history
  <1>3. IInv => SessionsKeepTheirOperator
    OBVIOUS
  <1> QED BY <1>1, <1>2, <1>3, PTL DEF Spec
=============================================================================
