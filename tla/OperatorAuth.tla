---------------------------- MODULE OperatorAuth ----------------------------
(***************************************************************************)
(* Operator sign-in, sessions and sign-out: OperatorAuthService            *)
(* (core/security/auth.py), its tables (storage/sqlalchemy/repository.py)  *)
(* and the guard of the protected routes (api/app.py).                     *)
(*                                                                         *)
(* Handlers run on one event loop; a sign-in with the identity provider    *)
(* suspends only while the provider is asked.  require_operator is a       *)
(* synchronous dependency: it runs in a thread, so each of its database    *)
(* transactions is a step that interleaves with the loop, which `loop`     *)
(* marks as taken between two transactions of one handler.  A Crash may    *)
(* come between any two steps; the tables survive it.                      *)
(***************************************************************************)
EXTENDS Naturals, FiniteSets

CONSTANTS
    Callbacks, Requests,          \* calls of the sign-in callback and of protected routes
    StateTokens, SessionTokens,   \* what secrets.token_urlsafe comes up with
    OperatorIds, Subjects, Emails, Passwords,
    Accounts,                     \* the [subject, email] pairs the provider reports
    AdminEmail, AllowedEmails, AllowedDomains, DomainOf,   \* settings, and the domain of an email
    PasswordEnabled, OidcEnabled, \* supports_password() and supports_oidc()
    StateTtl, SessionTtl,         \* 10 minutes and session_ttl_hours
    None,                         \* a column that is null
    MaxTime                       \* bound of the model

ASSUME AuthAssumption ==
    /\ Accounts \subseteq [subject : Subjects, email : Emails]
    /\ AdminEmail \in Emails
    /\ StateTtl \in Nat /\ SessionTtl \in Nat
    /\ PasswordEnabled \in BOOLEAN /\ OidcEnabled \in BOOLEAN
    /\ None \notin Subjects \cup Passwords \cup OperatorIds \cup Callbacks

VARIABLES
    up, password,    \* whether the process serves, and its admin_password setting
    now,
    operators,       \* framework_operators, by operator id
    oauth,           \* framework_oauth_states: the sign-ins begun and not redeemed
    sessions,        \* framework_operator_sessions
    loop,            \* the callback whose handler is between two transactions
    login,           \* where each callback is
    request,         \* where each protected request is
    issued, opened, ended   \* history: states issued, sessions opened, tokens signed out

vars == <<up, password, now, operators, oauth, sessions, loop, login, request,
          issued, opened, ended>>
tables == <<operators, oauth, sessions>>
history == <<issued, opened, ended>>

Operator == [email : Emails, subject : Subjects \cup {None}, hash : Passwords \cup {None}]

Init ==
    /\ up = FALSE /\ password = None /\ now = 0
    /\ operators = [o \in {} |-> None] /\ oauth = {} /\ sessions = {}
    /\ loop = None
    /\ login = [c \in Callbacks |-> [pc |-> "idle", state |-> None, subject |-> None,
                                     operator |-> None]]
    /\ request = [r \in Requests |-> [pc |-> "idle", token |-> None, operator |-> None,
                                      late |-> FALSE]]
    /\ issued = {} /\ opened = {} /\ ended = {}

-----------------------------------------------------------------------------
(* The operator table.                                                     *)
ByEmail(e) == {o \in DOMAIN operators : operators[o].email = e}
AnySubject(s) == {o \in DOMAIN operators : operators[o].subject # None}   \* the provider's rows
BySubject(s) == {o \in DOMAIN operators : operators[o].subject = s}
FreshIds == OperatorIds \ DOMAIN operators

\* The unique constraint on email.
EmailTaken(o, e) == ByEmail(e) \ {o} # {}

\* Forms of the operators with a plausible bug, for the mutants of PROJECT.json:
\* each stands before the one it replaces.
UpdateOperator(o, row) ==   \* update where merge would insert
    operators' = [x \in DOMAIN operators |-> IF x = o THEN row ELSE operators[x]]
SaveOperator(o, row) ==
    operators' = [x \in DOMAIN operators \cup {o} |-> IF x = o THEN row ELSE operators[x]]

EmailAllowed(e) ==
    \/ e \in AllowedEmails
    \/ DomainOf[e] \in AllowedDomains
    \/ AllowedEmails = {} /\ AllowedDomains = {}

HeldByEmail(s, e) == ByEmail(e)
HeldBySubject(s, e) == BySubject(s)

\* The rows a sign-in updates: the subject's, and only without one the email's.
Held(s, e) == IF BySubject(s) # {} THEN BySubject(s) ELSE ByEmail(e)

-----------------------------------------------------------------------------
(* A process starts, and dies.                                             *)
BootstrapOnce(p) ==   \* an admin that exists is left alone
    \/ ByEmail(AdminEmail) # {} /\ UNCHANGED operators
    \/ /\ ByEmail(AdminEmail) = {}
       /\ \E o \in FreshIds : SaveOperator(o, [email |-> AdminEmail, subject |-> None, hash |-> p])
BootstrapAdmin(p) ==
    \/ \E o \in ByEmail(AdminEmail) : SaveOperator(o, [operators[o] EXCEPT !.hash = p])
    \/ /\ ByEmail(AdminEmail) = {}
       /\ \E o \in FreshIds : SaveOperator(o, [email |-> AdminEmail, subject |-> None, hash |-> p])

Start ==
    /\ ~up
    /\ up' = TRUE
    /\ \E p \in Passwords :
        /\ password' = p
        /\ IF PasswordEnabled THEN BootstrapAdmin(p) ELSE UNCHANGED operators
    /\ UNCHANGED <<now, oauth, sessions, loop, login, request, history>>

Killed(pc) == IF pc \in {"idle", "refused", "failed", "conflict", "done", "admitted"}
              THEN pc ELSE "lost"

Crash ==
    /\ up
    /\ up' = FALSE /\ loop' = None
    /\ login' = [c \in Callbacks |-> [login[c] EXCEPT !.pc = Killed(@)]]
    /\ request' = [r \in Requests |-> [request[r] EXCEPT !.pc = Killed(@)]]
    /\ UNCHANGED <<password, now, tables, history>>

-----------------------------------------------------------------------------
(* Signing in.                                                             *)
OnLoop == up /\ loop = None

\* begin_oidc_login: what it awaits comes before its only write.
BeginOidcLogin ==
    /\ OnLoop /\ OidcEnabled
    /\ \E t \in StateTokens \ issued :
        /\ oauth' = oauth \cup {[token |-> t, expires |-> now + StateTtl]}
        /\ issued' = issued \cup {t}
    /\ UNCHANGED <<up, password, now, operators, sessions, loop, login, request, opened, ended>>

Goes(c, pc) == login' = [login EXCEPT ![c].pc = pc]

Redeem(c, t, pc) == login' = [login EXCEPT ![c].pc = pc, ![c].state = t]

PeekState(c, t) ==   \* the state is read, and left for later
    \E s \in oauth :
        /\ s.token = t
        /\ Redeem(c, t, IF s.expires < now THEN "refused" ELSE "exchange")
        /\ UNCHANGED oauth

\* complete_oidc_login up to its first await: the state is popped, good or overdue.
PopState(c, t) ==
    \/ \E s \in oauth :
        /\ s.token = t
        /\ oauth' = oauth \ {s}
        /\ Redeem(c, t, IF s.expires < now THEN "refused" ELSE "exchange")
    \/ /\ \A s \in oauth : s.token # t
       /\ Redeem(c, t, "refused")
       /\ UNCHANGED oauth

Callback(c) ==
    /\ OnLoop /\ OidcEnabled
    /\ login[c].pc = "idle"
    /\ \E t \in issued : PopState(c, t)
    /\ UNCHANGED <<up, password, now, operators, sessions, loop, request, history>>

\* The provider does not answer, answers with an error, or names a stranger.
ProviderFails(c) ==
    /\ OnLoop
    /\ login[c].pc = "exchange"
    /\ Goes(c, "failed")
    /\ UNCHANGED <<up, password, now, tables, loop, request, history>>

\* save_operator in _upsert_oidc_operator, with the session still to be opened.
Persist(c, o, row) ==
    \/ /\ EmailTaken(o, row.email)
       /\ login' = [login EXCEPT ![c].pc = "conflict", ![c].subject = row.subject]
       /\ UNCHANGED <<operators, loop>>
    \/ /\ ~EmailTaken(o, row.email)
       /\ SaveOperator(o, row)
       /\ login' = [login EXCEPT ![c].pc = "session", ![c].subject = row.subject,
                                 ![c].operator = o]
       /\ loop' = c

UpsertOperator(c, s, e) ==
    \/ \E o \in Held(s, e) :
        Persist(c, o, [operators[o] EXCEPT !.email = e, !.subject = s])
    \/ /\ Held(s, e) = {}
       /\ \E o \in FreshIds : Persist(c, o, [email |-> e, subject |-> s, hash |-> None])

\* The handler resumes with what the provider says of the user.
Userinfo(c) ==
    /\ OnLoop
    /\ login[c].pc = "exchange"
    /\ \E a \in Accounts : EmailAllowed(a.email) /\ UpsertOperator(c, a.subject, a.email)
    /\ UNCHANGED <<up, password, now, oauth, sessions, request, history>>

\* _create_session: its save_operator only moves last_login_at.
CreateSession(k, o) ==
    /\ sessions' = sessions \cup {[token |-> k, operator |-> o, expires |-> now + SessionTtl]}
    /\ opened' = opened \cup {[token |-> k, email |-> operators[o].email,
                               expires |-> now + SessionTtl]}

FreshTokens == {k \in SessionTokens : \A x \in opened : x.token # k}

OpenSession(c) ==
    /\ up /\ loop = c
    /\ login[c].pc = "session"
    /\ \E k \in FreshTokens : CreateSession(k, login[c].operator)
    /\ Goes(c, "done")
    /\ loop' = None
    /\ UNCHANGED <<up, password, now, operators, oauth, request, issued, ended>>

\* authenticate_password with credentials that match; any others change nothing.
PasswordLogin ==
    /\ OnLoop /\ PasswordEnabled
    /\ \E e \in Emails, p \in Passwords : \E o \in ByEmail(e) :
        /\ operators[o].hash = p
        /\ \E k \in FreshTokens : CreateSession(k, o)
    /\ UNCHANGED <<up, password, now, operators, oauth, loop, login, request, issued, ended>>

LogoutOfCookie ==   \* the browser's cookie goes, the session stays
    /\ OnLoop
    /\ \E x \in opened : ended' = ended \cup {x.token}
    /\ UNCHANGED <<up, password, now, tables, loop, login, request, issued, opened>>

Logout ==
    /\ OnLoop
    /\ \E x \in opened :
        /\ sessions' = {s \in sessions : s.token # x.token}
        /\ ended' = ended \cup {x.token}
    /\ UNCHANGED <<up, password, now, operators, oauth, loop, login, request, issued, opened>>

-----------------------------------------------------------------------------
(* The guard of the protected routes.                                      *)
RequestGoes(r, pc) == request' = [request EXCEPT ![r].pc = pc]

Arrive(r) ==
    /\ up
    /\ request[r].pc = "idle"
    /\ \E x \in opened :
        request' = [request EXCEPT ![r] =
            [pc |-> "read", token |-> x.token, operator |-> None,
             late |-> x.token \in ended \/ x.expires < now]]
    /\ UNCHANGED <<up, password, now, tables, loop, login, history>>

\* get_operator_session, and the expiry test on what it returned.
ReadSession(r) ==
    /\ up
    /\ request[r].pc = "read"
    /\ \/ \E s \in sessions :
            /\ s.token = request[r].token
            /\ request' = [request EXCEPT ![r].operator = s.operator,
                            ![r].pc = IF s.expires < now THEN "expired" ELSE "lookup"]
       \/ /\ \A s \in sessions : s.token # request[r].token
          /\ RequestGoes(r, "refused")
    /\ UNCHANGED <<up, password, now, tables, loop, login, history>>

DropExpired(r) ==
    /\ up
    /\ request[r].pc = "expired"
    /\ sessions' = {s \in sessions : s.token # request[r].token}
    /\ RequestGoes(r, "refused")
    /\ UNCHANGED <<up, password, now, operators, oauth, loop, login, history>>

ReadOperator(r) ==
    /\ up
    /\ request[r].pc = "lookup"
    /\ RequestGoes(r, IF request[r].operator \in DOMAIN operators THEN "admitted" ELSE "refused")
    /\ UNCHANGED <<up, password, now, tables, loop, login, history>>

Tick ==
    /\ now < MaxTime
    /\ now' = now + 1
    /\ UNCHANGED <<up, password, tables, loop, login, request, history>>

-----------------------------------------------------------------------------
SignIn(c) == Callback(c) \/ ProviderFails(c) \/ Userinfo(c) \/ OpenSession(c)
Guard(r) == Arrive(r) \/ ReadSession(r) \/ DropExpired(r) \/ ReadOperator(r)

Next ==
    \/ Start \/ Crash \/ Tick
    \/ BeginOidcLogin \/ PasswordLogin \/ Logout
    \/ \E c \in Callbacks : SignIn(c)
    \/ \E r \in Requests : Guard(r)

Spec == Init /\ [][Next]_vars

-----------------------------------------------------------------------------
(***************************************************************************)
(* Properties                                                              *)
(***************************************************************************)
Phases == {"idle", "refused", "exchange", "failed", "conflict", "session", "done", "lost"}
RequestPhases == {"idle", "read", "lookup", "expired", "admitted", "refused", "lost"}

Login == [pc : Phases, state : StateTokens \cup {None}, subject : Subjects \cup {None},
          operator : DOMAIN operators \cup {None}]
Request == [pc : RequestPhases, token : SessionTokens \cup {None},
            operator : DOMAIN operators \cup {None}, late : BOOLEAN]

\* Every column holds what its table declares, and every session and every
\* callback about to open one names an operator that was saved.
TypeOK ==
    /\ up \in BOOLEAN
    /\ password \in Passwords \cup {None}
    /\ now \in Nat
    /\ DOMAIN operators \subseteq OperatorIds
    /\ operators \in [DOMAIN operators -> Operator]
    /\ oauth \subseteq [token : StateTokens, expires : Nat]
    /\ sessions \subseteq [token : SessionTokens, operator : DOMAIN operators, expires : Nat]
    /\ loop \in Callbacks \cup {None}
    /\ login \in [Callbacks -> Login]
    /\ \A c \in Callbacks : login[c].pc = "session" => login[c].operator \in DOMAIN operators
    /\ request \in [Requests -> Request]
    /\ issued \subseteq StateTokens
    /\ opened \subseteq [token : SessionTokens, email : Emails, expires : Nat]
    /\ ended \subseteq SessionTokens

Redeemed(c) == login[c].pc \notin {"idle", "refused"}

\* complete_oidc_login pops the state before its awaits: of all the callbacks
\* that present one state, duplicated, retried or overlapping, across crashes,
\* one goes on to exchange its code.
StateUsedOnce ==
    \A c, d \in Callbacks :
        Redeemed(c) /\ Redeemed(d) /\ login[c].state = login[d].state => c = d

\* _upsert_oidc_operator: nothing in the database keeps a subject from having
\* two operators; the lookups do, however often users change their emails.
OneOperatorPerSubject ==
    \A o, p \in DOMAIN operators :
        operators[o].subject \in Subjects /\ operators[o].subject = operators[p].subject
            => o = p

\* The provider always reports this user with the same email ...
Stable(s) == \A a, b \in Accounts : a.subject = s /\ b.subject = s => a.email = b.email

\* ... and whoever it reports with this email.
Settled(e) == \A a \in Accounts : a.email = e => Stable(a.subject)

\* save_operator's unique email never fails the sign-in of a user whose email
\* has not changed, whatever the other users' did.
LoginsDoNotConflict ==
    \A c \in Callbacks : login[c].pc = "conflict" => ~Stable(login[c].subject)

\* docs/deployment_railway.md, "Hybrid": the password fallback of the admin works
\* while the process serves, with the password it was started with.
AdminPasswordWorks ==
    up /\ PasswordEnabled =>
        \E o \in DOMAIN operators :
            operators[o].email = AdminEmail /\ operators[o].hash = password

\* A session acts for the operator it was opened for, recognised by an email
\* nobody is leaving, as long as it is in the table.
SessionsKeepTheirOperator ==
    \A s \in sessions, x \in opened :
        s.token = x.token /\ Settled(x.email) => operators[s.operator].email = x.email

\* A request that arrives after its session was signed out or has expired is
\* refused, whatever else runs between the transactions of its guard.
LateRequestsRefused ==
    \A r \in Requests : request[r].late => request[r].pc # "admitted"
=============================================================================
