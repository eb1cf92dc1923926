-------------------------- MODULE FrontEndsProofs --------------------------
(***************************************************************************)
(* For every set of recommendations, profiles, operations, slots and       *)
(* logins, every Ttl and every bound, any number of restarts and           *)
(* redeliveries: FrontEnds is typed, decisions the operator was told of    *)
(* stand, none is taken late, a process sends one live order for a         *)
(* recommendation at most, and a disconnect holds. The steps are first     *)
(* reduced to what they do to one request, its log, the handlers that wait *)
(* and the orders sent (DecisionStep); the invariant is then kept by those *)
(* few kinds of step.                                                      *)
(***************************************************************************)
EXTENDS FrontEnds, TLAPS

-----------------------------------------------------------------------------
(***************************************************************************)
(* The broker session                                                      *)
(***************************************************************************)

\* Both copies, not only the active one, and whatever an exchange under way or
\* a later callback will bring, are tokens no disconnect took away.
SessionInv ==
    /\ {memory, stored} \cap removed = {} /\ {NoToken, NoRow} \cap removed = {}
    /\ exchanging \subseteq seen \cap Logins
    /\ ({memory, stored} \cup removed) \cap Logins \subseteq seen \ exchanging

\* What a step of the front ends may do to the broker session.
SessionStep ==
    \/ UNCHANGED sessionVars
    \/ \E l \in Logins : Callback(l) \/ ExchangeEnds(l) \/ ExchangeFails(l)
    \/ Disconnect \/ DisconnectFails
    \/ SessionRestart

\* Every operation of the session keeps that.
LEMMA SessionStepKeeps ==
    ASSUME SessionInv, SessionStep PROVE SessionInv'
  <1>1. CASE UNCHANGED sessionVars
    BY <1>1 DEF SessionInv, sessionVars
  <1>2. ASSUME NEW l \in Logins, Callback(l) \/ ExchangeEnds(l) \/ ExchangeFails(l)
        PROVE  SessionInv'
    BY <1>2, SessionAssumption DEF SessionInv, Callback, ExchangeEnds, SaveSession, ExchangeFails
  <1>3. CASE Disconnect \/ DisconnectFails
    BY <1>3, SessionAssumption DEF SessionInv, Disconnect, DisconnectFails
  <1>4. CASE SessionRestart
    BY <1>4, SessionAssumption DEF SessionInv, SessionRestart
  <1> QED BY <1>1, <1>2, <1>3, <1>4 DEF SessionStep

\* A handler does nothing else to the session.
LEMMA ServeSession ==
    ASSUME NEW c, Serve(c) PROVE SessionStep
  BY DEF Serve, SessionStep, ServeAnalysis, ServeDecision, ServeWithoutBroker, ServeLiveOrder,
         ServeUnchanged, ServeWatchlist, ServeDisconnect, ServeClear

\* Nor does any other step.
LEMMA NextSession ==
    ASSUME [Next]_vars PROVE SessionStep
  <1>1. CASE \E op \in PageOps : Click(op)
    BY <1>1, ServeSession DEF Click
  <1>2. CASE \E op \in BotOps : Send(op)
    BY <1>2, ServeSession DEF Send
  <1>3. CASE \E u \in inbox : Redeliver(u)
    BY <1>3, ServeSession DEF Redeliver
  <1>4. CASE \E t \in tasks : KiteAnswers(t) \/ \E ok \in BOOLEAN : Answer(t, ok)
    BY <1>4 DEF KiteAnswers, Answer, SessionStep
  <1>5. CASE \E l \in Logins : Connect(l) \/ Exchanged(l)
    BY <1>5 DEF Connect, Exchanged, SessionStep
  <1>6. CASE \E i \in Slots :
              StartLoad(i) \/ ServeLoad(i) \/ FinishLoad(i) \/ Render(i) \/ LoadFails(i)
    BY <1>6 DEF StartLoad, ServeLoad, FinishLoad, Render, LoadFails, SessionStep
  <1>7. CASE Restart
    BY <1>7 DEF Restart, SessionStep
  <1>8. CASE Tick
    BY <1>8 DEF Tick, SessionStep
  <1>9. CASE UNCHANGED vars
    BY <1>9 DEF vars, SessionStep
  <1> QED BY <1>1, <1>2, <1>3, <1>4, <1>5, <1>6, <1>7, <1>8, <1>9 DEF Next

(***************************************************************************)
(* The server never goes back to a token of Zerodha that a disconnect took *)
(* away, whatever logins, restarts, the page and the bot do behind it,     *)
(* except that a start brings the environment's token back.                *)
(***************************************************************************)
THEOREM DisconnectHoldsAlways == Spec => []DisconnectHolds
  <1>1. Init => SessionInv
    BY SessionAssumption DEF Init, SessionInit, SessionInv
  <1>2. SessionInv /\ [Next]_vars => SessionInv'
    BY NextSession, SessionStepKeeps
  <1>3. SessionInv => DisconnectHolds
    BY DEF SessionInv, DisconnectHolds, ActiveToken
  <1> QED BY <1>1, <1>2, <1>3, PTL DEF Spec
-----------------------------------------------------------------------------
(***************************************************************************)
(* Type correctness                                                        *)
(***************************************************************************)

\* The part of it a handler changes.
ServerType ==
    /\ A!TypeOK /\ SessionTypeOK
    /\ profile \in [issued -> Profiles]
    /\ logged \in [Recs -> A!Request \cup {A!NoRequest}]
    /\ executions \in [Recs -> Outcomes \cup {None}]
    /\ watchlist \in (SUBSET STRING) \cup {NoList}
    /\ tasks \in SUBSET Task
    /\ sent \in [Recs -> Nat]

LoadStates == {Idle, Asked, AtKite} \cup [at : {"ANSWERED"}, payload : View]

TypeInv ==
    /\ ServerType
    /\ inbox \in SUBSET [id : Nat, op : BotOps, tries : Nat]
    /\ view \in View
    /\ loads \in [Slots -> LoadStates]
    /\ told \in SUBSET (Recs \X {"APPROVED", "REJECTED"})
    /\ events \in Nat

\* The invariant has the type invariant of FrontEnds.
LEMMA TypeInvTypes == TypeInv => TypeOK
  BY FrontEndAssumption DEF TypeInv, TypeOK, ServerType, Listed, LoadStates

\* A request whose status moves is a request.
LEMMA MovedTyped ==
    ASSUME A!TypeOK, NEW r \in Recs, A!Has(r), NEW s \in A!Statuses
    PROVE  A!Moved(r, s) \in A!Request
  BY DEF A!TypeOK, A!Has, A!Moved, A!Request, A!NoRequest, A!Statuses

\* So is a new one.
LEMMA NewTyped == A!TypeOK => A!NewRequest \in A!Request
  BY FrontEndAssumption DEF A!TypeOK, A!NewRequest, A!Request, A!Statuses

\* What each call of the approval service does to its table.
LEMMA ApprovalStepTyped ==
    ASSUME A!TypeOK, NEW r \in Recs,
           \/ A!RequestApproval(r) \/ A!Read(r) \/ A!Approve(r, r) \/ A!Reject(r, r)
           \/ A!DecideLate(r, r) \/ A!Consume(r, r) \/ A!Clear \/ A!Tick \/ UNCHANGED approvalVars
    PROVE  A!TypeOK'
  <1>1. CASE A!RequestApproval(r)
    BY <1>1, NewTyped DEF A!TypeOK, A!RequestApproval
  <1>2. CASE A!Read(r)
    BY <1>2, MovedTyped DEF A!TypeOK, A!Read, A!ReadExpires, A!Statuses
  <1>3. CASE A!Approve(r, r)
    BY <1>3, MovedTyped DEF A!TypeOK, A!Approve, A!MayDecide, A!PendingFor, A!Statuses
  <1>4. CASE A!Reject(r, r)
    BY <1>4, MovedTyped DEF A!TypeOK, A!Reject, A!MayDecide, A!PendingFor, A!Statuses
  <1>5. CASE A!DecideLate(r, r)
    BY <1>5, MovedTyped DEF A!TypeOK, A!DecideLate, A!DecidesTooLate, A!PendingFor, A!Statuses
  <1>6. CASE A!Consume(r, r)
    BY <1>6, MovedTyped DEF A!TypeOK, A!Consume, A!MayConsume, A!Statuses
  <1>7. CASE A!Clear
    BY <1>7 DEF A!TypeOK, A!Clear
  <1>8. CASE A!Tick
    BY <1>8 DEF A!TypeOK, A!Tick
  <1>9. CASE UNCHANGED approvalVars
    BY <1>9 DEF A!TypeOK, approvalVars
  <1> QED BY <1>1, <1>2, <1>3, <1>4, <1>5, <1>6, <1>7, <1>8, <1>9

\* A handler that suspends is a task.
LEMMA SuspendTyped ==
    ASSUME tasks \in SUBSET Task, NEW c \in Call, NEW at \in {"KITE", "REPLYING"},
           NEW ok \in BOOLEAN, NEW held \in A!Request \cup {A!NoRequest},
           Suspend(c, at, ok, held)
    PROVE  tasks' \in SUBSET Task
  BY DEF Suspend, Task

\* A handler that replies is a task.
LEMMA ReplyTyped ==
    ASSUME tasks \in SUBSET Task, NEW c \in Call, NEW ok \in BOOLEAN, Reply(c, ok)
    PROVE  tasks' \in SUBSET Task
  BY SuspendTyped DEF Reply

\* The session stays typed.
LEMMA SessionTyped ==
    ASSUME SessionTypeOK, SessionStep PROVE SessionTypeOK'
  BY DEF SessionTypeOK, SessionStep, sessionVars, Callback, ExchangeEnds, SaveSession,
         ExchangeFails, Disconnect, DisconnectFails, SessionRestart

\* The operations of a call name recommendations and symbols.
LEMMA CallNames ==
    ASSUME NEW c \in Call
    PROVE  /\ c.op.kind \in {"APPROVE", "REJECT", "SUBMIT", "PREVIEW"} => c.op.rec \in Recs
           /\ c.op.kind \in {"ADD", "REMOVE"} => c.op.symbol \in STRING
  BY FrontEndAssumption DEF Call

\* The bot's look at an approval keeps the approvals typed.
LEMMA ConsultsTyped ==
    ASSUME A!TypeOK, NEW c \in Call, c.op.kind = "SUBMIT", Consults(c)
    PROVE  A!TypeOK' /\ issued' = issued
  BY CallNames, ApprovalStepTyped DEF Consults, A!Read, approvalVars

\* Every handler keeps the server typed.
LEMMA ServeTyped ==
    ASSUME ServerType, NEW c \in Call, Serve(c) PROVE ServerType'
  <1>1. SessionTypeOK'
    BY ServeSession, SessionTyped DEF ServerType
  <1>2. CASE ServeAnalysis(c)
    <2>1. CASE \E r \in Recs, p \in Profiles :
                 /\ A!RequestApproval(r)
                 /\ Log(r, A!NewRequest)
                 /\ profile' = [q \in issued' |-> IF q = r THEN p ELSE profile[q]]
                 /\ Reply(c, TRUE)
      <3>1. PICK r \in Recs, p \in Profiles :
                 /\ A!RequestApproval(r)
                 /\ Log(r, A!NewRequest)
                 /\ profile' = [q \in issued' |-> IF q = r THEN p ELSE profile[q]]
                 /\ Reply(c, TRUE)
        BY <2>1
      <3>2. A!TypeOK' /\ tasks' \in SUBSET Task
        BY <3>1, ApprovalStepTyped, ReplyTyped DEF ServerType
      <3>3. issued' = issued \cup {r}
        BY <3>1 DEF A!RequestApproval
      <3>4. profile' \in [issued' -> Profiles]
        BY <3>1, <3>3 DEF ServerType
      <3>5. logged' \in [Recs -> A!Request \cup {A!NoRequest}]
        BY <3>1, NewTyped DEF ServerType, Log
      <3> QED BY <1>1, <1>2, <3>2, <3>4, <3>5 DEF ServerType, ServeAnalysis
    <2>2. CASE Reply(c, FALSE) /\ UNCHANGED <<approvalVars, profile, logged>>
      BY <1>1, <1>2, <2>2, ReplyTyped DEF ServerType, ServeAnalysis, approvalVars, A!TypeOK
    <2> QED BY <1>2, <2>1, <2>2 DEF ServeAnalysis
  <1>3. CASE ServeDecision(c)
    <2> DEFINE r == c.op.rec
    <2>1. r \in Recs
      BY <1>3, CallNames DEF ServeDecision
    <2>2. A!TypeOK' /\ issued' = issued
      BY <1>3, <2>1, ApprovalStepTyped
      DEF ServerType, ServeDecision, A!Approve, A!Reject, A!DecideLate, approvalVars
    <2>3. tasks' \in SUBSET Task
      BY <1>3, ReplyTyped DEF ServerType, ServeDecision
    <2>4. logged' \in [Recs -> A!Request \cup {A!NoRequest}]
      <3>1. requests'[r] \in A!Request \cup {A!NoRequest}
        BY <2>1, <2>2 DEF A!TypeOK
      <3> QED BY <1>3, <2>1, <3>1 DEF ServerType, ServeDecision, Log
    <2> QED BY <1>1, <1>3, <2>2, <2>3, <2>4 DEF ServerType, ServeDecision
  <1>4. CASE ServeWithoutBroker(c)
    <2>1. c.op.kind = "SUBMIT" /\ c.op.rec \in Recs
      BY <1>4, CallNames DEF ServeWithoutBroker, KnownOrder
    <2>2. A!TypeOK' /\ issued' = issued
      BY <1>4, <2>1, ConsultsTyped DEF ServerType, ServeWithoutBroker
    <2>3. tasks' \in SUBSET Task
      BY <1>4, ReplyTyped DEF ServerType, ServeWithoutBroker
    <2>4. executions' \in [Recs -> Outcomes \cup {None}]
      BY <1>4, <2>1 DEF ServerType, ServeWithoutBroker, Executed, Outcomes
    <2> QED BY <1>1, <1>4, <2>2, <2>3, <2>4 DEF ServerType, ServeWithoutBroker
  <1>5. CASE ServeLiveOrder(c)
    <2> DEFINE r == c.op.rec
    <2>1. c.op.kind = "SUBMIT" /\ r \in Recs
      BY <1>5, CallNames DEF ServeLiveOrder, KnownOrder
    <2>2. A!TypeOK' /\ issued' = issued
      BY <1>5, <2>1, ConsultsTyped, ApprovalStepTyped DEF ServerType, ServeLiveOrder, A!Consume
    <2>3. tasks' \in SUBSET Task
      <3>1. logged[r] \in A!Request \cup {A!NoRequest}
        BY <2>1 DEF ServerType
      <3>2. Suspend(c, "KITE", TRUE, logged[r]) \/ Reply(c, TRUE) \/ Reply(c, FALSE)
        BY <1>5 DEF ServeLiveOrder
      <3>3. tasks \in SUBSET Task
        BY DEF ServerType
      <3> QED BY <3>1, <3>2, <3>3, ReplyTyped, SuspendTyped
    <2>4. executions' \in [Recs -> Outcomes \cup {None}]
      BY <1>5, <2>1 DEF ServerType, ServeLiveOrder, Executed, Outcomes
    <2>5. sent' \in [Recs -> Nat]
      <3>1. sent' = [sent EXCEPT ![r] = @ + 1] \/ sent' = sent
        BY <1>5 DEF ServeLiveOrder
      <3>2. sent \in [Recs -> Nat]
        BY DEF ServerType
      <3> QED BY <3>1, <3>2
    <2> QED BY <1>1, <1>5, <2>2, <2>3, <2>4, <2>5 DEF ServerType, ServeLiveOrder
  <1>6. CASE ServeUnchanged(c)
    <2>1. c.op.rec \in Recs
      BY <1>6, CallNames DEF ServeUnchanged
    <2>2. tasks' \in SUBSET Task
      BY <1>6, ReplyTyped DEF ServerType, ServeUnchanged, A!Has
    <2> QED BY <1>1, <1>6, <2>2 DEF ServerType, ServeUnchanged, approvalVars, recordVars, A!TypeOK
  <1>7. CASE ServeWatchlist(c)
    <2>1. tasks' \in SUBSET Task
      BY <1>7, ReplyTyped DEF ServerType, ServeWatchlist
    <2>2. watchlist' \in (SUBSET STRING) \cup {NoList}
      BY <1>7, CallNames, FrontEndAssumption DEF ServerType, ServeWatchlist, Listed
    <2> QED BY <1>1, <1>7, <2>1, <2>2 DEF ServerType, ServeWatchlist, approvalVars, A!TypeOK
  <1>8. CASE ServeDisconnect(c)
    <2>1. tasks' \in SUBSET Task
      BY <1>8, ReplyTyped DEF ServerType, ServeDisconnect
    <2> QED BY <1>1, <1>8, <2>1 DEF ServerType, ServeDisconnect, approvalVars, recordVars, A!TypeOK
  <1>9. CASE ServeClear(c)
    <2>1. tasks' \in SUBSET Task
      BY <1>9, ReplyTyped DEF ServerType, ServeClear
    <2> QED BY <1>1, <1>9, <2>1 DEF ServerType, ServeClear, A!Clear, A!TypeOK
  <1> QED BY <1>2, <1>3, <1>4, <1>5, <1>6, <1>7, <1>8, <1>9 DEF Serve

\* What the bootstrap route answers is what a page can show.
LEMMA PayloadTyped ==
    ASSUME NEW approvals \in [Recs -> A!Request \cup {A!NoRequest}], NEW connected \in BOOLEAN,
           executions \in [Recs -> Outcomes \cup {None}], watchlist \in (SUBSET STRING) \cup {NoList}
    PROVE  Payload(approvals, connected) \in View
  <1>1. Listed \in SUBSET STRING
    BY FrontEndAssumption DEF Listed
  <1>2. ASSUME NEW r \in Recs
        PROVE  (IF approvals[r] = A!NoRequest THEN [status |-> None, execution |-> None]
                ELSE [status |-> approvals[r].status, execution |-> executions[r]]) \in Shown
    BY DEF Shown, A!Request
  <1> QED BY <1>1, <1>2 DEF Payload, View

\* What a handler leaves to the front ends.
LEMMA ServeLeaves ==
    ASSUME NEW c, Serve(c) PROVE UNCHANGED <<view, loads, told>>
  BY DEF Serve, ServeAnalysis, ServeDecision, ServeWithoutBroker, ServeLiveOrder, ServeUnchanged,
         ServeWatchlist, ServeDisconnect, ServeClear

\* A start is typed.
LEMMA InitTyped == ASSUME Init PROVE TypeInv
  <1> DEFINE stored0 == {A!NoRequest} \cup
                        [status : {"PENDING", "APPROVED", "REJECTED"}, expiresAt : {Ttl}]
  <1>1. stored0 \subseteq A!Request \cup {A!NoRequest}
    BY FrontEndAssumption DEF A!Request, A!Statuses
  <1>2. A!TypeOK /\ logged \in [Recs -> A!Request \cup {A!NoRequest}]
    BY <1>1 DEF Init, A!TypeOK
  <1>3. watchlist \in (SUBSET STRING) \cup {NoList} /\ executions \in [Recs -> Outcomes \cup {None}]
    <2>1. watchlist \in (SUBSET STRING) \cup {NoList}
      BY DEF Init
    <2>2. executions \in [Recs -> Outcomes \cup {None}]
      BY DEF Init
    <2> QED BY <2>1, <2>2
  <1>4. Connected \in BOOLEAN
    BY DEF Connected
  <1>5. view \in View
    <2>1. requests \in [Recs -> A!Request \cup {A!NoRequest}]
      BY <1>2 DEF A!TypeOK
    <2>2. Payload(requests, Connected) \in View
      BY <1>3, <1>4, <2>1, PayloadTyped
    <2> QED BY <2>2 DEF Init, Current
  <1>6. SessionTypeOK
    BY DEF Init, SessionInit, SessionTypeOK
  <1>7. told \in SUBSET (Recs \X {"APPROVED", "REJECTED"})
    BY <1>2 DEF Init, A!TypeOK
  <1>8. ServerType
    BY <1>2, <1>3, <1>6 DEF ServerType, Init
  <1>9. loads \in [Slots -> LoadStates] /\ inbox = {} /\ events = 0
    BY DEF Init, LoadStates
  <1> QED BY <1>5, <1>7, <1>8, <1>9 DEF TypeInv

\* Reading the tables for the page keeps the approvals and the loads typed.
LEMMA TablesReadTyped ==
    ASSUME TypeInv, NEW i \in Slots, NEW connected \in BOOLEAN, ReadTables(i, connected),
           UNCHANGED <<executions, watchlist>>
    PROVE  /\ A!TypeOK' /\ issued' = issued
           /\ loads' \in [Slots -> LoadStates]
  <1>1. ASSUME NEW r \in Recs
        PROVE  (IF A!ReadExpires(r) THEN A!Moved(r, "EXPIRED") ELSE requests[r])
                 \in A!Request \cup {A!NoRequest}
    BY MovedTyped DEF TypeInv, ServerType, A!TypeOK, A!ReadExpires, A!Statuses
  <1>2. A!TypeOK' /\ issued' = issued
    <2>1. requests' \in [Recs -> A!Request \cup {A!NoRequest}]
      BY <1>1 DEF ReadTables
    <2> QED BY <2>1 DEF ReadTables, TypeInv, ServerType, A!TypeOK
  <1>3. Payload(requests', connected) \in View
    BY <1>2, PayloadTyped DEF TypeInv, ServerType, A!TypeOK
  <1>4. Answered(Payload(requests', connected)) \in LoadStates
    BY <1>3 DEF Answered, LoadStates
  <1>5. loads' = [loads EXCEPT ![i] = Answered(Payload(requests', connected))]
    BY DEF ReadTables
  <1> QED BY <1>2, <1>4, <1>5 DEF TypeInv

\* The parts of the invariant a step of a front end leaves alone.
LEMMA ServerUntouched ==
    ASSUME ServerType, UNCHANGED <<approvalVars, recordVars, sessionVars, tasks, sent>>
    PROVE  ServerType'
  BY DEF ServerType, approvalVars, recordVars, sessionVars, A!TypeOK, SessionTypeOK

\* So does an answer that reaches its caller.
LEMMA AnswerTyped ==
    ASSUME TypeInv, NEW t \in tasks, NEW ok \in BOOLEAN, Answer(t, ok)
    PROVE  TypeInv'
  <1>1. ServerType'
    BY DEF TypeInv, Answer, ServerType, approvalVars, recordVars, sessionVars, A!TypeOK, SessionTypeOK
  <1>2. told' \in SUBSET (Recs \X {"APPROVED", "REJECTED"})
    <2>1. t.call \in Call
      BY DEF TypeInv, ServerType, Task
    <2> QED BY <2>1, CallNames DEF TypeInv, ServerType, Answer
  <1>3. loads' \in [Slots -> LoadStates]
    <2>1. loads \in [Slots -> LoadStates] /\ Asked \in LoadStates
      BY DEF TypeInv, LoadStates
    <2>2. (\E i \in Slots : loads' = [loads EXCEPT ![i] = Asked]) \/ loads' = loads
      BY DEF Answer
    <2> QED BY <2>1, <2>2
  <1>4. inbox' \in SUBSET [id : Nat, op : BotOps, tries : Nat]
    BY DEF TypeInv, ServerType, Answer
  <1>5. view' = view /\ events' = events
    BY DEF Answer
  <1> QED BY <1>1, <1>2, <1>3, <1>4, <1>5 DEF TypeInv

\* So does Kite's answer.
LEMMA KiteAnswersTyped ==
    ASSUME TypeInv, NEW t \in tasks, KiteAnswers(t)
    PROVE  TypeInv'
  <1>1. /\ t \in Task /\ t.call \in Call /\ t.held \in A!Request \cup {A!NoRequest}
        /\ tasks \in SUBSET Task
    BY DEF TypeInv, ServerType, Task
  <1>2. tasks' \in SUBSET Task
    <2>1. PICK ok \in BOOLEAN :
             tasks' = (tasks \ {t}) \cup
                        {[t EXCEPT !.at = "REPLYING", !.ok = ok, !.held = A!NoRequest]}
      BY DEF KiteAnswers
    <2>2. [t EXCEPT !.at = "REPLYING", !.ok = ok, !.held = A!NoRequest] \in Task
      BY <1>1 DEF Task
    <2> QED BY <1>1, <2>1, <2>2
  <1>3. executions' \in [Recs -> Outcomes \cup {None}]
    <2>1. executions \in [Recs -> Outcomes \cup {None}]
      BY DEF TypeInv, ServerType
    <2> QED BY <2>1 DEF KiteAnswers, Executed, Outcomes
  <1>4. logged' \in [Recs -> A!Request \cup {A!NoRequest}]
    <2>1. logged \in [Recs -> A!Request \cup {A!NoRequest}]
      BY DEF TypeInv, ServerType
    <2> QED BY <1>1, <2>1 DEF KiteAnswers, Log
  <1>5. UNCHANGED <<approvalVars, profile, watchlist, sessionVars, inbox, view, loads, told,
                    sent, events>>
    BY DEF KiteAnswers
  <1>6. ServerType'
    BY <1>2, <1>3, <1>4, <1>5
    DEF TypeInv, ServerType, approvalVars, sessionVars, A!TypeOK, SessionTypeOK
  <1> QED BY <1>5, <1>6 DEF TypeInv

\* So does a restart.
LEMMA RestartTyped == ASSUME TypeInv, Restart PROVE TypeInv'
  <1>1. SessionTypeOK'
    BY SessionTyped DEF TypeInv, ServerType, Restart, SessionStep
  <1>2. ServerType'
    BY <1>1 DEF TypeInv, ServerType, Restart, Restored, recordVars, A!TypeOK
  <1>3. loads' \in [Slots -> LoadStates]
    BY DEF TypeInv, Restart, LoadStates
  <1>4. events' \in Nat
    BY DEF TypeInv, ServerType, Restart, Happens
  <1> QED BY <1>2, <1>3, <1>4 DEF TypeInv, Restart

\* So do the page's loads.
LEMMA PageTyped ==
    ASSUME TypeInv,
           \E i \in Slots : StartLoad(i) \/ ServeLoad(i) \/ FinishLoad(i) \/ Render(i) \/ LoadFails(i)
    PROVE  TypeInv'
  <1> PICK i \in Slots :
           StartLoad(i) \/ ServeLoad(i) \/ FinishLoad(i) \/ Render(i) \/ LoadFails(i)
    OBVIOUS
  <1> loads \in [Slots -> LoadStates] /\ {Idle, Asked, AtKite} \subseteq LoadStates
    BY DEF TypeInv, LoadStates
  <1>1. CASE StartLoad(i)
    BY <1>1, ServerUntouched DEF TypeInv, StartLoad
  <1>2. ASSUME NEW connected \in BOOLEAN, ReadTables(i, connected),
               UNCHANGED <<recordVars, sessionVars, tasks, inbox, view, told, sent, events>>
        PROVE  TypeInv'
    BY <1>2, TablesReadTyped DEF TypeInv, ServerType, recordVars, sessionVars, SessionTypeOK
  <1>3. CASE ServeLoad(i)
    BY <1>2, <1>3, ServerUntouched DEF TypeInv, ServeLoad
  <1>4. CASE FinishLoad(i)
    BY <1>2, <1>4 DEF FinishLoad
  <1>5. CASE Render(i)
    <2>1. view' \in View
      BY <1>5 DEF Render, Rendered, LoadStates, Idle, Asked, AtKite
    <2> QED BY <1>5, <2>1, ServerUntouched DEF TypeInv, Render
  <1>6. CASE LoadFails(i)
    BY <1>6, ServerUntouched DEF TypeInv, LoadFails
  <1> QED BY <1>1, <1>3, <1>4, <1>5, <1>6

\* A call of either front end keeps everything typed.
LEMMA CallTyped ==
    ASSUME TypeInv, NEW c \in Call, Serve(c), events' \in Nat,
           inbox' \in SUBSET [id : Nat, op : BotOps, tries : Nat]
    PROVE  TypeInv'
  BY ServeTyped, ServeLeaves DEF TypeInv

\* Every step does.
LEMMA NextTyped == TypeInv /\ [Next]_vars => TypeInv'
  <1> SUFFICES ASSUME TypeInv, [Next]_vars PROVE TypeInv'
    OBVIOUS
  <1>0. events \in Nat /\ inbox \in SUBSET [id : Nat, op : BotOps, tries : Nat]
    BY DEF TypeInv, ServerType
  <1>1. ASSUME NEW op \in PageOps, Click(op) PROVE TypeInv'
    <2>1. [id |-> events, from |-> "PAGE", try |-> 1, op |-> op] \in Call
      BY <1>0 DEF Call
    <2> QED BY <1>0, <1>1, <2>1, CallTyped DEF Click, Happens
  <1>2. ASSUME NEW op \in BotOps, Send(op) PROVE TypeInv'
    <2>1. [id |-> events, from |-> "BOT", try |-> 1, op |-> op] \in Call
      BY <1>0 DEF Call
    <2>2. inbox' \in SUBSET [id : Nat, op : BotOps, tries : Nat]
      BY <1>0, <1>2 DEF Send
    <2> QED BY <1>0, <1>2, <2>1, <2>2, CallTyped DEF Send, Happens
  <1>3. ASSUME NEW u \in inbox, Redeliver(u) PROVE TypeInv'
    <2>1. [id |-> u.id, from |-> "BOT", try |-> u.tries + 1, op |-> u.op] \in Call
      BY <1>0 DEF Call
    <2>2. inbox' \in SUBSET [id : Nat, op : BotOps, tries : Nat]
      BY <1>0, <1>3 DEF Redeliver
    <2> QED BY <1>0, <1>3, <2>1, <2>2, CallTyped DEF Redeliver, Happens
  <1>4. ASSUME NEW t \in tasks, KiteAnswers(t) \/ \E ok \in BOOLEAN : Answer(t, ok) PROVE TypeInv'
    BY <1>4, KiteAnswersTyped, AnswerTyped
  <1>5. ASSUME NEW l \in Logins, Connect(l) \/ Exchanged(l) PROVE TypeInv'
    <2>1. SessionTypeOK' /\ events' \in Nat
      BY <1>0, <1>5, SessionTyped
      DEF TypeInv, ServerType, Connect, Exchanged, Happens, clientVars, SessionStep
    <2> QED BY <1>5, <2>1
        DEF TypeInv, Connect, Exchanged, clientVars, ServerType, approvalVars, recordVars, A!TypeOK
  <1>6. CASE \E i \in Slots :
              StartLoad(i) \/ ServeLoad(i) \/ FinishLoad(i) \/ Render(i) \/ LoadFails(i)
    BY <1>6, PageTyped
  <1>7. CASE Restart
    BY <1>7, RestartTyped
  <1>8. CASE Tick
    BY <1>0, <1>8
    DEF TypeInv, Tick, Happens, ServerType, recordVars, sessionVars, SessionTypeOK, A!Tick, A!TypeOK
  <1>9. CASE UNCHANGED vars
    BY <1>9, ServerUntouched DEF TypeInv, vars, clientVars
  <1> QED BY <1>1, <1>2, <1>3, <1>4, <1>5, <1>6, <1>7, <1>8, <1>9 DEF Next

(***************************************************************************)
(* The variables of FrontEnds always have their types: approvals, session, *)
(* tables, handlers, updates, what the page shows and loads, and what the  *)
(* operator was told.                                                      *)
(***************************************************************************)
THEOREM FrontEndsTyped == Spec => []TypeOK
  <1>1. Init => TypeInv
    BY InitTyped
  <1>2. TypeInv /\ [Next]_vars => TypeInv'
    BY NextTyped
  <1>3. TypeInv => TypeOK
    BY TypeInvTypes
  <1> QED BY <1>1, <1>2, <1>3, PTL DEF Spec

-----------------------------------------------------------------------------
(***************************************************************************)
(* Decisions and live orders                                               *)
(***************************************************************************)

Verb(kind) == IF kind = "APPROVE" THEN "APPROVED" ELSE "REJECTED"
Standing(d) == IF d = "APPROVED" THEN {"APPROVED", "CONSUMED"} ELSE {"REJECTED"}

\* A decision that nothing undoes: not the table, not the log a restart reads,
\* not a run object that a handler still holds and will store.
Decided(r, d) ==
    /\ r \in issued
    /\ A!Has(r) => requests[r].status \in Standing(d)
    /\ logged[r] # A!NoRequest => logged[r].status = d
    /\ \A t \in tasks : t.at = "KITE" /\ t.call.op.rec = r => d = "APPROVED"

\* A handler that reports a decision to the operator.
Reports(t) == t.at = "REPLYING" /\ t.ok /\ t.call.op.kind \in {"APPROVE", "REJECT"}

KnownInv == \A r \in Recs : A!Has(r) \/ logged[r] # A!NoRequest => r \in issued

LoggedInv ==
    \A r \in Recs :
       /\ logged[r].status \in {"NONE", "PENDING", "APPROVED", "REJECTED"}
       /\ requests[r].status \in {"APPROVED", "CONSUMED"} => logged[r].status = "APPROVED"
       /\ requests[r].status \in {"PENDING", "EXPIRED"} => logged[r].status = "PENDING"

KiteInv ==
    \A t \in tasks : t.at = "KITE" =>
       /\ t.call.op.kind = "SUBMIT"
       /\ t.call.op.rec \in issued
       /\ t.held.status = "APPROVED"
       /\ requests[t.call.op.rec].status \in {"NONE", "CONSUMED"}

ReportInv == \A t \in tasks : Reports(t) => Decided(t.call.op.rec, Verb(t.call.op.kind))

ToldInv == \A d \in told : Decided(d[1], d[2])

SentInv ==
    \A r \in Recs :
       /\ sent[r] \in {0, 1}
       /\ sent[r] = 1 => r \in issued /\ requests[r].status \in {"NONE", "CONSUMED"}

DecisionInv == KnownInv /\ LoggedInv /\ KiteInv /\ ReportInv /\ ToldInv /\ SentInv

-----------------------------------------------------------------------------
\* What any step does to r: the ways the table and the log may move together.
Fate(r) ==
    \/ requests'[r] = requests[r] /\ logged'[r] = logged[r]
    \/ r \notin issued /\ requests'[r].status = "PENDING" /\ logged'[r] = requests'[r] /\ r \in issued'
    \/ /\ requests[r].status = "PENDING" /\ now <= requests[r].expiresAt
       /\ requests'[r].status \in {"APPROVED", "REJECTED"} /\ logged'[r] = requests'[r]
    \/ requests[r].status = "PENDING" /\ requests'[r].status = "EXPIRED" /\ logged'[r] = logged[r]
    \/ requests[r].status = "APPROVED" /\ requests'[r].status = "CONSUMED" /\ logged'[r] = logged[r]
    \/ requests'[r] = A!NoRequest /\ logged'[r] = A!NoRequest
    \/ /\ requests'[r] = requests[r]
       /\ \E t \in tasks : t.at = "KITE" /\ t.call.op.rec = r /\ logged'[r] = t.held
    \/ /\ requests'[r] = logged[r] /\ logged'[r] = logged[r]
       /\ tasks' = {} /\ sent'[r] = 0

Consumed(r) == requests[r].status = "APPROVED" /\ requests'[r].status = "CONSUMED"

\* What any step does to the handlers, the operator's knowledge and the orders.
TaskStep ==
    \A t \in tasks' \ tasks :
       /\ t.at = "KITE" => /\ t.call.op.kind = "SUBMIT" /\ Consumed(t.call.op.rec)
                           /\ t.held = logged[t.call.op.rec]
       /\ Reports(t) => /\ requests[t.call.op.rec].status = "PENDING"
                        /\ requests'[t.call.op.rec].status = Verb(t.call.op.kind)
                        /\ logged'[t.call.op.rec] = requests'[t.call.op.rec]

ToldStep ==
    \A d \in told' \ told : \E t \in tasks : Reports(t) /\ d = <<t.call.op.rec, Verb(t.call.op.kind)>>

SentStep == \A r \in Recs : sent'[r] \in {0, sent[r]} \/ (sent'[r] = sent[r] + 1 /\ Consumed(r))

DecisionStep ==
    /\ \A r \in Recs : Fate(r)
    /\ issued \subseteq issued'
    /\ TaskStep /\ ToldStep /\ SentStep

Statuses == {"NONE", "PENDING", "APPROVED", "REJECTED", "EXPIRED", "CONSUMED"}

\* The status tells whether there is a request.
LEMMA HasByStatus ==
    ASSUME NEW q \in A!Request \cup {A!NoRequest}
    PROVE  (q = A!NoRequest <=> q.status = "NONE") /\ q.status \in Statuses
  BY DEF A!Request, A!NoRequest, A!Statuses, Statuses

\* What is decided stays decided, through restarts and late answers of Kite.
LEMMA DecidedKept ==
    ASSUME TypeInv, TypeInv', DecisionInv, DecisionStep,
           NEW r \in Recs, NEW d \in {"APPROVED", "REJECTED"}, Decided(r, d)
    PROVE  Decided(r, d)'
  <1>1. /\ (A!Has(r) <=> requests[r].status # "NONE") /\ (A!Has(r) <=> requests[r].status # "NONE")'
        /\ (logged[r] = A!NoRequest <=> logged[r].status = "NONE")
        /\ (logged[r] = A!NoRequest <=> logged[r].status = "NONE")'
    BY HasByStatus DEF TypeInv, ServerType, A!TypeOK, A!Has
  <1>2. Fate(r) /\ issued \subseteq issued'
    BY DEF DecisionStep
  <1>3. ASSUME NEW t \in tasks, t.at = "KITE", t.call.op.rec = r
        PROVE  d = "APPROVED" /\ t.held.status = "APPROVED"
    BY <1>3 DEF Decided, DecisionInv, KiteInv
  <1>4. ASSUME NEW t \in tasks', t.at = "KITE", t.call.op.rec = r
        PROVE  d = "APPROVED"
    <2>1. CASE t \in tasks
      BY <1>3, <1>4, <2>1
    <2>2. CASE t \notin tasks
      <3>1. requests[r].status = "APPROVED"
        BY <1>4, <2>2 DEF DecisionStep, TaskStep, Consumed
      <3> QED BY <1>1, <3>1 DEF Decided, Standing
    <2> QED BY <2>1, <2>2
  <1>5. /\ A!Has(r)' => (requests[r].status)' \in Standing(d)
        /\ (logged[r] # A!NoRequest)' => (logged[r].status)' = d
    BY <1>1, <1>2, <1>3 DEF Fate, Decided, Standing
  <1> QED BY <1>2, <1>4, <1>5 DEF Decided, Standing

\* A step of those kinds keeps every part of the invariant.
LEMMA DecisionStepKeeps ==
    ASSUME TypeInv, TypeInv', DecisionInv, DecisionStep
    PROVE  DecisionInv'
  <1>1. ASSUME NEW r \in Recs
        PROVE  /\ A!Has(r) <=> requests[r].status # "NONE"
               /\ (A!Has(r) <=> requests[r].status # "NONE")'
               /\ logged[r] = A!NoRequest <=> logged[r].status = "NONE"
               /\ (logged[r] = A!NoRequest <=> logged[r].status = "NONE")'
               /\ requests[r] = A!NoRequest <=> requests[r].status = "NONE"
               /\ Fate(r)
    BY HasByStatus DEF TypeInv, ServerType, A!TypeOK, A!Has, DecisionStep
  <1>2. /\ issued \subseteq issued' /\ issued \subseteq Recs
        /\ \A t \in tasks' : t \in Task
    BY DEF DecisionStep, TypeInv, ServerType, A!TypeOK
  <1>3. KnownInv'
    BY <1>1, <1>2 DEF DecisionInv, KnownInv, KiteInv, Fate
  <1>4. LoggedInv'
    BY <1>1 DEF DecisionInv, LoggedInv, KiteInv, KnownInv, Fate, A!NoRequest
  <1>5. KiteInv'
    <2> SUFFICES ASSUME NEW t \in tasks', t.at = "KITE"
                 PROVE  /\ t.call.op.kind = "SUBMIT"
                        /\ t.call.op.rec \in issued'
                        /\ t.held.status = "APPROVED"
                        /\ requests'[t.call.op.rec].status \in {"NONE", "CONSUMED"}
      BY DEF KiteInv
    <2>1. CASE t \in tasks
      <3>1. /\ t.call.op.kind = "SUBMIT" /\ t.call.op.rec \in issued
            /\ t.held.status = "APPROVED"
            /\ requests[t.call.op.rec].status \in {"NONE", "CONSUMED"}
        BY <2>1 DEF DecisionInv, KiteInv
      <3> QED BY <1>1, <1>2, <2>1, <3>1 DEF Fate, A!NoRequest
    <2>2. CASE t \notin tasks
      <3>1. /\ t.call.op.kind = "SUBMIT" /\ Consumed(t.call.op.rec)
            /\ t.held = logged[t.call.op.rec]
        BY <2>2 DEF DecisionStep, TaskStep
      <3>2. t.call.op.rec \in Recs
        BY <1>2, <3>1, CallNames DEF Task
      <3> QED BY <1>1, <1>2, <3>1, <3>2 DEF Consumed, DecisionInv, KnownInv, LoggedInv
    <2> QED BY <2>1, <2>2
  <1>6. ReportInv'
    <2> SUFFICES ASSUME NEW t \in tasks', Reports(t)
                 PROVE  Decided(t.call.op.rec, Verb(t.call.op.kind))'
      BY DEF ReportInv, Reports
    <2> DEFINE r == t.call.op.rec
               d == Verb(t.call.op.kind)
    <2>1. r \in Recs /\ d \in {"APPROVED", "REJECTED"}
      BY <1>2, CallNames DEF Task, Reports, Verb
    <2>2. CASE t \in tasks
      BY <2>1, <2>2, DecidedKept DEF DecisionInv, ReportInv
    <2>3. CASE t \notin tasks
      <3>1. /\ requests[r].status = "PENDING" /\ requests'[r].status = d
            /\ logged'[r] = requests'[r]
        BY <2>3 DEF DecisionStep, TaskStep
      <3>2. r \in issued'
        BY <1>1, <1>2, <2>1, <3>1 DEF DecisionInv, KnownInv
      <3>3. ASSUME NEW u \in tasks', u.at = "KITE", u.call.op.rec = r
            PROVE  FALSE
        <4>1. u \in tasks
          BY <3>1, <3>3 DEF DecisionStep, TaskStep, Consumed
        <4> QED BY <3>1, <3>3, <4>1 DEF DecisionInv, KiteInv
      <3> QED BY <3>1, <3>2, <3>3 DEF Decided, Standing, Verb
    <2> QED BY <2>2, <2>3
  <1>7. ToldInv'
    <2> SUFFICES ASSUME NEW p \in told' PROVE Decided(p[1], p[2])'
      BY DEF ToldInv
    <2>1. p[1] \in Recs /\ p[2] \in {"APPROVED", "REJECTED"}
      BY DEF TypeInv
    <2>2. Decided(p[1], p[2])
      BY DEF DecisionStep, ToldStep, DecisionInv, ToldInv, ReportInv
    <2> QED BY <2>1, <2>2, DecidedKept
  <1>8. SentInv'
    <2> SUFFICES ASSUME NEW r \in Recs
                 PROVE  /\ sent'[r] \in {0, 1}
                        /\ sent'[r] = 1 => r \in issued' /\ requests'[r].status \in {"NONE", "CONSUMED"}
      BY DEF SentInv
    <2>1. sent[r] \in {0, 1} /\ (sent[r] = 1 => r \in issued /\ requests[r].status \in {"NONE", "CONSUMED"})
      BY DEF DecisionInv, SentInv
    <2>2. sent'[r] \in {0, sent[r]} \/ (sent'[r] = sent[r] + 1 /\ Consumed(r))
      BY DEF DecisionStep, SentStep
    <2>3. CASE sent'[r] = sent[r] + 1 /\ Consumed(r)
      BY <1>1, <1>2, <2>1, <2>3 DEF Consumed, DecisionInv, KnownInv
    <2>4. CASE sent'[r] = sent[r] /\ sent[r] = 1
      BY <1>1, <1>2, <2>1, <2>4 DEF Fate, A!NoRequest
    <2> QED BY <2>1, <2>2, <2>3, <2>4
  <1> QED BY <1>3, <1>4, <1>5, <1>6, <1>7, <1>8 DEF DecisionInv

-----------------------------------------------------------------------------
(***************************************************************************)
(* Every step of the front ends is such a step                             *)
(***************************************************************************)

\* A handler that ends at once, on tables that the calls of r alone changed.
LEMMA CallStep ==
    ASSUME TypeInv, NEW c \in Call,
           UNCHANGED told,
           issued \subseteq issued',
           \A r \in Recs : Fate(r),
           \/ \E ok \in BOOLEAN :
                 /\ Reply(c, ok) /\ UNCHANGED sent
                 /\ ok /\ c.op.kind \in {"APPROVE", "REJECT"} =>
                      /\ requests[c.op.rec].status = "PENDING"
                      /\ requests'[c.op.rec].status = Verb(c.op.kind)
                      /\ logged'[c.op.rec] = requests'[c.op.rec]
           \/ /\ c.op.kind = "SUBMIT" /\ Consumed(c.op.rec)
              /\ Suspend(c, "KITE", TRUE, logged[c.op.rec])
              /\ sent' = [sent EXCEPT ![c.op.rec] = @ + 1]
    PROVE  DecisionStep
  <1>1. TaskStep
    <2>1. CASE \E ok \in BOOLEAN :
                 /\ Reply(c, ok) /\ UNCHANGED sent
                 /\ ok /\ c.op.kind \in {"APPROVE", "REJECT"} =>
                      /\ requests[c.op.rec].status = "PENDING"
                      /\ requests'[c.op.rec].status = Verb(c.op.kind)
                      /\ logged'[c.op.rec] = requests'[c.op.rec]
      BY <2>1 DEF TaskStep, Reply, Suspend, Reports
    <2>2. CASE /\ c.op.kind = "SUBMIT" /\ Consumed(c.op.rec)
               /\ Suspend(c, "KITE", TRUE, logged[c.op.rec])
      BY <2>2 DEF TaskStep, Suspend, Reports
    <2> QED BY <2>1, <2>2
  <1>2. SentStep
    <2>1. sent \in [Recs -> Nat]
      BY DEF TypeInv, ServerType
    <2> QED BY <2>1 DEF SentStep
  <1>3. ToldStep
    BY DEF ToldStep
  <1> QED BY <1>1, <1>2, <1>3 DEF DecisionStep

\* What the approval service's calls do to the request of r, and to no other.
LEMMA ApprovalFates ==
    ASSUME A!TypeOK, NEW r \in Recs, NEW q \in Recs
    PROVE  /\ A!RequestApproval(r) =>
                /\ r \notin issued /\ issued' = issued \cup {r}
                /\ requests'[q] = IF q = r THEN A!NewRequest ELSE requests[q]
           /\ A!Approve(r, r) \/ A!Reject(r, r) \/ A!DecideLate(r, r) \/ A!Read(r) =>
                /\ requests[r].status = "PENDING" /\ issued' = issued
                /\ q # r => requests'[q] = requests[q]
           /\ A!Approve(r, r) => requests'[r].status = "APPROVED"
           /\ A!Reject(r, r) => requests'[r].status = "REJECTED"
           /\ A!Approve(r, r) \/ A!Reject(r, r) => now <= requests[r].expiresAt
           /\ A!DecideLate(r, r) \/ A!Read(r) => requests'[r].status = "EXPIRED"
           /\ A!Consume(r, r) =>
                /\ requests[r].status = "APPROVED" /\ requests'[r].status = "CONSUMED"
                /\ issued' = issued
                /\ q # r => requests'[q] = requests[q]
  <1>1. requests \in [Recs -> A!Request \cup {A!NoRequest}]
    BY DEF A!TypeOK
  <1>2. A!RequestApproval(r) =>
                /\ r \notin issued /\ issued' = issued \cup {r}
                /\ requests'[q] = IF q = r THEN A!NewRequest ELSE requests[q]
    BY <1>1 DEF A!RequestApproval
  <1>3. ASSUME A!Has(r), NEW s \in A!Statuses,
               requests' = [requests EXCEPT ![r] = A!Moved(r, s)]
        PROVE  requests'[r].status = s /\ (q # r => requests'[q] = requests[q])
    BY <1>1, <1>3 DEF A!Moved, A!Has, A!Request
  <1>4. A!Approve(r, r) => /\ requests[r].status = "PENDING" /\ issued' = issued
                           /\ requests'[r].status = "APPROVED"
                           /\ q # r => requests'[q] = requests[q]
    BY <1>3 DEF A!Approve, A!MayDecide, A!PendingFor, A!Statuses
  <1>5. A!Reject(r, r) => /\ requests[r].status = "PENDING" /\ issued' = issued
                          /\ requests'[r].status = "REJECTED"
                          /\ q # r => requests'[q] = requests[q]
    BY <1>3 DEF A!Reject, A!MayDecide, A!PendingFor, A!Statuses
  <1>6. A!DecideLate(r, r) => /\ requests[r].status = "PENDING" /\ issued' = issued
                              /\ requests'[r].status = "EXPIRED"
                              /\ q # r => requests'[q] = requests[q]
    BY <1>3 DEF A!DecideLate, A!DecidesTooLate, A!PendingFor, A!Statuses
  <1>7. A!Read(r) => /\ requests[r].status = "PENDING" /\ issued' = issued
                     /\ requests'[r].status = "EXPIRED"
                     /\ q # r => requests'[q] = requests[q]
    BY <1>3 DEF A!Read, A!ReadExpires, A!Statuses
  <1>8. A!Consume(r, r) => /\ requests[r].status = "APPROVED" /\ issued' = issued
                           /\ requests'[r].status = "CONSUMED"
                           /\ q # r => requests'[q] = requests[q]
    BY <1>3 DEF A!Consume, A!MayConsume, A!Statuses
  <1>9. A!Approve(r, r) \/ A!Reject(r, r) => now <= requests[r].expiresAt
    <2>1. now \in Nat /\ (A!Has(r) => requests[r].expiresAt \in Nat)
      BY <1>1 DEF A!TypeOK, A!Has, A!Request
    <2> QED BY <2>1 DEF A!Approve, A!Reject, A!MayDecide, A!PendingFor, A!Overdue
  <1> QED BY <1>2, <1>4, <1>5, <1>6, <1>7, <1>8, <1>9

\* The bot's look at an approval at most expires it.
LEMMA ConsultsFates ==
    ASSUME TypeInv, NEW c \in Call, c.op.kind = "SUBMIT", Consults(c), UNCHANGED logged
    PROVE  issued' = issued /\ \A r \in Recs : Fate(r)
  <1>1. c.op.rec \in Recs /\ A!TypeOK
    BY CallNames DEF TypeInv, ServerType
  <1>2. A!Read(c.op.rec) \/ UNCHANGED approvalVars
    BY DEF Consults
  <1> QED BY <1>1, <1>2, ApprovalFates DEF Fate, approvalVars

\* Every handler is such a step.
LEMMA ServeDecisionStep ==
    ASSUME TypeInv, NEW c \in Call, Serve(c) PROVE DecisionStep
  <1>0. A!TypeOK /\ logged \in [Recs -> A!Request \cup {A!NoRequest}]
    BY DEF TypeInv, ServerType
  <1>1. UNCHANGED told
    BY ServeLeaves
  <1>2. CASE ServeAnalysis(c)
    <2>1. ~(c.op.kind \in {"APPROVE", "REJECT"}) /\ UNCHANGED sent
      BY <1>2 DEF ServeAnalysis
    <2>2. CASE \E r \in Recs : A!RequestApproval(r) /\ Log(r, A!NewRequest) /\ Reply(c, TRUE)
      <3>1. PICK r \in Recs : A!RequestApproval(r) /\ Log(r, A!NewRequest) /\ Reply(c, TRUE)
        BY <2>2
      <3>2. A!NewRequest.status = "PENDING"
        BY DEF A!NewRequest
      <3>3. issued' = issued \cup {r} /\ \A q \in Recs : Fate(q)
        BY <1>0, <3>1, <3>2, ApprovalFates DEF Fate, Log
      <3> QED BY <1>1, <2>1, <3>1, <3>3, CallStep
    <2>3. CASE Reply(c, FALSE) /\ UNCHANGED <<approvalVars, profile, logged>>
      <3>1. issued' = issued /\ \A q \in Recs : Fate(q)
        BY <2>3 DEF Fate, approvalVars
      <3> QED BY <1>1, <2>1, <2>3, <3>1, CallStep
    <2> QED BY <1>2, <2>2, <2>3 DEF ServeAnalysis
  <1>3. CASE ServeDecision(c)
    <2> DEFINE r == c.op.rec
    <2>1. r \in Recs /\ c.op.kind \in {"APPROVE", "REJECT"} /\ UNCHANGED sent
      BY <1>3, CallNames DEF ServeDecision
    <2>2. CASE /\ \/ c.op.kind = "APPROVE" /\ A!Approve(r, r)
                  \/ c.op.kind = "REJECT" /\ A!Reject(r, r)
               /\ Log(r, requests'[r]) /\ Reply(c, TRUE)
      <3>1. /\ requests[r].status = "PENDING" /\ requests'[r].status = Verb(c.op.kind)
            /\ now <= requests[r].expiresAt
            /\ requests'[r].status \in {"APPROVED", "REJECTED"} /\ issued' = issued
        BY <1>0, <2>1, <2>2, ApprovalFates DEF Verb
      <3>2. logged'[r] = requests'[r] /\ \A q \in Recs : q # r => logged'[q] = logged[q]
        BY <1>0, <2>1, <2>2 DEF Log
      <3>3. \A q \in Recs : Fate(q)
        BY <1>0, <2>1, <2>2, <3>1, <3>2, ApprovalFates DEF Fate
      <3> QED BY <1>1, <2>1, <2>2, <3>1, <3>2, <3>3, CallStep
    <2>3. CASE A!DecideLate(r, r) /\ Reply(c, FALSE) /\ UNCHANGED logged
      <3>1. issued' = issued /\ \A q \in Recs : Fate(q)
        BY <1>0, <2>1, <2>3, ApprovalFates DEF Fate
      <3> QED BY <1>1, <2>1, <2>3, <3>1, CallStep
    <2>4. CASE Reply(c, FALSE) /\ UNCHANGED <<approvalVars, logged>>
      <3>1. issued' = issued /\ \A q \in Recs : Fate(q)
        BY <2>4 DEF Fate, approvalVars
      <3> QED BY <1>1, <2>1, <2>4, <3>1, CallStep
    <2> QED BY <1>3, <2>2, <2>3, <2>4 DEF ServeDecision
  <1>4. CASE ServeWithoutBroker(c)
    <2>1. c.op.kind = "SUBMIT" /\ Consults(c) /\ Reply(c, TRUE) /\ UNCHANGED <<logged, sent>>
      BY <1>4 DEF ServeWithoutBroker, KnownOrder
    <2> QED BY <1>1, <2>1, ConsultsFates, CallStep
  <1>5. CASE ServeLiveOrder(c)
    <2> DEFINE r == c.op.rec
    <2>1. c.op.kind = "SUBMIT" /\ r \in Recs /\ UNCHANGED logged
      BY <1>5, CallNames DEF ServeLiveOrder, KnownOrder
    <2>2. \/ Consults(c) /\ Reply(c, FALSE) /\ UNCHANGED sent
          \/ /\ A!Consume(r, r)
             /\ \/ Reply(c, TRUE) /\ UNCHANGED sent
                \/ /\ sent' = [sent EXCEPT ![r] = @ + 1]
                   /\ Suspend(c, "KITE", TRUE, logged[r])
      BY <1>5 DEF ServeLiveOrder
    <2>3. CASE Consults(c) /\ Reply(c, FALSE) /\ UNCHANGED sent
      BY <1>1, <2>1, <2>3, ConsultsFates, CallStep
    <2>4. CASE A!Consume(r, r)
      <3>1. Consumed(r) /\ issued' = issued /\ \A q \in Recs : Fate(q)
        BY <1>0, <2>1, <2>4, ApprovalFates DEF Fate, Consumed
      <3> QED BY <1>1, <2>1, <2>2, <3>1, ConsultsFates, CallStep
    <2> QED BY <2>2, <2>3, <2>4
  <1>6. CASE ServeUnchanged(c)
    <2>1. /\ ~(c.op.kind \in {"APPROVE", "REJECT"}) /\ UNCHANGED <<requests, issued, logged, sent>>
          /\ \E ok \in BOOLEAN : Reply(c, ok)
      BY <1>6 DEF ServeUnchanged, approvalVars, recordVars, A!Has
    <2>2. \A q \in Recs : Fate(q)
      BY <2>1 DEF Fate
    <2> QED BY <1>1, <2>1, <2>2, CallStep
  <1>7. CASE ServeWatchlist(c) \/ ServeDisconnect(c)
    <2>1. /\ ~(c.op.kind \in {"APPROVE", "REJECT"}) /\ UNCHANGED <<requests, issued, logged, sent>>
          /\ \E ok \in BOOLEAN : Reply(c, ok)
      BY <1>7 DEF ServeWatchlist, ServeDisconnect, approvalVars, recordVars
    <2>2. \A q \in Recs : Fate(q)
      BY <2>1 DEF Fate
    <2> QED BY <1>1, <2>1, <2>2, CallStep
  <1>8. CASE ServeClear(c)
    <2>1. /\ ~(c.op.kind \in {"APPROVE", "REJECT"}) /\ UNCHANGED <<issued, sent>>
          /\ Reply(c, TRUE)
      BY <1>8 DEF ServeClear, A!Clear
    <2>2. \A q \in Recs : Fate(q)
      BY <1>8 DEF ServeClear, A!Clear, Fate
    <2> QED BY <1>1, <2>1, <2>2, CallStep
  <1> QED BY <1>2, <1>3, <1>4, <1>5, <1>6, <1>7, <1>8 DEF Serve

\* A step that leaves the decisions, the handlers and the orders alone.
LEMMA QuietStep ==
    ASSUME UNCHANGED <<requests, issued, logged, tasks, told, sent>> PROVE DecisionStep
  BY DEF DecisionStep, Fate, TaskStep, ToldStep, SentStep

\* So are the page's loads, which may expire requests.
LEMMA PageDecisionStep ==
    ASSUME TypeInv,
           \E i \in Slots : StartLoad(i) \/ ServeLoad(i) \/ FinishLoad(i) \/ Render(i) \/ LoadFails(i)
    PROVE  DecisionStep
  <1>1. ASSUME NEW i \in Slots, NEW connected \in BOOLEAN, ReadTables(i, connected),
               UNCHANGED <<logged, tasks, told, sent>>
        PROVE  DecisionStep
    <2>1. ASSUME NEW r \in Recs PROVE Fate(r)
      <3>1. CASE A!ReadExpires(r)
        <4>1. requests[r] \in A!Request /\ requests[r].status = "PENDING"
          BY <3>1 DEF A!ReadExpires, A!Has, TypeInv, ServerType, A!TypeOK
        <4>2. requests'[r] = A!Moved(r, "EXPIRED") /\ logged'[r] = logged[r]
          BY <1>1, <3>1 DEF ReadTables
        <4> QED BY <4>1, <4>2 DEF Fate, A!Moved, A!Request
      <3>2. CASE ~A!ReadExpires(r)
        BY <1>1, <3>2 DEF ReadTables, Fate
      <3> QED BY <3>1, <3>2
    <2> QED BY <1>1, <2>1 DEF ReadTables, DecisionStep, TaskStep, ToldStep, SentStep
  <1> PICK i \in Slots :
           StartLoad(i) \/ ServeLoad(i) \/ FinishLoad(i) \/ Render(i) \/ LoadFails(i)
    OBVIOUS
  <1>2. CASE StartLoad(i) \/ Render(i) \/ LoadFails(i)
    BY <1>2, QuietStep DEF StartLoad, Render, LoadFails, approvalVars, recordVars
  <1>3. CASE ServeLoad(i)
    BY <1>1, <1>3, QuietStep DEF ServeLoad, approvalVars, recordVars
  <1>4. CASE FinishLoad(i)
    BY <1>1, <1>4 DEF FinishLoad, recordVars
  <1> QED BY <1>2, <1>3, <1>4

\* So is an answer: it tells the operator only what a handler reports.
LEMMA AnswerDecisionStep ==
    ASSUME TypeInv, NEW t \in tasks, NEW ok \in BOOLEAN, Answer(t, ok) PROVE DecisionStep
  <1>1. UNCHANGED <<requests, issued, logged, sent>> /\ tasks' \subseteq tasks
    BY DEF Answer, approvalVars, recordVars
  <1>2. ToldStep
    BY DEF Answer, ToldStep, Reports, Verb
  <1> QED BY <1>1, <1>2 DEF DecisionStep, Fate, TaskStep, SentStep

\* So is Kite's answer, which stores again the log its handler held.
LEMMA KiteDecisionStep ==
    ASSUME TypeInv, KiteInv, NEW t \in tasks, KiteAnswers(t) PROVE DecisionStep
  <1>1. UNCHANGED <<requests, issued, sent, told>>
    BY DEF KiteAnswers, approvalVars
  <1>2. /\ t.at = "KITE" /\ t.call.op.kind = "SUBMIT" /\ t \in Task
        /\ logged \in [Recs -> A!Request \cup {A!NoRequest}]
    BY DEF KiteAnswers, KiteInv, TypeInv, ServerType
  <1>3. TaskStep
    <2>1. PICK ok \in BOOLEAN :
             tasks' = (tasks \ {t}) \cup
                        {[t EXCEPT !.at = "REPLYING", !.ok = ok, !.held = A!NoRequest]}
      BY DEF KiteAnswers
    <2> DEFINE u == [t EXCEPT !.at = "REPLYING", !.ok = ok, !.held = A!NoRequest]
    <2>2. u.at = "REPLYING" /\ u.call.op.kind = "SUBMIT"
      BY <1>2 DEF Task
    <2> QED BY <2>1, <2>2 DEF TaskStep, Reports
  <1>4. ASSUME NEW r \in Recs PROVE Fate(r)
    <2>1. logged' = [logged EXCEPT ![t.call.op.rec] = t.held] \/ logged' = logged
      BY DEF KiteAnswers, Log
    <2> QED BY <1>1, <1>2, <2>1 DEF Fate
  <1> QED BY <1>1, <1>3, <1>4 DEF DecisionStep, ToldStep, SentStep

\* So is every step.
LEMMA NextDecisionStep ==
    ASSUME TypeInv, KiteInv, [Next]_vars PROVE DecisionStep
  <1>0. events \in Nat /\ inbox \in SUBSET [id : Nat, op : BotOps, tries : Nat]
    BY DEF TypeInv
  <1>1. ASSUME NEW op \in PageOps, Click(op) PROVE DecisionStep
    <2>1. [id |-> events, from |-> "PAGE", try |-> 1, op |-> op] \in Call
      BY <1>0 DEF Call
    <2> QED BY <1>1, <2>1, ServeDecisionStep DEF Click
  <1>2. ASSUME NEW op \in BotOps, Send(op) PROVE DecisionStep
    <2>1. [id |-> events, from |-> "BOT", try |-> 1, op |-> op] \in Call
      BY <1>0 DEF Call
    <2> QED BY <1>2, <2>1, ServeDecisionStep DEF Send
  <1>3. ASSUME NEW u \in inbox, Redeliver(u) PROVE DecisionStep
    <2>1. [id |-> u.id, from |-> "BOT", try |-> u.tries + 1, op |-> u.op] \in Call
      BY <1>0 DEF Call
    <2> QED BY <1>3, <2>1, ServeDecisionStep DEF Redeliver
  <1>4. ASSUME NEW t \in tasks, KiteAnswers(t) \/ \E ok \in BOOLEAN : Answer(t, ok) PROVE DecisionStep
    BY <1>4, KiteDecisionStep, AnswerDecisionStep
  <1>5. ASSUME NEW l \in Logins, Connect(l) \/ Exchanged(l) PROVE DecisionStep
    BY <1>5, QuietStep DEF Connect, Exchanged, approvalVars, recordVars, clientVars
  <1>6. CASE \E i \in Slots :
              StartLoad(i) \/ ServeLoad(i) \/ FinishLoad(i) \/ Render(i) \/ LoadFails(i)
    BY <1>6, PageDecisionStep
  <1>7. CASE Restart
    BY <1>7 DEF Restart, Restored, recordVars, DecisionStep, Fate, TaskStep, ToldStep, SentStep
  <1>8. CASE Tick
    BY <1>8, QuietStep DEF Tick, A!Tick, recordVars
  <1>9. CASE UNCHANGED vars
    BY <1>9, QuietStep DEF vars, approvalVars, recordVars, clientVars
  <1> QED BY <1>1, <1>2, <1>3, <1>4, <1>5, <1>6, <1>7, <1>8, <1>9 DEF Next

\* A start has the invariant, whatever the stored runs hold.
LEMMA DecisionInit == Init => DecisionInv
  <1> SUFFICES ASSUME Init PROVE DecisionInv
    OBVIOUS
  <1>1. TypeInv
    BY InitTyped
  <1>2. /\ requests = logged /\ tasks = {} /\ issued = {r \in Recs : A!Has(r)}
        /\ told = {d \in issued \X {"APPROVED", "REJECTED"} : requests[d[1]].status = d[2]}
    BY DEF Init
  <1>3. ASSUME NEW r \in Recs
        PROVE  logged[r].status \in {"NONE", "PENDING", "APPROVED", "REJECTED"}
    BY DEF Init, A!NoRequest
  <1>4. KnownInv /\ LoggedInv
    BY <1>2, <1>3 DEF KnownInv, LoggedInv, A!Has
  <1>5. KiteInv /\ ReportInv
    BY <1>2 DEF KiteInv, ReportInv
  <1>6. ToldInv
    BY <1>2 DEF ToldInv, Decided, Standing
  <1>7. SentInv
    BY DEF Init, SentInv
  <1> QED BY <1>4, <1>5, <1>6, <1>7 DEF DecisionInv

\* Both invariants always hold.
LEMMA Invariance == Spec => [](TypeInv /\ DecisionInv)
  <1>1. Init => TypeInv /\ DecisionInv
    BY InitTyped, DecisionInit
  <1>2. TypeInv /\ DecisionInv /\ [Next]_vars => (TypeInv /\ DecisionInv)'
    <2>1. TypeInv /\ [Next]_vars => TypeInv'
      BY NextTyped
    <2>2. ASSUME TypeInv, TypeInv', DecisionInv, [Next]_vars PROVE DecisionInv'
      BY <2>2, NextDecisionStep, DecisionStepKeeps DEF DecisionInv
    <2> QED BY <2>1, <2>2
  <1> QED BY <1>1, <1>2, PTL DEF Spec

(***************************************************************************)
(* A decision the operator was told of stands: whatever is redelivered,    *)
(* clicked on an old page, expired, restarted or answered late by Kite, a  *)
(* recommendation reported approved is approved or consumed and one        *)
(* reported rejected is rejected, unless the history was cleared.          *)
(***************************************************************************)
THEOREM DecisionsStandAlways == Spec => []DecisionsStand
  <1>1. TypeInv /\ DecisionInv => DecisionsStand
    BY DEF DecisionInv, ToldInv, Decided, Standing, DecisionsStand
  <1> QED BY <1>1, Invariance, PTL

(***************************************************************************)
(* One process sends at most one live order for a recommendation, however  *)
(* often the page and the bot submit it and Telegram redelivers.           *)
(***************************************************************************)
THEOREM OneLiveOrderAlways == Spec => []OneLiveOrder
  <1>1. TypeInv /\ DecisionInv => OneLiveOrder
    BY DEF DecisionInv, SentInv, OneLiveOrder
  <1> QED BY <1>1, Invariance, PTL

(***************************************************************************)
(* No request is decided after its deadline, whichever front end asks, and *)
(* however late: by a click on an old page, a button of the chat, an       *)
(* update delivered again, or the decisions a restart reads back.          *)
(***************************************************************************)
THEOREM FrontEndsDecideInTime == Spec => A!DecidedInTime
  <1>1. TypeInv /\ DecisionInv /\ [Next]_vars =>
          [\A r \in Recs :
             (requests[r].status = "PENDING" /\ requests'[r].status \in {"APPROVED", "REJECTED"})
                 => now <= requests[r].expiresAt]_approvalVars
    <2> SUFFICES ASSUME TypeInv, DecisionInv, [Next]_vars, NEW r \in Recs,
                        requests[r].status = "PENDING", requests'[r].status \in {"APPROVED", "REJECTED"}
                 PROVE  now <= requests[r].expiresAt
      OBVIOUS
    <2>1. Fate(r)
      BY NextDecisionStep DEF DecisionInv, DecisionStep
    <2>2. logged[r].status = "PENDING"
      BY DEF DecisionInv, LoggedInv
    <2> QED BY <2>1, <2>2 DEF Fate, A!NoRequest
  <1> QED BY <1>1, Invariance, PTL DEF Spec, A!DecidedInTime, A!vars, approvalVars
=============================================================================
