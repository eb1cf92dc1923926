----------------------------- MODULE FrontEnds -----------------------------
(***************************************************************************)
(* The two front ends of one server process: the operator console in the   *)
(* browser (api/dashboard.py) and the Telegram bot (the webhook of         *)
(* api/app.py with product/router.py).  Both turn what the operator does   *)
(* into calls of the runtime; the calls overlap, the page acts on a        *)
(* snapshot that may be old, Telegram delivers an update again until its   *)
(* webhook answers, and the server may restart under all of them.          *)
(*                                                                         *)
(* The runtime appears as the front ends see it: the approval requests     *)
(* (Approvals), the broker session (BrokerSession), the last execution of  *)
(* a recommendation and the watchlist; OperatorRuntime has the stores and  *)
(* the steps behind them.  A recommendation, its run and its request are   *)
(* made and cleared together, so r is known while its request is.  Both    *)
(* front ends present the token the server gave them for r, which is r.    *)
(***************************************************************************)
EXTENDS BrokerSession, Naturals

CONSTANTS
    Recs,             \* recommendation ids
    Profiles,         \* what an analysis may find: [action, risk, instrument]
    Ttl, MaxTime,     \* of Approvals
    DefaultSymbols,   \* defaults.watchlist of bot.yaml
    ConfigBroker,     \* broker of bot.yaml
    PageOps, BotOps,  \* what the operator does on the page and in the chat
    Slots,            \* the loads of the page that may overlap
    MaxEvents         \* bound on what happens to the server: calls, logins,
                      \* redeliveries, restarts and ticks together

VARIABLES
    requests, issued, now,    \* of Approvals
    profile,      \* what the analysis of r found
    logged,       \* the last approval event of r in its stored run
    executions,   \* OperatorRuntime.executions, by status
    watchlist,    \* the product:watchlist state, or NoList
    tasks,        \* calls of both front ends the server has not answered
    inbox,        \* Telegram updates not acknowledged
    view,         \* what the page shows: state.bootstrap
    loads,        \* the page's loadBootstrap calls
    told,         \* decisions the operator was told had been taken
    sent,         \* live orders this process sent for r
    events        \* how many of the bounded events happened

approvalVars == <<requests, issued, now>>
recordVars == <<profile, logged, executions, watchlist>>
clientVars == <<tasks, inbox, view, loads, told, events>>
vars == <<approvalVars, recordVars, sessionVars, clientVars, sent>>

A == INSTANCE Approvals

\* The operations name recommendations and symbols, an analysis finds profiles.
ASSUME FrontEndAssumption ==
    /\ Ttl \in Nat
    /\ DefaultSymbols \in SUBSET STRING
    /\ \A op \in PageOps \cup BotOps :
          /\ op.kind \in {"APPROVE", "REJECT", "SUBMIT", "PREVIEW"} => op.rec \in Recs
          /\ op.kind \in {"ADD", "REMOVE"} => op.symbol \in STRING

-----------------------------------------------------------------------------
None == "NONE"
NoList == {"NO_LIST"}      \* no row: no list of symbols
Outcomes == {"FILLED", "PENDING", "REJECTED", "FAILED"}

\* A call of a front end, and the handler suspended in it.
Call == [id : Nat, from : {"PAGE", "BOT"}, try : Nat, op : PageOps \cup BotOps]
Task == [call : Call, at : {"KITE", "REPLYING"}, ok : BOOLEAN,
         held : A!Request \cup {A!NoRequest}]

\* What a bootstrap payload says of r, and all of it.
Shown == [status : A!Statuses \cup {None}, execution : Outcomes \cup {None}]
View == [recs : [Recs -> Shown], connected : BOOLEAN, watchlist : SUBSET STRING]

Idle == [at |-> "IDLE"]
Asked == [at |-> "ASKED"]
AtKite == [at |-> "KITE", connected |-> TRUE]
Answered(payload) == [at |-> "ANSWERED", payload |-> payload]

\* WatchlistState.get_all
Listed == IF watchlist = NoList THEN DefaultSymbols ELSE watchlist

\* list_recommendations and the rest of the payload, from the given approvals.
Payload(approvals, connected) ==
    [recs |-> [r \in Recs |->
                 IF approvals[r] = A!NoRequest THEN [status |-> None, execution |-> None]
                 ELSE [status |-> approvals[r].status, execution |-> executions[r]]],
     connected |-> connected,
     watchlist |-> Listed]

Current == Payload(requests, Connected)

TypeOK ==
    /\ A!TypeOK /\ SessionTypeOK
    /\ profile \in [issued -> Profiles]
    /\ logged \in [Recs -> A!Request \cup {A!NoRequest}]
    /\ executions \in [Recs -> Outcomes \cup {None}]
    /\ Listed \in SUBSET STRING
    /\ tasks \in SUBSET Task
    /\ inbox \in SUBSET [id : Nat, op : BotOps, tries : Nat]
    /\ view \in View
    /\ loads \in [Slots -> {Idle, Asked, AtKite} \cup [at : {"ANSWERED"}, payload : View]]
    /\ told \in SUBSET (Recs \X {"APPROVED", "REJECTED"})
    /\ sent \in [Recs -> Nat]
    /\ events \in Nat

\* A process start, on whatever decisions the stored runs hold.
Init ==
    /\ logged \in [Recs -> {A!NoRequest} \cup
                           [status : {"PENDING", "APPROVED", "REJECTED"}, expiresAt : {Ttl}]]
    /\ requests = logged
    /\ issued = {r \in Recs : A!Has(r)}
    /\ now = 0
    /\ profile \in [issued -> Profiles]
    /\ executions = [r \in Recs |-> None]
    /\ told = {d \in issued \X {"APPROVED", "REJECTED"} : requests[d[1]].status = d[2]}
    /\ SessionInit
    /\ watchlist = NoList
    /\ tasks = {} /\ inbox = {}
    /\ view = Current
    /\ loads = [i \in Slots |-> Idle]
    /\ sent = [r \in Recs |-> 0]
    /\ events = 0

-----------------------------------------------------------------------------
\* Forms of the operators below with a plausible bug, for the mutants of
\* PROJECT.json.
RecommendationsOnly(payload) == [view EXCEPT !.recs = payload.recs]
RestoredPending == [r \in Recs |-> IF logged[r] = A!NoRequest THEN A!NoRequest
                                   ELSE [logged[r] EXCEPT !.status = "PENDING"]]

\* One more of what MaxEvents bounds.
Happens == events < MaxEvents /\ events' = events + 1

(***************************************************************************)
(* The server: a handler runs to its first suspension as its call arrives, *)
(* and is then suspended at Kite or in the alert or message it ends with.  *)
(***************************************************************************)
Suspend(c, at, ok, held) ==
    tasks' = tasks \cup {[call |-> c, at |-> at, ok |-> ok, held |-> held]}
Reply(c, ok) == Suspend(c, "REPLYING", ok, A!NoRequest)

Log(r, request) == logged' = [logged EXCEPT ![r] = request]
Executed(r, outcome) == executions' = [executions EXCEPT ![r] = outcome]

\* An analysis for whichever command asks for one: /scan, /recommend, /invest,
\* the scan and benchmark routes, the plan.  The provider may fail instead.
ServeAnalysis(c) ==
    /\ c.op.kind \in {"SCAN", "PLAN"}
    /\ \/ \E r \in Recs, p \in Profiles :
            /\ A!RequestApproval(r)
            /\ Log(r, A!NewRequest)
            /\ profile' = [q \in issued' |-> IF q = r THEN p ELSE profile[q]]
            /\ Reply(c, TRUE)
       \/ Reply(c, FALSE) /\ UNCHANGED <<approvalVars, profile, logged>>
    /\ UNCHANGED <<executions, watchlist, sessionVars, view, loads, told, sent>>

\* approve_ and reject_recommendation, called with the page's token or the
\* stored one: the decision is taken and logged before its alert is awaited.
ServeDecision(c) ==
    /\ c.op.kind \in {"APPROVE", "REJECT"}
    /\ LET r == c.op.rec IN
         \/ /\ \/ c.op.kind = "APPROVE" /\ A!Approve(r, r)
               \/ c.op.kind = "REJECT" /\ A!Reject(r, r)
            /\ Log(r, requests'[r]) /\ Reply(c, TRUE)
         \/ A!DecideLate(r, r) /\ Reply(c, FALSE) /\ UNCHANGED logged
         \/ ~A!PendingFor(r, r) /\ Reply(c, FALSE) /\ UNCHANGED <<approvalVars, logged>>
    /\ UNCHANGED <<profile, executions, watchlist, sessionVars, view, loads, told, sent>>

\* _extract_broker hears a broker only as the last word of a message.
OrderBroker(c) ==
    IF c.from = "BOT" /\ c.op.thenQuantity THEN ConfigBroker ELSE c.op.broker

\* ExecutionCapability.submit looks the approval up, and that expires it.
Consults(c) ==
    IF c.from = "BOT" /\ A!ReadExpires(c.op.rec) THEN A!Read(c.op.rec) ELSE UNCHANGED approvalVars

\* ExecutionService.execute on a known recommendation, up to its first gate.
Blocked(c) ==
    LET p == profile[c.op.rec]
    IN  p.action = "HOLD" \/ (OrderBroker(c) # "PAPER" /\ p.risk # "APPROVED")

KnownOrder(c) == c.op.kind = "SUBMIT" /\ A!Has(c.op.rec)

ServeWithoutBroker(c) ==
    /\ KnownOrder(c) /\ (Blocked(c) \/ OrderBroker(c) = "PAPER")
    /\ Executed(c.op.rec, IF Blocked(c) THEN "REJECTED" ELSE "FILLED")
    /\ Consults(c) /\ Reply(c, TRUE)
    /\ UNCHANGED <<profile, logged, watchlist, sessionVars, view, loads, told, sent>>

\* The approval is consumed before the client refuses or sends the order.
ServeLiveOrder(c) ==
    LET r == c.op.rec
        refused == RefusesOrder(profile[r].action, AssetClassOf(profile[r].instrument))
    IN  /\ KnownOrder(c) /\ ~Blocked(c) /\ OrderBroker(c) # "PAPER"
        /\ IF A!MayConsume(r, r)
           THEN /\ A!Consume(r, r)
                /\ IF refused
                   THEN Executed(r, "REJECTED") /\ Reply(c, TRUE) /\ UNCHANGED sent
                   ELSE /\ sent' = [sent EXCEPT ![r] = @ + 1]
                        /\ Suspend(c, "KITE", TRUE, logged[r])
                        /\ UNCHANGED executions
           ELSE Consults(c) /\ Reply(c, FALSE) /\ UNCHANGED <<executions, sent>>
        /\ UNCHANGED <<profile, logged, watchlist, sessionVars, view, loads, told>>

\* Kite's answer, whatever was cleared meanwhile: the run object the handler
\* held is stored again.  An answer that cannot be read records nothing.
KiteAnswers(t) ==
    LET r == t.call.op.rec
        replying(ok) == tasks' = (tasks \ {t}) \cup
                          {[t EXCEPT !.at = "REPLYING", !.ok = ok, !.held = A!NoRequest]}
    IN  /\ t.at = "KITE"
        /\ \/ /\ \E outcome \in {"PENDING", "FAILED"} : Executed(r, outcome)
              /\ Log(r, t.held) /\ replying(TRUE)
           \/ replying(FALSE) /\ UNCHANGED <<executions, logged>>
        /\ UNCHANGED <<approvalVars, profile, watchlist, sessionVars, inbox, view, loads, told,
                       sent, events>>

\* What changes nothing: a preview, and an order for an unknown id.
ServeUnchanged(c) ==
    /\ c.op.kind \in {"PREVIEW", "SUBMIT"}
    /\ c.op.kind = "SUBMIT" => ~A!Has(c.op.rec)
    /\ Reply(c, A!Has(c.op.rec))
    /\ UNCHANGED <<approvalVars, recordVars, sessionVars, view, loads, told, sent>>

\* WatchlistState.add and remove, from what get_all returned.
ServeWatchlist(c) ==
    /\ c.op.kind \in {"ADD", "REMOVE"}
    /\ watchlist' = IF c.op.kind = "ADD" THEN Listed \cup {c.op.symbol} ELSE Listed \ {c.op.symbol}
    /\ Reply(c, TRUE)
    /\ UNCHANGED <<approvalVars, profile, logged, executions, sessionVars, view, loads,
                   told, sent>>

ServeDisconnect(c) ==
    /\ c.op.kind = "DISCONNECT"
    /\ \/ Disconnect /\ Reply(c, TRUE)
       \/ DisconnectFails /\ Reply(c, FALSE)
    /\ UNCHANGED <<approvalVars, recordVars, view, loads, told, sent>>

ServeClear(c) ==
    /\ c.op.kind = "CLEAR"
    /\ A!Clear
    /\ logged' = [r \in Recs |-> A!NoRequest]
    /\ executions' = [r \in Recs |-> None]
    /\ Reply(c, TRUE)
    /\ UNCHANGED <<profile, watchlist, sessionVars, view, loads, told, sent>>

Serve(c) ==
    \/ ServeAnalysis(c) \/ ServeDecision(c)
    \/ ServeWithoutBroker(c) \/ ServeLiveOrder(c) \/ ServeUnchanged(c)
    \/ ServeWatchlist(c) \/ ServeDisconnect(c) \/ ServeClear(c)

-----------------------------------------------------------------------------
(***************************************************************************)
(* The operator's side: the page's buttons and the chat                    *)
(***************************************************************************)
\* recommendationControls and renderWatchlist: which buttons the page enables.
Offered(op) ==
    CASE op.kind \in {"APPROVE", "REJECT"} -> view.recs[op.rec].status = "PENDING"
      [] op.kind = "SUBMIT"  -> view.recs[op.rec].status # None /\ profile[op.rec].action # "HOLD"
      [] op.kind = "PREVIEW" -> view.recs[op.rec].status # None
      [] op.kind = "REMOVE"  -> op.symbol \in view.watchlist
      [] OTHER               -> TRUE

Click(op) ==
    /\ Happens
    /\ Offered(op)
    /\ Serve([id |-> events, from |-> "PAGE", try |-> 1, op |-> op])
    /\ UNCHANGED inbox

\* A message, or a button below a trade alert, which is where its id is from.
Send(op) ==
    /\ Happens
    /\ op.kind \in {"APPROVE", "REJECT", "SUBMIT", "PREVIEW"} => op.rec \in issued
    /\ Serve([id |-> events, from |-> "BOT", try |-> 1, op |-> op])
    /\ inbox' = inbox \cup {[id |-> events, op |-> op, tries |-> 1]}

\* Telegram calls the webhook again after an error, or when no answer came in
\* time; nothing in the server remembers an update.
Redeliver(u) ==
    /\ Happens
    /\ Serve([id |-> u.id, from |-> "BOT", try |-> u.tries + 1, op |-> u.op])
    /\ inbox' = (inbox \ {u}) \cup {[u EXCEPT !.tries = @ + 1]}

\* Connect Zerodha: the browser goes to Kite and comes back with a login.
Connect(l) ==
    /\ Happens
    /\ Callback(l)
    /\ UNCHANGED <<approvalVars, recordVars, tasks, inbox, view, loads, told, sent>>

Exchanged(l) ==
    /\ ExchangeEnds(l) \/ ExchangeFails(l)
    /\ UNCHANGED <<approvalVars, recordVars, clientVars, sent>>

\* The functions that load the page again when their call succeeded; the plan
\* and the benchmark, which analyse as well, do not.
Reloading == {"SCAN", "APPROVE", "REJECT", "SUBMIT", "DISCONNECT", "CLEAR", "ADD", "REMOVE"}

\* The answer reaches the operator, after the alert or the chat message that
\* the handler still awaited; if that fails so does the whole call.
Answer(t, ok) ==
    /\ t.at = "REPLYING" /\ (ok => t.ok)
    /\ tasks' = tasks \ {t}
    /\ told' = CASE ok /\ t.call.op.kind = "APPROVE" -> told \cup {<<t.call.op.rec, "APPROVED">>}
                 [] ok /\ t.call.op.kind = "REJECT"  -> told \cup {<<t.call.op.rec, "REJECTED">>}
                 [] OTHER                       -> told
    /\ inbox' = IF ok THEN {u \in inbox : u.id # t.call.id} ELSE inbox
    /\ IF ok /\ t.call.from = "PAGE" /\ t.call.op.kind \in Reloading
       THEN \E i \in Slots : loads[i] = Idle /\ loads' = [loads EXCEPT ![i] = Asked]
       ELSE UNCHANGED loads
    /\ UNCHANGED <<approvalVars, recordVars, sessionVars, view, sent, events>>

-----------------------------------------------------------------------------
(***************************************************************************)
(* loadBootstrap and the bootstrap route                                   *)
(***************************************************************************)
\* setInterval, and the refresh button.
StartLoad(i) ==
    /\ loads[i] = Idle
    /\ loads' = [loads EXCEPT ![i] = Asked]
    /\ UNCHANGED <<approvalVars, recordVars, sessionVars, tasks, inbox, view, told, sent,
                   events>>

\* The tables are read in one go, behind the calls to Kite; reading the
\* approvals expires what is overdue.
ReadTables(i, connected) ==
    /\ requests' = [r \in Recs |-> IF A!ReadExpires(r) THEN A!Moved(r, "EXPIRED") ELSE requests[r]]
    /\ loads' = [loads EXCEPT ![i] = Answered(Payload(requests', connected))]
    /\ UNCHANGED <<issued, now>>

\* The connection is read first; a connected one is then asked for positions
\* and funds.
ServeLoad(i) ==
    /\ loads[i] = Asked
    /\ IF Connected THEN loads' = [loads EXCEPT ![i] = AtKite] /\ UNCHANGED approvalVars
                    ELSE ReadTables(i, FALSE)
    /\ UNCHANGED <<recordVars, sessionVars, tasks, inbox, view, told, sent, events>>

FinishLoad(i) ==
    /\ loads[i] = AtKite /\ ReadTables(i, TRUE)
    /\ UNCHANGED <<recordVars, sessionVars, tasks, inbox, view, told, sent, events>>

\* Every panel of the page is rendered from the payload.
Rendered(payload) == payload

\* Whichever answer arrives is rendered, also one that another overtook.
Render(i) ==
    /\ loads[i].at = "ANSWERED"
    /\ view' = Rendered(loads[i].payload)
    /\ loads' = [loads EXCEPT ![i] = Idle]
    /\ UNCHANGED <<approvalVars, recordVars, sessionVars, tasks, inbox, told, sent, events>>

\* The connection breaks before the answer is there; the route itself turns
\* the failures of Kite into empty lists.
LoadFails(i) ==
    /\ loads[i].at = "ANSWERED"
    /\ loads' = [loads EXCEPT ![i] = Idle]
    /\ UNCHANGED <<approvalVars, recordVars, sessionVars, tasks, inbox, view, told, sent, events>>

-----------------------------------------------------------------------------
\* _bootstrap_from_store: every request as its last logged event left it, so
\* one that was consumed is approved again, one that expired pending.
Restored == logged

\* The process ends and starts; the page and the chat stay open, what was
\* running for them is lost.
Restart ==
    /\ Happens
    /\ requests' = Restored
    /\ SessionRestart
    /\ tasks' = {}
    /\ loads' = [i \in Slots |-> IF loads[i].at = "ANSWERED" THEN loads[i] ELSE Idle]
    /\ sent' = [r \in Recs |-> 0]
    /\ UNCHANGED <<issued, now, recordVars, inbox, view, told>>

Tick ==
    /\ Happens /\ A!Tick
    /\ UNCHANGED <<recordVars, sessionVars, tasks, inbox, view, loads, told, sent>>

Next ==
    \/ \E op \in PageOps : Click(op)
    \/ \E op \in BotOps : Send(op)
    \/ \E u \in inbox : Redeliver(u)
    \/ \E t \in tasks : KiteAnswers(t) \/ \E ok \in BOOLEAN : Answer(t, ok)
    \/ \E l \in Logins : Connect(l) \/ Exchanged(l)
    \/ \E i \in Slots : StartLoad(i) \/ ServeLoad(i) \/ FinishLoad(i) \/ Render(i) \/ LoadFails(i)
    \/ Restart
    \/ Tick

\* setInterval never stops, the route answers, and the answers of the loads in
\* one slot are not lost for ever.
Refreshes(i) ==
    /\ WF_vars(StartLoad(i) \/ ServeLoad(i) \/ FinishLoad(i))
    /\ SF_vars(Render(i))

Spec == Init /\ [][Next]_vars /\ \A i \in Slots : Refreshes(i)

-----------------------------------------------------------------------------
(***************************************************************************)
(* A decision the operator was told of stands: whatever is redelivered,    *)
(* clicked on an old page, read, expired or restarted afterwards, a        *)
(* recommendation reported approved is approved or consumed, one reported  *)
(* rejected is rejected, unless the history was cleared.  So the page and  *)
(* the bot never report opposite decisions on it either.                   *)
(***************************************************************************)
DecisionsStand ==
    \A r \in Recs : A!Has(r) =>
        /\ <<r, "APPROVED">> \in told => requests[r].status \in {"APPROVED", "CONSUMED"}
        /\ <<r, "REJECTED">> \in told => requests[r].status = "REJECTED"

(***************************************************************************)
(* One process sends at most one live order for a recommendation, however  *)
(* often the page and the bot ask for one and Telegram redelivers: nothing *)
(* but the consumed approval remembers that an order was sent.             *)
(***************************************************************************)
OneLiveOrder == \A r \in Recs : sent[r] <= 1

(***************************************************************************)
(* The page ends up showing what the server holds, although calls of the   *)
(* bot never reach it, loads overlap, fail and overtake one another, and   *)
(* one payload mixes a connection read early with tables read later.       *)
(***************************************************************************)
ViewCatchesUp == <>[](view = Current)
=============================================================================
