# Verification of the AI trading framework

TLA+ models of the approval-first trading runtime in `src/src/ai_trading_framework`
(paths below are relative to it, `docs/` to the repository), the TLC runs that
check them, and the TLAPS proofs that hold for every value of the constants.
`PROJECT.json` maps each definition to the lines it models and lists the hazards.

## 1. The system

A client (HTTP API, Telegram or CLI) asks for an analysis of some symbols. A
*run* is made: strategies yield *recommendations*, risk policies decide on each,
an approval is requested for each. An operator approves or rejects. A client
submits an order for a recommendation to the paper broker or to an external one.
Everything a run goes through is an event of its *run record*; the record is
stored, and a process that starts rebuilds its tables from the stored records.

| component | state | operations | what makes it correct |
|---|---|---|---|
| approval service (`core/approvals/service.py`) | the requests by recommendation | request, restore, get (expires), approve, reject, consume, clear | the documented lifecycle; nothing decided after `expires_at`; a token is spent once |
| workflow engine (`core/engine/workflow.py`) | the run record of a task, until `analyze` publishes it | process, preview_and_execute, append_event | each outcome is logged, reported and stored together |
| operator runtime (`core/runtime/operator.py`) | runs, recommendations, risks, executions | analyze, approve/reject, submit_order, clear_history, bootstrap | memory and store agree; a restart forgets and reverses nothing |
| execution service (`execution/service.py`) | none | execute: HOLD, risk, token and consume gates | "approval-first": no live order unapproved, unchecked or twice |
| run store (`storage/sqlalchemy/repository.py`) | one row per run; operators, sessions, OAuth states, broker sessions, framework state | save, get, list (limit, no order), delete, ... | a row is what memory last stored |
| brokers (`brokers/*.py`) | paper: positions; Zerodha: an access token in the object and one in the store; Groww: nothing | preview, submit, session exchange, disconnect | an unanswered live order is never reported as placed; a token a disconnect took away is not used again |
| event bus (`core/events/bus.py`) | subscribers by event type | subscribe, publish | handlers run in order; nobody subscribes in this repository |
| replay, explainability (`core/replay`, `core/explainability`) | none | replay a stored run | what is replayed is what happened |
| risk policies (`risk/policies`) | none | evaluate a chain | the strictest decision wins |
| analysis pipeline, signals, reasoning | none | context, signals, sizing | bounded scores, a BUY is never turned over |
| investment planner (`analytics/investment_planner.py`), `/recommend` | the holdings and findings of a loop that waits for the provider | analyse, allocate, rebalance, rank | what it allocates can be paid, what it sells is held, what it selects can be acted on |
| operator auth (`core/security/auth.py`) | operators, sessions, OIDC states (in the store) | bootstrap, password login, begin and complete OIDC login, logout, read session | a state is used once; a subject has one operator; no session outlives its expiry or a logout |
| product (`product/*`) | watchlist (framework state) | add, remove, route a message | a message means the operation it names |
| notifiers (`notifiers/telegram.py`) | none; Telegram keeps an update until it is acknowledged | send alert, parse webhook | an alert's failure, or an update delivered again, undoes and repeats nothing |
| API and dashboard (`api/*`) | the page: what it last rendered, the loads on their way | routes to the above; click, load, render | the page catches up with the server; acting on an old page does no harm |
| CLI, builder, settings, plugins, data providers, observability | wiring, fixtures, counters | - | - |

How they interact: the API calls `OperatorRuntime`; it calls `WorkflowEngine` and
`ApprovalService`; `WorkflowEngine` calls `ExecutionService`, which calls the
broker client; `OperatorRuntime` writes the run store; all on one asyncio event
loop, by direct calls and shared objects. A `RunRecord` is shared by reference: a
task keeps appending to the object it was given, also after `clear_history`
dropped it from the runtime's tables.

What is hard here: handlers interleave at awaits (two submissions of one
recommendation; a clear during a broker call); a process may die between any two
steps, and only what the event log says survives; a broker call may time out and
still be taken; the clock runs past an expiry between two tests of it; the store
gives back at most 100 runs, in no stated order; the page acts on a snapshot that may
be old, and its loads overtake one another; Telegram delivers an update again when its
webhook fails, and nothing remembers updates; a login's token exchange races a
disconnect; a plan waits for market data while what it has read changes.

## 2. Modules

| module | models |
|---|---|
| `ApprovalLifecycle` | the abstract specification: the documented life of an approval request |
| `Approvals` | `ApprovalService`: every operation, with the clock; implements `ApprovalLifecycle` |
| `OperatorRuntime` | composes `Approvals` (as `A`) with the engine, the runtime, the execution service, the run store, the broker, and crashes |
| `OperatorAuth` | `OperatorAuthService`, its tables, and the guard of the protected routes, with starts and crashes |
| `Signals` | the demo provider's market, momentum, sentiment, the recommendation's levels: functions of a market snapshot |
| `RiskPolicies` | the eight policies, as functions, and the loop of `RiskPolicyChain`; extends `Signals` |
| `InvestmentPlanner` | the plan and the ranking over those two, with clears and paper fills meanwhile |
| `BrokerSession` | Zerodha's login, token, disconnect, asset classes and refusals |
| `FrontEnds` | composes `Approvals` and `BrokerSession` with the browser console, the Telegram bot and the watchlist |
| `MCApprovals`, `MCOperatorRuntime`, `MCOperatorAuth`, `MCAdvice`, `MCFrontEnds` | the instances TLC checks |
| `ApprovalsProofs` | theorems of `Approvals` |
| `OperatorRuntimeProofs` | replay lemmas, type correctness of `OperatorRuntime` |
| `OperatorRuntimeSafety` | approvals, decisions and tokens, for every value of the constants; that the runtime uses `Approvals` |
| `OperatorRuntimeReplay` | executions, placements, runs and clears, likewise |
| `OperatorRuntimeRisk` | risk approval of live orders, where it holds |
| `OperatorAuthProofs` | all the properties of `OperatorAuth` |
| `FrontEndsProofs` | the safety properties of `FrontEnds` and `BrokerSession` |
| `InvestmentPlannerProofs` | all the properties of `InvestmentPlanner`, with the sums and sorts they rest on |

### Approvals

`requests` is `_requests`. An id and its token are fresh UUIDs, so the token of
`r` is written `r`: presenting any other recommendation is presenting a wrong
token. A call that raises before it assigns anything changes nothing and has no
action; a late decision, which marks the request EXPIRED and then raises, has one
(`DecideLate`). `issued` remembers the ids used, since UUIDs never repeat.

### OperatorRuntime

*Steps.* One event loop runs all handlers, so the code between two awaits that
suspend is one action. The awaits that can are plug-in calls:
`RiskPolicy.evaluate` (an analysis is `StartAnalysis`, one
`AnalyseRecommendation` per recommendation, `FinishAnalysis`),
`BrokerClient.preview_order` and `submit_order` (a submission is `Submit`, a step
at `pc = "preview"` and one at `pc = "broker"`). The policies shipped with the
repository and Zerodha's preview return without suspending, so the model has more
interleavings than a default installation, and has those of any plug-in. The event
bus has no subscriber in the repository, so publishing does not suspend.

*State.* `runs`, `recommendations`, `risks`, `executions` are the runtime's
tables; `info[r]` is the immutable part of a recommendation with the decision the
policies took on it. `runLog[u]` is the event list of the `RunRecord` object:
`runs` says whether the tables still know it, because a task that holds the object
goes on writing to it. `stored[u]` is the row. `sub[s]` is what a submission holds
across its awaits, the risk evaluation it read before the first one included.
`wire` and `ledger` are the live orders on their way and those the broker took;
`fills` the paper fills of this process. `granted` and `rejected` are history
variables, which no guard reads.

*Restart.* `Crash` may come between any two steps. `Bootstrap` is
`_bootstrap_from_store`: of at most `BootstrapLimit` rows, the last approval event
of a recommendation gives its approval, the last outcome its execution, and each
RISK_EVALUATED event, whose payload names no recommendation, goes to the first
recommendation of the run. Requests in flight are lost, orders sent stay sent.

*Orders.* `ExecutionService.execute` refuses (`Refuse`), raises
(`RaiseBeforeBroker`), or consumes the token and calls the broker in one step
(`SendLive`). The client may refuse by itself (`RefusedByClient`: no broker session,
an instrument it does not trade; Groww's client always does). Afterwards
`LiveAccepted` needs the broker to have taken the order; `LiveFailed` is a refusal,
an HTTP error or the 20 s timeout and needs nothing: the order may be taken later.

*Left out.* Event payloads beyond what a restart reads; EXPLANATION_GENERATED
events, which nothing reads back; the operator alert after an order (its failure
changes the HTTP response only); prices and quantities; lookup by symbol.

*Clients.* A client knows the ids a response has shown it, so decisions name
recommendations of finished analyses (`Known`).

### OperatorAuth

The variables `operators`, `oauth` and `sessions` are the three tables; they
survive `Crash`, while the handlers in flight do not. `Start` is the bootstrap
of the admin by a process, with the password its settings give. `BeginOidcLogin`
stores a state; `Callback` pops it (`PopState`, before the first await);
`ProviderFails` or `Userinfo` is where the handler resumes after asking the
provider; `Userinfo` finds and saves the operator (`Held`, `Persist`, with the
table's unique email), `OpenSession` stores the session. Between these two
`loop` is taken: no other handler runs, but the threads of `require_operator`
do, and a crash may come. The guard is `Arrive`, `ReadSession`, `DropExpired` or
`ReadOperator`, each one transaction. `current_operator` called on the loop (the
dashboard, `/v1/auth/me`) takes the same steps without interleaving.

What the provider reports is any pair of `Accounts`, so users change emails as
the set allows. A response is abstracted to its effect; wrong credentials,
missing parameters and unknown providers change nothing and are no actions.
History: `issued` states, `opened` sessions, `ended` (signed out) tokens.

*Left out.* Hashing, PKCE and cookies; roles (always ADMIN); `last_login_at` and
display names; a second identity provider, and settings other than the admin's
password changing between starts; emails that differ in case only; a userinfo
without the `sub` the protocol requires; two processes on one database.

### Signals, RiskPolicies, InvestmentPlanner

The arithmetic of the code is on decimals which it rounds; the model has integers in
the unit of the rounding: hundredths for money, ten-thousandths for confidences and
weights, thousandths for quantities (`Quotient` is the rounding; the code rounds an
exact half to even, the model up). Where the code compares before it rounds, the model
compares exactly (the 35 % and 45 % limits on a weight). Candidates, allocations, lots
and ranks are functions on index sets, and sums are folds, so that the module can be
reasoned about. The sentences a recommendation carries are left
out, a language model's included: they decide nothing.

`Start` takes a request and reads the holdings; its budget is an amount, or `Wallet` for
`/invest wallet`, the only request that names none and the only one given the paper
broker's cash (`EffectiveBudget`; the default counts if there is none or
`auto_budget_mode` is off). `Fetched` is where the provider's
answer for the next symbol resumes the loop, `Check` is one policy, `Evaluated` the
rest of `OperatorRuntime.analyze`, `FinishPlan` and `FinishRanking` the answer. The
loop is `Suspended` only at the provider, since the shipped policies do not suspend;
there a `ClearHistory` or a paper `Fill` may come. `chain` holds the locals of the
policies' loop, which stops reading at the first rejection. The pipeline never sets a
portfolio, so the policies see `DefaultPortfolio`, as in the code: the policies on
positions, loss and exposure approve everything here. `OwnVerdicts` are the answers of
policies an application adds, the only ones that ask for a REVIEW.
*Left out.* The plan's text; that a plan and a ranking may overlap (each has its own
locals, and what they share, the runtime's tables, `ClearHistory` and `Fill` disturb
as another request would).

### BrokerSession

`memory` and `stored` are the token's two copies, `exchanging` the callbacks waiting
for Kite. Every access reads the row first and falls back to the object. The store
may fail after the object was assigned (`SaveSession`, `DisconnectFails`). A start puts
the environment's token into the object. `removed` is history: the tokens a disconnect
took away (a start takes the environment's out again). A login whose exchange ends after
a disconnect connects, in the code as in the model: its token is a new one, issued to a
login the operator began. What must not happen there is that an older token returns.

### FrontEnds

*The server.* `requests`, `logged`, `executions` and `watchlist` are the runtime as a
front end sees it; `OperatorRuntime` has the steps and stores behind them. A handler
runs to its first suspension as the call arrives (`Serve`, one operator per
operation); what is left of it is a `task`, at Kite or in the alert or message it ends
with. The built-in brokers' previews do not suspend, so an order is consumed and sent
in that first step. `KiteAnswers` stores the run object the handler held, whatever was
cleared meanwhile, so it logs again what that object said.

*The operator.* `Click` needs the button, which the page enables by its `view`
(`Offered`); `Send` is a message or a button of the chat, `Redeliver` Telegram calling
the webhook again with an update it got no answer for. A call that fails after its
effect (`Answer` with `ok` FALSE) tells the operator nothing; `told` is what he was told.
The forms of a command in natural language are the same operations.

*The page.* Each slot of `loads` is one `loadBootstrap`: asked, waiting for Kite (a
connected one), answered, rendered. `ReadTables` reads the tables in one go, after the
connection was read, and expires what is overdue. Loads overlap and are rendered in
any order; `LoadFails` is an answer lost on its way, as the route itself turns Kite's
failures into empty lists. An answer that loads the page again waits for an idle slot.

*Restart.* Tasks and loads die, the page and the chat stay open. `Restored` takes each
request as its last logged event left it: a consumed one is approved again, which is
why `sent` counts the orders of one process.

*Left out.* The operator's own sign-in (`OperatorAuth` has the guard of the routes); a
CLI process on the same store, so a lost update of the watchlist between processes is
only listed as a hazard; the setup wizard; listings, which change nothing but expire
requests as a load does.

The definitions marked as bugs in their comments (`ConsumeAgain`,
`ClearStoreOnly`, ...) are no part of the model: `PROJECT.json` puts each in place
of a definition to show that a property notices it.

## 3. Runs

Deadlock is checked in `frontends`, whose page goes on loading. Elsewhere ids, boots
and the clock are bounded and used up, after which the model stops by design.

| run | bounds | shows |
|---|---|---|
| `approvals` | 3 recommendations, Ttl 1, clock to 3 | `FollowsLifecycle` (refinement of `ApprovalLifecycle`), `DecidedInTime`. Requests are independent but for `clear`; the clock passes every expiry, also of a request made at tick 1. |
| `restart` | 1 recommendation, 2 submissions, 3 process lives, clock to 1 | every safety property below, with crashes between any two steps, simulated runs, expiry and clears. Two crashes: one that rebuilds wrong state, one that shows what it does to the next life. |
| `process` | 2 recommendations in 1 run, 2 submissions, no crash | `LiveOrderApproved`, `LiveOrderRiskApproved`, `TokenUsedOncePerProcess`, `ExecutionsReplayable`, `ReportedOrdersExist`: risks, tokens and outcomes of overlapping submissions are not mixed up within a process; two of each are the smallest case with an overlap and with two events of one log that could be confused. |
| `limit` | 2 runs, `BootstrapLimit` 1, one restart | a start that reads back only some runs: nothing is acted on wrongly and clears stay done. |
| `progress` | 1 recommendation, 2 submissions, one restart | `SubmissionsEnd`, liveness under `FairSpec`. |
| `auth` | 3 callbacks, 3 states, 1 session token, 1 request, 3 users and emails, 2 admin passwords, clock to 1 with both lifetimes 0 | the properties of `OperatorAuth`. Three sign-ins are the least in which a user who changed emails meets a row that took the old one over (the conflict branch is reached); the third user and the admin keep theirs. With one token a session meets later sign-ins, sign-outs, expiry and restarts; sessions do not affect each other. A callback that finds no token left waits until a crash. |
| `advice` | 3 symbols with 1, 2 and 5 market answers, 3 recommendations, 2 paper fills, 2 sets of own verdicts, 662,038 states | the properties of `InvestmentPlanner`. The answers make a BUY of a stock and of a fund (with quantities in thousandths), a SELL, a HOLD, a symbol without closes and a BUY the liquidity policy rejects before the last policy approves it; three candidates are as many as a plan allocates to, two lots the least that can be of one symbol; the third recommendation of a request can meet a clear after the first. Money and prices are the demo provider's. |
| `frontends` | 1 recommendation, 3 profiles, 2 loads, 2 events, 1 login, Ttl 0, clock to 1, 593,658 states | the properties of `FrontEnds` and `BrokerSession`. `Init` has every decision a store may hold, so two events (calls, logins, redeliveries, restarts, ticks) are the second and third of a history: a call and its redelivery, a click on an old page after a decision, an order and a restart or a clear before Kite answers, a login and the disconnect that races it. Two loads are the least that overtake one another. Recommendations do not affect each other except through a clear. |
| `token_reuse`, `risk_mixup`, `approvals_expiry`, `auth_fallback` | small | the four findings below. |

The properties of `OperatorRuntime`: `LiveOrderApproved` (no live order of a HOLD
or unapproved or rejected recommendation), `LiveOrderRiskApproved`,
`TokenUsedOncePerProcess`, `DecisionsSurvive` (a decision is there, unreversed, as
long as the request is), `ApprovalHasRun` (approving cannot fail half-way),
`ExecutionsReplayable` (the reported execution is the replayed one),
`ReportedOrdersExist` (no placement is reported that the broker does not have),
`ClearedStaysCleared` (a cleared run comes back only through what was under way, and nothing starts on it).

The properties of `OperatorAuth`: `StateUsedOnce`, `OneOperatorPerSubject`,
`LoginsDoNotConflict` (the unique email fails only users who changed theirs),
`AdminPasswordWorks`, `SessionsKeepTheirOperator`, `LateRequestsRefused` (a request
that comes after its session's end is not admitted). `Stable` users are always
reported with one email; an email is `Settled` if all users reported with it are
stable. `AdminPasswordWorks` holds if the admin's email is settled, as in `auth`;
`auth_fallback` is the rest.

`LiveOrderRiskApproved` holds with one recommendation per run, or without a
restart; `risk_mixup` is the rest. `TokenUsedOncePerProcess` holds always;
`TokenUsedOnce`, across processes, does not.

The properties of `InvestmentPlanner`: `ChainVerdict` (the decision is the strictest
verdict of the whole list, also of those never read), `BudgetRespected` (allocations can
be paid, up to the rounding of a fund's quantity), `TrimWithinHolding` (no advice to sell
more than it holds of a lot of whole units; a fund's lot, in thousandths, may be exceeded by
the rounding of the advice to hundredths), `HoldNeverOutranksBuy` (the top of a ranking is not a HOLD
while an approved BUY is in it), `PlanActionable` (what a plan selects has its approval
unless it was cleared after its analysis).

The properties of `FrontEnds`: `DecisionsStand` (what the operator was told stands,
through redelivery, old pages, expiry and restarts), `OneLiveOrder` (of one process, for
one recommendation), `DisconnectHolds` (a token a disconnect took away is
never used again, whatever login was under way), and `ViewCatchesUp`: once the operator, the bot,
Telegram and the clock leave the server alone (`MaxEvents`), the page shows for ever what
the server holds.

*Symmetry.* The safety runs count states up to a renaming of recommendations, runs
and submissions: no definition tells two ids apart, and `CHOOSE` is only used on
sets of numbers. `auth` does so for callbacks, requests, tokens and operator ids, not
for users and emails. The liveness run uses none.

*Fairness.* `FairSpec` assumes weak fairness of `Proceed(s)` for each submission:
the event loop runs what is ready; a price lookup returns or raises (yfinance and
httpx have timeouts); a broker call ends, since httpx gives up after 20 s without progress (a broker that
trickles bytes for ever is left out), so `LiveFailed` is always enabled while one is
pending. Clients, operators, the broker, the clock and
crashes are not fair: they owe the program nothing.

`Spec` of `FrontEnds` assumes `Refreshes(i)` of each load: `setInterval` of 30 s never
stops and the route answers (weak fairness of starting, serving and finishing a load;
Kite's calls have timeouts and their failures become empty lists), and the answers of one
slot are not all lost for ever (strong fairness of `Render`). Handlers of calls, Kite's
answer to an order, logins, Telegram and restarts are not fair, so `ViewCatchesUp` does
not rest on them.

## 4. Findings

Disagreements between the code and the documents, each a run that TLC refutes:

1. `token_reuse`: consuming a token writes no event, so after a restart an executed
   recommendation is APPROVED again and the same token sends a second live order.
   `docs/architecture.md:98`: "Approval tokens are single-use and become `CONSUMED`
   after execution."
2. `risk_mixup`: with two recommendations in a run, a restart gives the last risk
   decision of the run to the first recommendation, which may have been rejected.
   `docs/architecture.md:97`: "Non-paper brokers require risk approval ...".
3. `approvals_expiry`: an approved token executes after its expiry;
   `core/explainability/service.py:30` states in every explanation that an expired
   one blocks.
4. `auth_fallback`: a sign-in through the provider renames the operator it finds,
   the bootstrapped admin included. After an email change no operator has
   `ADMIN_EMAIL`, and the configured admin login is refused until a restart
   bootstraps a second admin (the old password works with the new email).
   `docs/deployment_railway.md:58`: "a password fallback for break-glass admin access".

## 5. Proofs

The proofs about `Approvals` and `OperatorRuntime` hold for any sets of recommendations, runs and submissions, any `Ttl`,
`BootstrapLimit` and bounds, from `RuntimeAssumption` and `TtlAssumption` only: the
two numbers are naturals, `NoRec` is no recommendation, and profiles and simulate
modes are what their types allow. In particular they hold for any number of
crashes.

* `Approvals`: `TypeCorrect`; `ImplementsLifecycle` (with the invariant that only
  issued ids have a request, each call is an edge or a stutter of
  `ApprovalLifecycle`); `DecisionsInTime`.
* `RuntimeTypeCorrect`. `TypeOK` is not inductive alone: a submission reads the run
  of the recommendation it holds, so `TypeInv` adds that published and held
  recommendations exist. A start takes `log[Latest(I)]`, a `CHOOSE`; `GreatestIndex`
  shows that a nonempty set of indexes has a greatest one, by well-foundedness of
  strict inclusion on its finite subsets.
* `OrdersAreApproved`, `DecisionsAreKept`. The argument is about logs. `ApprovalInv`
  says that *every* log - of the run objects, which a task may keep after a clear,
  and of the rows - replays, for each recommendation, to nothing or to an approval
  that agrees with `granted` and `rejected` (`LogsTrue`), and so does the table
  (`RequestsTrue`); that decisions are taken once (`DecidedOnce`); that orders sent
  were approved (`SentApproved`). `LogsTrue` is what a restart needs to establish
  `RequestsTrue`. `ReplayAppend` says how one more event changes what a log replays
  to; `Alike` is what all the steps that add no approval event have in common.
* `OneOrderPerToken`: with `TokensSpent` (the request of what this process sent is
  consumed or gone), a second order would need an APPROVED token; a restart makes
  the statement vacuous for the orders sent before, which is just what `TokenUsedOnce`
  loses.
* `RuntimeUsesApprovals`: between two starts, what `OperatorRuntime` does to the approval
  service are steps of `Approvals` (a simulated run takes two of them at once). Hence
  `RuntimeImplementsApprovals`, a refinement: a runtime that is not restarted and simulates
  nothing implements `Approvals`, which implements the documented lifecycle. A start is no
  such step: it writes the table from the rows. So what is proved of the service alone does not
  hold of the runtime for free, and two things are proved of it apart. `DeadlinesAreKept`:
  nothing prolongs a request. `DeadlineInv` says that table, run objects and rows give it one
  deadline, which needs `LogsTrue`: no log speaks of a recommendation before it is requested.
  `RuntimeDecidesInTime`: no step decides late, starts included, since the rows replay to the
  decisions that were taken. (An EXPIRED request is PENDING again after a start; with the
  first theorem it can only expire again.)
* `ReportsAreReplayable`, `ReportsAreTrue`, `DecisionsFindTheirRun`,
  `ClearedRunsStayCleared`, from `ReplayInv`: runs in memory have rows and running
  analyses have logs (`RunsStored`); the run of every approval in the table is in
  memory (`RunsHeld`); memory, run object and row give the same execution
  (`ExecutionsTrue`); no log reports a placement that the broker does not have
  (`LogsPlaced`). `ExecutionsReplayable` alone is not inductive: a decision stores
  the run *object*, so the object has to agree as well.
* `OperatorAuth`, for any users, emails and lifetimes, from `AuthAssumption`:
  `AuthTypeCorrect`; `SubjectsHaveOneOperator`, `StableLoginsSucceed` and, assuming
  `Settled(AdminEmail)`, `AdminKeepsAccess`, all from `OperatorsInv`. Its parts are that
  emails are unique and that the provider has reported every subject with its row's
  email (`RowsReported`); `HeldRow` draws from them that a sign-in finds at most one
  row, and does not rename it if the email is settled. `StatesAreUsedOnce`: no state
  in the table is one a callback went on with. `LateRequestsAreRefused`: a stored
  session is the one opened under its token and not signed out (`SessionsMatch`), and
  a late request's session is dead for good (`LateIsDead`).
  `SessionsActForTheirOperator` needs both invariants.

* `LiveOrderRiskApproved` does not hold for every value of the constants (finding 2).
  What does: `OrdersOfApprovedRuns`, the run of a live order has a recommendation the
  policies approved, through any number of restarts; hence `SingleRunsRiskApproved`, the
  property itself when runs have one recommendation; and `FirstProcessRiskApproved`, the
  property until the first restart. All from `RiskInv`: a decision found in a log, in the
  table, in a submission or behind a sent order is `Credible`, which is to say that the
  policies took it on some recommendation of the run, and in the first process on that one.
* `FrontEnds`, for any operations, profiles, slots, logins and events, from
  `FrontEndAssumption`: `FrontEndsTyped`, `DecisionsStandAlways`, `OneLiveOrderAlways`,
  `FrontEndsDecideInTime`, `DisconnectHoldsAlways`. `DecisionsStand` is not inductive: a restart replaces the
  requests by what is logged, and Kite's late answer logs again what its handler held.
  `DecisionInv` says of all three - the table, the log and the held objects - that they
  agree with what was reported (`KnownInv`, `LoggedInv`, `KiteInv`), of the answers
  still on their way that they report what happened (`ReportInv`, `ToldInv`), and of
  orders sent that their approval is spent (`SentInv`). Every action is
  shown to be one of a few steps on a recommendation (`DecisionStep`), and the invariant
  is proved of those. `DisconnectHolds` needs
  `SessionInv`: neither copy of the token, active or not, and nothing an exchange under
  way or a later callback will bring, was ever taken away by a disconnect; it rests on
  `SessionAssumption` (a login's token is new).
* `InvestmentPlanner`, for all thresholds, markets, verdicts, requests and fills, from
  `PlannerAssumption` (prices, closes, budgets and capital are naturals, a wallet
  request names no budget; an application's own policies answer with verdicts): `PlannerTyped`, `ChainVerdictAlways`,
  `BudgetRespectedAlways`, `TrimWithinHoldingAlways`, `HoldNeverOutranksBuyAlways`,
  `PlanActionableAlways`, all from `PlannerInv` (first checked as an invariant of `advice`).
  None of the five is inductive, since a plan is computed from what a loop found earlier,
  across suspensions in which holdings and history change. The parts of `PlannerInv`:
  * `ChainInv`, the loop invariant of the policies: the decision is the strictest of the
    verdicts read.
  * `SoundInv`: every recommendation in the planner's hands is `Sound`: it is typed, a BUY's
    confidence is at least one half and a HOLD's at most 0.57, which is what the strategies
    and the sentiment engine leave (`ScanSound`, `AnalyzeSound`). Budgets rest on the first
    bound, which makes every score positive, and ranks on both, with the bonus and the
    penalty of `recommend.py`.
  * `IdInv`: ids are given once and in order, so a found recommendation is unknown only if it
    was cleared.
  * `StateTyped`, the types, with `cleared` at most `made`.

  The arithmetic is in lemmas on rounding (`QuotientNearest`, `ShareNearest`, `PartBelow`):
  what a share rounded by itself can exceed, and what the last one is left.
* Sums and sorts are recursive over finite sets. What is needed of them (`SumStep`,
  `SumTakesOut`, `SumAtMost`, `RankedItems`) is proved without induction on an operator: were
  it to fail, it would fail for a least subset (`LeastSubset`, by well-foundedness of strict
  inclusion on finite subsets), which the definition unfolded once refutes. The recursive
  function is pinned down first (`SummingExists`, `SummingUnique`).

Only model-checked: `SubmissionsEnd` and `ViewCatchesUp` (liveness is beyond the prover's
reach, as is ENABLED). `LiveOrderRiskApproved` is checked on instances for which it holds and
proved under the hypotheses above.

## 6. Not modelled, and what is left

* Event bus: nobody subscribes in this repository; subscribers that suspend or raise
  inside `append_event` would be an application's code. Plugin system and SDK:
  interfaces and a dictionary of factories. Secrets and signing: pure functions.
* Text: what a message is parsed to is modelled by the operations it can name, and the
  broker it is heard to name (`OrderBroker`); rendering, explanations, a language
  model's sentences and the CLI's printing are not.
* Input and output: parsing of Yahoo's and Kite's answers, instrument lists, the
  benchmark's averages, counters. Float arithmetic as such: half-way roundings and
  representation errors are not in the integer scales.
* Two processes on one database (a CLI beside the server, an overlapping deployment): the
  hazards of `product/state.py:18` and `core/security/auth.py:217` are listed without a property.
* Stale by design, and stated nowhere, so without a property to hold it against: which
  recommendation a symbol means, the broker an approval was requested for (one requested
  for PAPER is consumed by an order for ZERODHA), paper positions after a restart.
* Modelled, and recorded here instead of in a run: the chat hears a broker only as the last
  word (`OrderBroker`), although its usage text (`product/router.py:245`) shows the quantity
  last. `/submit ID ZERODHA 5` goes to the configured broker, as does `/submit ID PAPER 5`:
  with ZERODHA configured that order is a live one, under an approval like any other.

Left of the plan: that `OperatorRuntime` without crashes implements the runtime as
`FrontEnds` sees it; the operator's sign-in composed with the console; the watchlist
written by two processes.
