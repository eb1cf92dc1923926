-------------------------- MODULE OperatorRuntime --------------------------
(***************************************************************************)
(* The approval-first runtime: WorkflowEngine (core/engine/workflow.py),   *)
(* OperatorRuntime (core/runtime/operator.py) and ExecutionService         *)
(* (execution/service.py) over ApprovalService (Approvals.tla), the run    *)
(* store, the paper broker and an external broker.                         *)
(*                                                                         *)
(* One asyncio event loop runs every handler, so the code between two      *)
(* awaits that really suspend is one step.  Those awaits are the           *)
(* RiskPolicy.evaluate, BrokerClient.preview_order and submit_order        *)
(* plug-in calls; event publication has no subscriber in this repository   *)
(* and does not suspend.  A Crash may come between any two steps.          *)
(***************************************************************************)
EXTENDS Naturals, Sequences, FiniteSets

CONSTANTS
    Recs, Runs, Submissions,   \* recommendation and run ids, POST /orders/submit calls
    NoRec,                     \* no recommendation: an absent token, a payload that names none
    Profiles,                  \* the [hold, decision] pairs analyses come up with
    SimulateModes,             \* values of analyze's simulate_approval that are tried
    Ttl,                       \* ttl_minutes of the approval service
    BootstrapLimit,            \* list_runs(limit): how many runs a start reads back
    MaxTime, MaxBoots, MaxRecsPerRun   \* bounds of the model

ASSUME RuntimeAssumption ==
    /\ Ttl \in Nat
    /\ BootstrapLimit \in Nat
    /\ NoRec \notin Recs
    /\ Profiles \subseteq [hold : BOOLEAN, decision : {"APPROVED", "REVIEW", "REJECTED"}]
    /\ SimulateModes \subseteq BOOLEAN

VARIABLES
    requests, issued, now,     \* the approval service (see Approvals)
    info,          \* the immutable part of each recommendation, with the decision taken on it
    analysing,     \* runs whose WorkflowEngine.process is still going
    simulated,     \* of those, the ones called with simulate_approval
    runLog,        \* the event list of each RunRecord object of the process
    runs, recommendations,     \* the keys of OperatorRuntime.runs and .recommendations
    risks, executions,         \* OperatorRuntime.risks and .executions
    stored,        \* the payload column of the run store: an event list, <<>> for no row
    sub,           \* the progress of each submission
    wire, ledger,  \* live orders on their way to the broker, and those it accepted
    fills,         \* PaperBrokerClient.positions: the submissions that filled
    boot,          \* number of process starts
    granted, rejected          \* history: the recommendations ever approved, ever rejected

memory == <<runs, recommendations, risks, executions>>
broker == <<wire, ledger, fills>>
history == <<granted, rejected>>
approvals == <<requests, issued, now>>
vars == <<approvals, info, analysing, simulated, runLog, memory, stored, sub,
          broker, boot, history>>

A == INSTANCE Approvals

-----------------------------------------------------------------------------
Decisions == {"APPROVED", "REVIEW", "REJECTED"}
Brokers == {"PAPER", "ZERODHA"}
Outcomes == {"FILLED", "PENDING", "REJECTED", "FAILED"}
Failures == {"REJECTED", "FAILED"}
None == "NONE"

ApprovalEvents == {"APPROVAL_REQUESTED", "APPROVAL_GRANTED", "APPROVAL_REJECTED"}
ExecutionEvents == {"EXECUTION_COMPLETED", "EXECUTION_FAILED"}

\* An event of one of `types`: the recommendation its payload names (NoRec if
\* none), the approval it carries (NoRequest if none), and its decision, broker or
\* outcome.  Only RISK_EVALUATED fails to name the recommendation it is about.
Events(types, named, carried, vals) ==
    [type : types, rec : named, approval : carried, val : vals]

Event ==
    Events({"MARKET_CONTEXT_BUILT"}, {NoRec}, {A!NoRequest}, {None})
    \cup Events({"RECOMMENDATION_CREATED"}, Recs, {A!NoRequest}, {None})
    \cup Events({"RISK_EVALUATED"}, {NoRec}, {A!NoRequest}, Decisions)
    \cup Events(ApprovalEvents, Recs, A!Request, {None})
    \cup Events({"EXECUTION_REQUESTED"}, Recs, {A!NoRequest}, Brokers)
    \cup Events(ExecutionEvents, Recs, {A!NoRequest}, Outcomes)

Ev(type, r, val) == [type |-> type, rec |-> r, approval |-> A!NoRequest, val |-> val]
ApprovalEv(type, r, a) == [type |-> type, rec |-> r, approval |-> a, val |-> None]

Info == [run : Runs, hold : BOOLEAN, decision : Decisions]
NoInfo == [run |-> None, hold |-> FALSE, decision |-> None]

Order == [sub : Submissions, rec : Recs, boot : Nat]

\* What a submission holds across its awaits: the Recommendation it looked up,
\* the broker, the token, and the RiskEvaluation read before the first await.
Sub == [pc : {"preview", "broker"}, rec : Recs, broker : Brokers,
        token : Recs \cup {NoRec}, decision : Decisions]
At(pc) == [pc |-> pc]
Settled == {At("idle"), At("done"), At("raised"), At("lost")}

Exists(r) == info[r] # NoInfo
RecsOf(u) == {r \in Recs : Exists(r) /\ info[r].run = u}
InFlight(s) == sub[s].pc \in {"preview", "broker"}
OrderOf(s) == [sub |-> s, rec |-> sub[s].rec, boot |-> boot]

TypeOK ==
    /\ A!TypeOK
    /\ info \in [Recs -> Info \cup {NoInfo}]
    /\ analysing \in SUBSET Runs /\ simulated \in SUBSET Runs
    /\ runLog \in [Runs -> Seq(Event)]
    /\ runs \in SUBSET Runs /\ recommendations \in SUBSET Recs
    /\ risks \in [Recs -> Decisions \cup {None}]
    /\ executions \in [Recs -> Outcomes \cup {None}]
    /\ stored \in [Runs -> Seq(Event)]
    /\ sub \in [Submissions -> Sub \cup Settled]
    /\ wire \in SUBSET Order /\ ledger \in SUBSET Order
    /\ fills \in SUBSET Submissions
    /\ boot \in Nat
    /\ granted \in SUBSET Recs /\ rejected \in SUBSET Recs

Init ==
    /\ A!Init
    /\ info = [r \in Recs |-> NoInfo]
    /\ analysing = {} /\ simulated = {}
    /\ runLog = [u \in Runs |-> <<>>]
    /\ runs = {} /\ recommendations = {}
    /\ risks = [r \in Recs |-> None]
    /\ executions = [r \in Recs |-> None]
    /\ stored = [u \in Runs |-> <<>>]
    /\ sub = [s \in Submissions |-> At("idle")]
    /\ wire = {} /\ ledger = {} /\ fills = {}
    /\ boot = 1
    /\ granted = {} /\ rejected = {}

-----------------------------------------------------------------------------
(***************************************************************************)
(* What a process start rebuilds from the stored runs                      *)
(***************************************************************************)
Matching(log, types, r) == {i \in DOMAIN log : log[i].type \in types /\ log[i].rec = r}
Earliest(I) == CHOOSE i \in I : \A j \in I : i <= j
Latest(I) == CHOOSE i \in I : \A j \in I : j <= i

ReplayedExecution(log, r) ==
    LET I == Matching(log, ExecutionEvents, r)
    IN IF I = {} THEN None ELSE log[Latest(I)].val

\* A RISK_EVALUATED payload names no recommendation: it is given to the first
\* recommendation of its run, over whatever that one was given before.
ReplayedRisk(log, r) ==
    LET created == {i \in DOMAIN log : log[i].type = "RECOMMENDATION_CREATED"}
        evaluated == {i \in DOMAIN log : log[i].type = "RISK_EVALUATED"}
    IN IF created # {} /\ evaluated # {} /\ r = log[Earliest(created)].rec
       THEN log[Latest(evaluated)].val
       ELSE None

StoredRuns == {u \in Runs : stored[u] # <<>>}

\* The runs list_runs may return: no ORDER BY, so any BootstrapLimit of them.
Loadable == {L \in SUBSET StoredRuns :
                 IF Cardinality(StoredRuns) <= BootstrapLimit
                 THEN L = StoredRuns
                 ELSE Cardinality(L) = BootstrapLimit}

\* Forms of the operators below with a plausible bug, for the mutants of
\* PROJECT.json.
FirstApproval(log, r) ==
    LET I == Matching(log, ApprovalEvents, r)
    IN IF I = {} THEN A!NoRequest ELSE log[Earliest(I)].approval

\* Replaying the approval events of r leaves the payload of the last one.
ReplayedApproval(log, r) ==
    LET I == Matching(log, ApprovalEvents, r)
    IN IF I = {} THEN A!NoRequest ELSE log[Latest(I)].approval

Loaded(L, r) == Exists(r) /\ info[r].run \in L

\* _bootstrap_from_store, on the runs L.
Bootstrap(L) ==
    LET log(r) == stored[info[r].run]
    IN /\ runs' = L
       /\ runLog' = [u \in Runs |-> IF u \in L THEN stored[u] ELSE <<>>]
       /\ recommendations' =
              {r \in Recs : Loaded(L, r) /\ Matching(log(r), {"RECOMMENDATION_CREATED"}, r) # {}}
       /\ risks' = [r \in Recs |-> IF Loaded(L, r) THEN ReplayedRisk(log(r), r) ELSE None]
       /\ requests' = [r \in Recs |-> IF Loaded(L, r) THEN ReplayedApproval(log(r), r)
                                                    ELSE A!NoRequest]
       /\ executions' = [r \in Recs |-> IF Loaded(L, r) THEN ReplayedExecution(log(r), r)
                                                      ELSE None]

-----------------------------------------------------------------------------
(***************************************************************************)
(* Run objects, _require_run and _store_run                                *)
(***************************************************************************)
\* _require_run finds u in runs, or reads it back from the store.
HasRun(u) == u \in runs \/ stored[u] # <<>>
RunObject(u) == IF u \in runs THEN runLog[u] ELSE stored[u]

\* The bug of an append_event with no _store_run after it.
AppendOnly(u, log) ==
    /\ runLog' = [runLog EXCEPT ![u] = log]
    /\ runs' = runs \cup {u}
    /\ UNCHANGED stored

\* append_event on the run object, then _store_run: memory and row agree.
AppendAndStore(u, log) ==
    /\ runLog' = [runLog EXCEPT ![u] = log]
    /\ runs' = runs \cup {u}
    /\ stored' = [stored EXCEPT ![u] = log]

-----------------------------------------------------------------------------
(***************************************************************************)
(* OperatorRuntime.analyze and WorkflowEngine.process                      *)
(***************************************************************************)
\* process makes a fresh RunRecord (nothing of u exists) and records the market
\* context.  An analysis that raises is one that never gets further: the approvals
\* it requested stay in the table, but no client learns their ids.
StartAnalysis(u) ==
    /\ u \notin analysing /\ runLog[u] = <<>> /\ stored[u] = <<>> /\ RecsOf(u) = {}
    /\ analysing' = analysing \cup {u}
    /\ \E simulate \in SimulateModes :
          simulated' = IF simulate THEN simulated \cup {u} ELSE simulated
    /\ runLog' = [runLog EXCEPT ![u] = << Ev("MARKET_CONTEXT_BUILT", NoRec, None) >>]
    /\ UNCHANGED <<approvals, info, memory, stored, sub, broker, boot, history>>

\* One turn of process's loop: the recommendation is created, the risk policies
\* (awaited) decide on it, and its approval is requested; a simulated run on a
\* live broker approves it at once.
AnalyseRecommendation(u, r) ==
    \E p \in Profiles :
      LET pending == A!NewRequest
          approved == [pending EXCEPT !.status = "APPROVED"]
          events == << Ev("RECOMMENDATION_CREATED", r, None),
                       Ev("RISK_EVALUATED", NoRec, p.decision),
                       ApprovalEv("APPROVAL_REQUESTED", r, pending) >>
          grant == << ApprovalEv("APPROVAL_GRANTED", r, approved) >>
      IN /\ u \in analysing /\ r \notin issued
         /\ Cardinality(RecsOf(u)) < MaxRecsPerRun
         /\ info' = [info EXCEPT ![r] = [run |-> u, hold |-> p.hold, decision |-> p.decision]]
         /\ issued' = issued \cup {r}
         /\ IF u \in simulated
            THEN /\ requests' = [requests EXCEPT ![r] = approved]
                 /\ runLog' = [runLog EXCEPT ![u] = @ \o events \o grant]
                 /\ granted' = granted \cup {r}
            ELSE /\ requests' = [requests EXCEPT ![r] = pending]
                 /\ runLog' = [runLog EXCEPT ![u] = @ \o events]
                 /\ UNCHANGED granted
         /\ UNCHANGED <<now, analysing, simulated, memory, stored, sub, broker, boot, rejected>>

\* analyze stores the run and only then publishes recommendations (a strategy may
\* have found none) and risks.
FinishAnalysis(u) ==
    /\ u \in analysing
    /\ AppendAndStore(u, runLog[u])
    /\ recommendations' = recommendations \cup RecsOf(u)
    /\ risks' = [r \in Recs |-> IF r \in RecsOf(u) THEN info[r].decision ELSE risks[r]]
    /\ analysing' = analysing \ {u}
    /\ simulated' = simulated \ {u}
    /\ UNCHANGED <<approvals, info, executions, sub, broker, boot, history>>

-----------------------------------------------------------------------------
(***************************************************************************)
(* Operator decisions.  An operator knows the ids of published runs only.  *)
(***************************************************************************)
Known(r) == Exists(r) /\ info[r].run \notin analysing

RecordDecision(r, type) ==
    LET u == info[r].run
    IN /\ HasRun(u)
       /\ AppendAndStore(u, Append(RunObject(u), ApprovalEv(type, r, requests'[r])))
       /\ UNCHANGED <<info, analysing, simulated, recommendations, risks, executions,
                      sub, broker, boot>>

ApproveRecommendation(r, t) ==
    /\ Known(r) /\ A!Approve(r, t)
    /\ RecordDecision(r, "APPROVAL_GRANTED")
    /\ granted' = granted \cup {r}
    /\ UNCHANGED rejected

RejectRecommendation(r, t) ==
    /\ Known(r) /\ A!Reject(r, t)
    /\ RecordDecision(r, "APPROVAL_REJECTED")
    /\ rejected' = rejected \cup {r}
    /\ UNCHANGED granted

\* Reads (listings, dashboard, stored-token commands) and late decisions expire
\* a request in memory; no event records it.
ExpireApproval(r) ==
    /\ Known(r)
    /\ A!Read(r) \/ \E t \in Recs : A!DecideLate(r, t)
    /\ UNCHANGED <<info, analysing, simulated, runLog, memory, stored, sub, broker, boot, history>>

\* The bug of a clear that only empties the store and the approvals.
ClearStoreOnly ==
    /\ A!Clear
    /\ stored' = [u \in Runs |-> <<>>]
    /\ UNCHANGED <<info, analysing, simulated, runLog, memory, sub, broker, boot, history>>

\* clear_history empties every table and deletes every row; the RunRecord
\* objects that tasks hold live on.
ClearHistory ==
    /\ A!Clear
    /\ runs' = {} /\ recommendations' = {}
    /\ risks' = [r \in Recs |-> None]
    /\ executions' = [r \in Recs |-> None]
    /\ stored' = [u \in Runs |-> <<>>]
    /\ UNCHANGED <<info, analysing, simulated, runLog, sub, broker, boot, history>>

-----------------------------------------------------------------------------
(***************************************************************************)
(* Orders: submit_order, preview_and_execute, ExecutionService.execute     *)
(***************************************************************************)
Live(s) == sub[s].broker # "PAPER"
Become(s, pc) == sub' = [sub EXCEPT ![s] = At(pc)]

\* submit_order looks up the recommendation, its risk and its run, appends
\* EXECUTION_REQUESTED to the run object (no store) and awaits the preview.
Submit(s, r, b, t) ==
    LET u == info[r].run
    IN /\ sub[s] = At("idle")
       /\ r \in recommendations /\ risks[r] # None /\ HasRun(u)
       /\ sub' = [sub EXCEPT ![s] = [pc |-> "preview", rec |-> r, broker |-> b,
                                     token |-> t, decision |-> risks[r]]]
       /\ runLog' = [runLog EXCEPT ![u] = Append(RunObject(u), Ev("EXECUTION_REQUESTED", r, b))]
       /\ runs' = runs \cup {u}
       /\ UNCHANGED <<approvals, info, analysing, simulated, recommendations, risks,
                      executions, stored, broker, boot, history>>

\* The outcome event, executions[id] and _store_run; then submit_order only
\* alerts the operator.  The run object is the one the task has held all along.
RecordOutcome(s, outcome) ==
    LET r == sub[s].rec
        type == IF outcome \in Failures THEN "EXECUTION_FAILED" ELSE "EXECUTION_COMPLETED"
    IN /\ AppendAndStore(info[r].run, Append(runLog[info[r].run], Ev(type, r, outcome)))
       /\ executions' = [executions EXCEPT ![r] = outcome]
       /\ Become(s, "done")
       /\ UNCHANGED <<info, analysing, simulated, recommendations, risks, boot, history>>

\* An exception leaves the handler: the client gets an error, nothing is undone.
Raise(s) ==
    /\ Become(s, "raised")
    /\ UNCHANGED <<approvals, info, analysing, simulated, runLog, memory, stored,
                   broker, boot, history>>

\* ExecutionService.execute up to the broker call.
BlockedByAction(s) == info[sub[s].rec].hold
BlockedOnlyIfRejected(s) == Live(s) /\ sub[s].decision = "REJECTED"
BlockedByRisk(s) == Live(s) /\ sub[s].decision # "APPROVED"
BlockedByToken(s) == Live(s) /\ sub[s].token = NoRec
Blocked(s) == BlockedByAction(s) \/ BlockedByRisk(s) \/ BlockedByToken(s)

\* The execution service refuses, and the refusal is an outcome.
Refuse(s) ==
    /\ sub[s].pc = "preview" /\ Blocked(s)
    /\ RecordOutcome(s, "REJECTED")
    /\ UNCHANGED <<approvals, broker>>

\* The preview (on paper, a price lookup) raised, or consume does.
RaiseBeforeBroker(s) ==
    /\ sub[s].pc = "preview"
    /\ Live(s) => ~Blocked(s) /\ ~A!MayConsume(sub[s].rec, sub[s].token)
    /\ Raise(s)

\* The price is awaited: the paper broker fills in a later step.
SendPaper(s) ==
    /\ sub[s].pc = "preview" /\ ~Blocked(s) /\ ~Live(s)
    /\ sub' = [sub EXCEPT ![s].pc = "broker"]
    /\ UNCHANGED <<approvals, info, analysing, simulated, runLog, memory, stored,
                   broker, boot, history>>

\* The token is consumed and the order is on its way, in one step.
SendLive(s) ==
    /\ sub[s].pc = "preview" /\ ~Blocked(s) /\ Live(s)
    /\ A!Consume(sub[s].rec, sub[s].token)
    /\ wire' = wire \cup {OrderOf(s)}
    /\ sub' = [sub EXCEPT ![s].pc = "broker"]
    /\ UNCHANGED <<info, analysing, simulated, runLog, memory, stored, ledger, fills,
                   boot, history>>

\* No access token, or an instrument the client does not trade: the client answers
\* REJECTED without a request, after the approval token was consumed.
RefusedByClient(s) ==
    /\ sub[s].pc = "preview" /\ ~Blocked(s) /\ Live(s)
    /\ A!Consume(sub[s].rec, sub[s].token)
    /\ RecordOutcome(s, "REJECTED")
    /\ UNCHANGED broker

PaperFills(s) ==
    /\ sub[s].pc = "broker" /\ ~Live(s)
    /\ fills' = fills \cup {s}
    /\ RecordOutcome(s, "FILLED")
    /\ UNCHANGED <<approvals, wire, ledger>>

\* The broker's answer to an order it took.
LiveAccepted(s) ==
    /\ sub[s].pc = "broker" /\ Live(s) /\ OrderOf(s) \in ledger
    /\ RecordOutcome(s, "PENDING")
    /\ UNCHANGED <<approvals, broker>>

\* The bugs of a client that reports an unanswered order as placed, and of one
\* that waits for an answer without a timeout.
LiveFailedAsPlaced(s) ==
    /\ sub[s].pc = "broker" /\ Live(s)
    /\ RecordOutcome(s, "PENDING")
    /\ UNCHANGED <<approvals, broker>>
LiveFailedOnAnswer(s) ==
    /\ sub[s].pc = "broker" /\ Live(s) /\ OrderOf(s) \notin wire
    /\ RecordOutcome(s, "FAILED")
    /\ UNCHANGED <<approvals, broker>>

\* A refusal, an HTTP error or the 20 s timeout; the last two say nothing about
\* whether the broker has taken, or will take, the order.
LiveFailed(s) ==
    /\ sub[s].pc = "broker" /\ Live(s)
    /\ RecordOutcome(s, "FAILED")
    /\ UNCHANGED <<approvals, broker>>

\* The price lookup fails, or the broker's answer is not JSON.
RaiseAtBroker(s) ==
    /\ sub[s].pc = "broker"
    /\ Live(s) => OrderOf(s) \notin wire
    /\ Raise(s)

-----------------------------------------------------------------------------
(***************************************************************************)
(* The broker, the clock, and crashes                                      *)
(***************************************************************************)
BrokerUnchanged == UNCHANGED <<approvals, info, analysing, simulated, runLog, memory,
                               stored, sub, fills, boot, history>>

BrokerTakes(o) == wire' = wire \ {o} /\ ledger' = ledger \cup {o} /\ BrokerUnchanged
BrokerDrops(o) == wire' = wire \ {o} /\ UNCHANGED ledger /\ BrokerUnchanged

Tick ==
    /\ A!Tick
    /\ UNCHANGED <<info, analysing, simulated, runLog, memory, stored, sub, broker, boot, history>>

\* The process dies and a new one starts; what was sent stays sent.
Crash ==
    /\ boot < MaxBoots
    /\ boot' = boot + 1
    /\ \E L \in Loadable : Bootstrap(L)
    /\ analysing' = {} /\ simulated' = {} /\ fills' = {}
    /\ sub' = [s \in Submissions |-> IF InFlight(s) THEN At("lost") ELSE sub[s]]
    /\ UNCHANGED <<issued, now, info, stored, wire, ledger, history>>

-----------------------------------------------------------------------------
Analyse == \/ \E u \in Runs : StartAnalysis(u) \/ FinishAnalysis(u)
           \/ \E u \in Runs, r \in Recs : AnalyseRecommendation(u, r)

Operate == \/ \E r, t \in Recs : ApproveRecommendation(r, t) \/ RejectRecommendation(r, t)
           \/ \E r \in Recs : ExpireApproval(r)
           \/ ClearHistory

\* A submission's own steps, once a client has made it.
Proceed(s) ==
    \/ Refuse(s) \/ RaiseBeforeBroker(s) \/ SendPaper(s) \/ SendLive(s) \/ RefusedByClient(s)
    \/ PaperFills(s) \/ LiveAccepted(s) \/ LiveFailed(s) \/ RaiseAtBroker(s)

Trade == \E s \in Submissions :
            \/ \E r \in Recs, b \in Brokers, t \in Recs \cup {NoRec} : Submit(s, r, b, t)
            \/ Proceed(s)

Environment == (\E o \in wire : BrokerTakes(o) \/ BrokerDrops(o)) \/ Tick \/ Crash

Next == Analyse \/ Operate \/ Trade \/ Environment

Spec == Init /\ [][Next]_vars

\* The event loop runs what is ready, every price lookup returns or raises, and
\* a broker call ends, by httpx's 20 s timeouts if not before.  Nothing else is
\* fair: clients, operators, the broker and crashes owe the program nothing.
Fairness == \A s \in Submissions : WF_vars(Proceed(s))
FairSpec == Spec /\ Fairness

-----------------------------------------------------------------------------
(***************************************************************************)
(* Properties                                                              *)
(***************************************************************************)
Sent == wire \cup ledger

\* docs/architecture.md, "Approval-First Invariant": whatever interleaving,
\* crash or clear came before, a live order is never one of a HOLD
\* recommendation, and an operator approved it and none rejected it.
LiveOrderApproved ==
    \A o \in Sent : ~info[o.rec].hold /\ o.rec \in granted \ rejected

\* "Non-paper brokers require risk approval" (docs/architecture.md:97): the
\* decision the risk policies took on that very recommendation.
LiveOrderRiskApproved == \A o \in Sent : info[o.rec].decision = "APPROVED"

\* "Approval tokens are single-use" (docs/architecture.md:98), within a process:
\* however submissions of one recommendation interleave, one sends an order.
TokenUsedOncePerProcess ==
    \A o1, o2 \in Sent : (o1.rec = o2.rec /\ o1.boot = o2.boot) => o1 = o2

\* The same sentence without the qualification.
TokenUsedOnce == \A o1, o2 \in Sent : o1.rec = o2.rec => o1 = o2

\* An operator's decision is never forgotten or reversed while the request is
\* there at all, across crashes and partial stores of the same run.
DecisionsSurvive ==
    \A r \in Recs : A!Has(r) =>
        /\ r \in granted => requests[r].status \in {"APPROVED", "CONSUMED"}
        /\ r \in rejected => requests[r].status = "REJECTED"

\* _require_run cannot fail under an approval an operator can act on, so a
\* decision is never taken in memory and then lost with a KeyError.
ApprovalHasRun == \A r \in Recs : (Known(r) /\ A!Has(r)) => HasRun(info[r].run)

\* The execution a process reports for a recommendation is the one a restart
\* would rebuild (docs/replay.md), also when a clear ran in between.
ExecutionsReplayable ==
    \A r \in Recs : executions[r] # None =>
        executions[r] = ReplayedExecution(stored[info[r].run], r)

\* An outcome that reports a live order as placed is true of the broker.
ReportedOrdersExist ==
    \A u \in Runs : \A i \in DOMAIN stored[u] :
        stored[u][i].val = "PENDING" => \E o \in ledger : o.rec = stored[u][i].rec

\* A run whose row a clear deleted comes back only through a submission (or an
\* analysis) that was already under way, and no submission of it starts.
ClearedStaysCleared ==
    [][\A u \in Runs : stored[u] = <<>> /\ u \notin analysing =>
          /\ (\A s \in Submissions : InFlight(s) => info[sub[s].rec].run # u) => stored'[u] = <<>>
          /\ \A s \in Submissions : (~InFlight(s) /\ InFlight(s)') => info[sub'[s].rec].run # u]_vars

\* Every submission ends: with an outcome, an error, or its process.
SubmissionsEnd == \A s \in Submissions : InFlight(s) ~> ~InFlight(s)
=============================================================================
