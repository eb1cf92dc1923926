----------------------- MODULE OperatorRuntimeReplay -----------------------
(***************************************************************************)
(* The rest of the safety of OperatorRuntime, for every value of its       *)
(* constants: what the process reports of executions and runs agrees with  *)
(* the rows it stores, and those with the broker.                          *)
(***************************************************************************)
EXTENDS OperatorRuntimeSafety

-----------------------------------------------------------------------------
\* Runs: those in memory have a row, and the runs of approvals are in memory.
RunsStored == /\ \A u \in runs : stored[u] # <<>>
              /\ \A u \in analysing : runLog[u] # <<>>
RunsHeld == \A r \in Recs : (Known(r) /\ A!Has(r)) => info[r].run \in runs

\* Executions: memory, the run object and the row agree.
ExecutionsTrue ==
    \A r \in Recs : executions[r] # None =>
        /\ Exists(r) /\ info[r].run \in runs
        /\ ReplayedExecution(runLog[info[r].run], r) = executions[r]
        /\ ReplayedExecution(stored[info[r].run], r) = executions[r]

\* Placements: no log reports a live order that the broker does not have.
Placed(log, orders) ==
    \A i \in DOMAIN log : log[i].val = "PENDING" => \E o \in orders : o.rec = log[i].rec
LogsPlaced == \A u \in Runs : Placed(runLog[u], ledger) /\ Placed(stored[u], ledger)

-----------------------------------------------------------------------------
(***************************************************************************)
(* What the steps append to the logs                                       *)
(***************************************************************************)
\* A log that goes on from another one without an outcome, or with one of r.
SameOutcomes(new, log) ==
    /\ new \in Seq(Event) /\ new # <<>>
    /\ \A q \in Recs : ReplayedExecution(new, q) = ReplayedExecution(log, q)
    /\ \A orders \in SUBSET Order : Placed(log, orders) => Placed(new, orders)

OneOutcome(new, log, r, outcome) ==
    /\ new \in Seq(Event) /\ new # <<>>
    /\ ReplayedExecution(new, r) = outcome
    /\ \A q \in Recs \ {r} : ReplayedExecution(new, q) = ReplayedExecution(log, q)
    /\ \A orders \in SUBSET Order :
           (Placed(log, orders) /\ (outcome = "PENDING" => \E o \in orders : o.rec = r))
               => Placed(new, orders)

\* What is true of a log with one more event.
LEMMA AppendedLog ==
    ASSUME NEW log \in Seq(Event), NEW e \in Event
    PROVE  /\ Append(log, e) \in Seq(Event) /\ Append(log, e) # <<>>
           /\ \A i \in DOMAIN Append(log, e) : \/ i \in DOMAIN log /\ Append(log, e)[i] = log[i]
                                               \/ Append(log, e)[i] = e
<1>1. /\ Append(log, e) \in Seq(Event)
      /\ Len(Append(log, e)) = Len(log) + 1 /\ Len(log) \in Nat
      /\ DOMAIN log = 1..Len(log) /\ DOMAIN Append(log, e) = 1..(Len(log) + 1)
      /\ Append(log, e)[Len(log) + 1] = e
      /\ \A i \in 1..Len(log) : Append(log, e)[i] = log[i]
    OBVIOUS
<1>2. Append(log, e) # <<>>
    BY <1>1
<1>3. \A i \in 1..(Len(log) + 1) : i \in 1..Len(log) \/ i = Len(log) + 1
    BY <1>1
<1>4. QED BY <1>1, <1>2, <1>3

\* An event that is no outcome changes no execution and places no order.
LEMMA PlainAppend ==
    ASSUME NEW log \in Seq(Event), NEW e \in Event, e.type \notin ExecutionEvents
    PROVE  SameOutcomes(Append(log, e), log)
<1>1. \A q \in Recs : ReplayedExecution(Append(log, e), q) = ReplayedExecution(log, q)
    BY ReplayAppend DEF Names
<1>2. e.val # "PENDING"
    BY DEF Event, Events, ExecutionEvents, Decisions, Brokers, None
<1>3. ASSUME NEW orders \in SUBSET Order, Placed(log, orders)
      PROVE  Placed(Append(log, e), orders)
    BY <1>2, <1>3, AppendedLog DEF Placed
<1>4. QED BY <1>1, <1>3, AppendedLog DEF SameOutcomes

\* What an outcome adds to the log of its run.
LEMMA OutcomeAppend ==
    ASSUME NEW log \in Seq(Event), NEW r \in Recs, NEW type \in ExecutionEvents,
           NEW outcome \in Outcomes
    PROVE  OneOutcome(Append(log, Ev(type, r, outcome)), log, r, outcome)
<1> DEFINE e == Ev(type, r, outcome)
<1>1. e \in Event
    BY EventShape
<1>2. e.type = type /\ e.rec = r /\ e.val = outcome
    BY DEF Ev
<1> HIDE DEF e
<1>3. /\ ReplayedExecution(Append(log, e), r) = outcome
      /\ \A q \in Recs \ {r} : ReplayedExecution(Append(log, e), q) = ReplayedExecution(log, q)
    BY <1>1, <1>2, ReplayAppend DEF Names
<1>4. ASSUME NEW orders \in SUBSET Order, Placed(log, orders),
             outcome = "PENDING" => \E o \in orders : o.rec = r
      PROVE  Placed(Append(log, e), orders)
    BY <1>1, <1>2, <1>4, AppendedLog DEF Placed
<1>5. OneOutcome(Append(log, e), log, r, outcome)
    BY <1>1, <1>3, <1>4, AppendedLog DEF OneOutcome
<1>6. QED BY <1>5 DEF e

\* Going on without an outcome composes.
LEMMA SameOutcomesTwice ==
    ASSUME NEW a, NEW b, NEW c, SameOutcomes(a, b), SameOutcomes(b, c)
    PROVE  SameOutcomes(a, c)
    BY DEF SameOutcomes

\* What an analysis adds to the log of its run.
LEMMA AnalysisAppends ==
    ASSUME TypeInv, NEW u \in Runs, NEW r \in Recs, AnalyseRecommendation(u, r)
    PROVE  /\ \A v \in Runs \ {u} : runLog'[v] = runLog[v]
           /\ SameOutcomes(runLog'[u], runLog[u])
<1> DEFINE pending == A!NewRequest
           approved == [pending EXCEPT !.status = "APPROVED"]
           a == Ev("RECOMMENDATION_CREATED", r, None)
           b(p) == Ev("RISK_EVALUATED", NoRec, p.decision)
           c == ApprovalEv("APPROVAL_REQUESTED", r, pending)
           d == ApprovalEv("APPROVAL_GRANTED", r, approved)
<1>1. PICK p \in Profiles :
          \/ runLog' = [runLog EXCEPT ![u] = @ \o <<a, b(p), c>> \o <<d>>]
          \/ runLog' = [runLog EXCEPT ![u] = @ \o <<a, b(p), c>>]
    BY DEF AnalyseRecommendation
<1>2. pending \in A!Request /\ approved \in A!Request
    <2>1. now + Ttl \in Nat
        BY RuntimeAssumption DEF TypeInv, TypeOK, A!TypeOK
    <2>2. pending \in A!Request
        BY <2>1 DEF A!NewRequest, A!Request, A!Statuses
    <2>3. QED BY <2>2 DEF A!Request, A!Statuses
<1> HIDE DEF pending, approved
<1>3. a \in Event /\ b(p) \in Event /\ c \in Event /\ d \in Event
    <2>1. p.decision \in Decisions
        BY RuntimeAssumption DEF Decisions
    <2>2. QED BY <1>2, <2>1, EventShape DEF ApprovalEvents
<1>4. \A e \in {a, b(p), c, d} : e.type \notin ExecutionEvents
    BY DEF Ev, ApprovalEv, ExecutionEvents
<1> HIDE DEF a, b, c, d
<1>5. runLog \in [Runs -> Seq(Event)] /\ runLog[u] \in Seq(Event)
    BY DEF TypeInv, TypeOK
<1> DEFINE l1 == Append(runLog[u], a)
           l2 == Append(l1, b(p))
           l3 == Append(l2, c)
           l4 == Append(l3, d)
<1>6. l1 \in Seq(Event) /\ l2 \in Seq(Event) /\ l3 \in Seq(Event)
    BY <1>3, <1>5
<1>7. SameOutcomes(l1, runLog[u]) /\ SameOutcomes(l2, l1) /\ SameOutcomes(l3, l2)
      /\ SameOutcomes(l4, l3)
    BY <1>3, <1>4, <1>5, <1>6, PlainAppend
<1>8. runLog[u] \o <<a, b(p), c>> = l3 /\ runLog[u] \o <<a, b(p), c>> \o <<d>> = l4
    BY <1>3, <1>5, AppendThree
<1> HIDE DEF l1, l2, l3, l4
<1>9. SameOutcomes(l3, runLog[u]) /\ SameOutcomes(l4, runLog[u])
    BY <1>7, SameOutcomesTwice
<1>10. runLog'[u] \in {l3, l4} /\ \A v \in Runs \ {u} : runLog'[v] = runLog[v]
    BY <1>1, <1>5, <1>8
<1>11. QED BY <1>9, <1>10

-----------------------------------------------------------------------------
(***************************************************************************)
(* What the steps do to the logs: at most one run is touched               *)
(***************************************************************************)
OnlyTouches(u) == \A v \in Runs \ {u} : runLog'[v] = runLog[v] /\ stored'[v] = stored[v]

\* An operator's decision stores the run object with one more event.
LEMMA DecisionLogs ==
    ASSUME TypeInv, NEW r \in Recs, NEW type \in ApprovalEvents, Exists(r),
           requests'[r] \in A!Request, RecordDecision(r, type), NEW u, u = info[r].run
    PROVE  /\ u \in Runs /\ OnlyTouches(u) /\ HasRun(u)
           /\ SameOutcomes(runLog'[u], RunObject(u)) /\ stored'[u] = runLog'[u]
           /\ runs' = runs \cup {u}
<1> DEFINE e == ApprovalEv(type, r, requests'[r])
           log == Append(RunObject(u), e)
<1>1. u \in Runs
    BY RunOf DEF TypeInv
<1>2. RunObject(u) \in Seq(Event)
      /\ runLog \in [Runs -> Seq(Event)] /\ stored \in [Runs -> Seq(Event)]
    BY <1>1 DEF TypeInv, TypeOK, RunObject
<1>3. e \in Event
    BY EventShape
<1>4. e.type \notin ExecutionEvents
    BY DEF ApprovalEv, ApprovalEvents, ExecutionEvents
<1>5. SameOutcomes(log, RunObject(u))
    BY <1>2, <1>3, <1>4, PlainAppend
<1>6. /\ runLog' = [runLog EXCEPT ![u] = log] /\ stored' = [stored EXCEPT ![u] = log]
      /\ runs' = runs \cup {u} /\ HasRun(u)
    BY DEF RecordDecision, AppendAndStore
<1> HIDE DEF log
<1>7. runLog'[u] = log /\ stored'[u] = log /\ OnlyTouches(u)
    BY <1>1, <1>2, <1>6 DEF OnlyTouches
<1>8. QED BY <1>1, <1>5, <1>6, <1>7

\* A submission appends to the run object and stores nothing.
LEMMA SubmitLogs ==
    ASSUME TypeInv, NEW s \in Submissions, NEW r \in Recs, NEW b \in Brokers, NEW t,
           Submit(s, r, b, t), NEW u, u = info[r].run
    PROVE  /\ u \in Runs /\ OnlyTouches(u) /\ HasRun(u) /\ Exists(r)
           /\ SameOutcomes(runLog'[u], RunObject(u)) /\ stored'[u] = stored[u]
           /\ runs' = runs \cup {u}
<1> DEFINE e == Ev("EXECUTION_REQUESTED", r, b)
           log == Append(RunObject(u), e)
<1>1. u \in Runs /\ Exists(r)
    BY RunOf DEF TypeInv, KnownExist, Submit
<1>2. RunObject(u) \in Seq(Event) /\ runLog \in [Runs -> Seq(Event)]
    BY <1>1 DEF TypeInv, TypeOK, RunObject
<1>3. e \in Event
    BY EventShape
<1>4. e.type \notin ExecutionEvents
    BY DEF Ev, ExecutionEvents
<1>5. SameOutcomes(log, RunObject(u))
    BY <1>2, <1>3, <1>4, PlainAppend
<1>6. /\ runLog' = [runLog EXCEPT ![u] = log] /\ stored' = stored
      /\ runs' = runs \cup {u} /\ HasRun(u)
    BY DEF Submit
<1> HIDE DEF log
<1>7. runLog'[u] = log /\ stored'[u] = stored[u] /\ OnlyTouches(u)
    BY <1>1, <1>2, <1>6 DEF OnlyTouches
<1>8. QED BY <1>1, <1>5, <1>6, <1>7

\* An outcome stores the run object with one more event.
LEMMA OutcomeLogs ==
    ASSUME TypeInv, NEW s \in Submissions, InFlight(s), NEW outcome \in Outcomes,
           RecordOutcome(s, outcome), NEW r, r = sub[s].rec, NEW u, u = info[r].run
    PROVE  /\ r \in Recs /\ Exists(r) /\ u \in Runs /\ OnlyTouches(u)
           /\ OneOutcome(runLog'[u], runLog[u], r, outcome) /\ stored'[u] = runLog'[u]
           /\ runs' = runs \cup {u}
           /\ executions' = [executions EXCEPT ![r] = outcome]
<1> DEFINE type == IF outcome \in Failures THEN "EXECUTION_FAILED" ELSE "EXECUTION_COMPLETED"
           log == Append(runLog[u], Ev(type, r, outcome))
<1>1. r \in Recs /\ Exists(r) /\ u \in Runs
    BY HeldBySubmission, RunOf DEF TypeInv
<1>2. runLog[u] \in Seq(Event) /\ runLog \in [Runs -> Seq(Event)] /\ stored \in [Runs -> Seq(Event)]
    BY <1>1 DEF TypeInv, TypeOK
<1>3. type \in ExecutionEvents
    BY DEF ExecutionEvents
<1>4. /\ runLog' = [runLog EXCEPT ![u] = log] /\ stored' = [stored EXCEPT ![u] = log]
      /\ runs' = runs \cup {u} /\ executions' = [executions EXCEPT ![r] = outcome]
    BY DEF RecordOutcome, AppendAndStore
<1> HIDE DEF type
<1>5. OneOutcome(log, runLog[u], r, outcome)
    BY <1>1, <1>2, <1>3, OutcomeAppend
<1> HIDE DEF log
<1>6. runLog'[u] = log /\ stored'[u] = log /\ OnlyTouches(u)
    BY <1>1, <1>2, <1>4 DEF OnlyTouches
<1>7. QED BY <1>1, <1>4, <1>5, <1>6

-----------------------------------------------------------------------------
(***************************************************************************)
(* The four invariants are inductive together, given ApprovalInv           *)
(***************************************************************************)
ReplayInv == RunsStored /\ RunsHeld /\ ExecutionsTrue /\ LogsPlaced

\* Steps that touch no log, no run and no execution.
LEMMA QuietKeepsReplay ==
    ASSUME ReplayInv,
           UNCHANGED <<info, analysing, runLog, runs, executions, stored, ledger>>,
           \A r \in Recs : A!Has(r)' => A!Has(r)
    PROVE  ReplayInv'
<1>1. RunsStored' /\ LogsPlaced'
    BY DEF ReplayInv, RunsStored, LogsPlaced, Placed
<1>2. RunsHeld'
    BY DEF ReplayInv, RunsHeld, Known, Exists
<1>3. ExecutionsTrue'
    BY DEF ReplayInv, ExecutionsTrue, Exists
<1>4. QED BY <1>1, <1>2, <1>3 DEF ReplayInv

\* Steps that touch the log of one run u: what is to be shown of u suffices.
LEMMA OneRunKeepsReplay ==
    ASSUME TypeInv, ReplayInv, NEW u \in Runs, OnlyTouches(u),
           UNCHANGED <<info, analysing, ledger>>,
           runs' = runs \cup {u}, runLog'[u] # <<>>, stored'[u] # <<>>,
           \A r \in Recs : A!Has(r)' => A!Has(r),
           \A r \in Recs : executions'[r] # None =>
               \/ executions'[r] = executions[r] /\ Exists(r) /\ info[r].run # u
               \/ /\ Exists(r) /\ info[r].run = u
                  /\ ReplayedExecution(runLog'[u], r) = executions'[r]
                  /\ ReplayedExecution(stored'[u], r) = executions'[r],
           Placed(runLog'[u], ledger), Placed(stored'[u], ledger)
    PROVE  ReplayInv'
<1>1. RunsStored'
    BY DEF ReplayInv, RunsStored, OnlyTouches, TypeInv, TypeOK
<1>2. RunsHeld'
    BY DEF ReplayInv, RunsHeld, Known, Exists
<1>3. ExecutionsTrue'
    <2> SUFFICES ASSUME NEW r \in Recs, executions'[r] # None
                 PROVE  /\ Exists(r)' /\ info'[r].run \in runs'
                        /\ ReplayedExecution(runLog'[info'[r].run], r) = executions'[r]
                        /\ ReplayedExecution(stored'[info'[r].run], r) = executions'[r]
        BY DEF ExecutionsTrue
    <2>1. CASE info[r].run = u /\ Exists(r)
        BY <2>1 DEF Exists
    <2>2. CASE executions'[r] = executions[r] /\ Exists(r) /\ info[r].run # u
        BY <2>2, RunOf DEF ReplayInv, ExecutionsTrue, Exists, OnlyTouches, TypeInv
    <2>3. QED BY <2>1, <2>2
<1>4. LogsPlaced'
    BY DEF ReplayInv, LogsPlaced, OnlyTouches
<1>5. QED BY <1>1, <1>2, <1>3, <1>4 DEF ReplayInv

\* A decision an operator takes.
LEMMA DecisionKeepsReplay ==
    ASSUME TypeInv, ReplayInv, NEW r \in Recs, NEW type \in ApprovalEvents, Exists(r),
           requests'[r] \in A!Request, RecordDecision(r, type),
           \A q \in Recs : A!Has(q)' => A!Has(q)
    PROVE  ReplayInv'
<1> DEFINE u == info[r].run
<1>1. /\ u \in Runs /\ OnlyTouches(u) /\ HasRun(u)
      /\ SameOutcomes(runLog'[u], RunObject(u)) /\ stored'[u] = runLog'[u]
      /\ runs' = runs \cup {u}
    BY DecisionLogs
<1>2. UNCHANGED <<info, analysing, executions, ledger>>
    BY DEF RecordDecision, broker
<1> HIDE DEF u
<1>3. ledger \in SUBSET Order
    BY DEF TypeInv, TypeOK
<1>4. Placed(RunObject(u), ledger)
    BY <1>1 DEF ReplayInv, LogsPlaced, RunObject
<1>5. Placed(runLog'[u], ledger) /\ runLog'[u] # <<>>
    BY <1>1, <1>3, <1>4 DEF SameOutcomes
<1>6. ASSUME NEW q \in Recs, executions'[q] # None
      PROVE  \/ executions'[q] = executions[q] /\ Exists(q) /\ info[q].run # u
             \/ /\ Exists(q) /\ info[q].run = u
                /\ ReplayedExecution(runLog'[u], q) = executions'[q]
                /\ ReplayedExecution(stored'[u], q) = executions'[q]
    <2>1. /\ Exists(q) /\ info[q].run \in runs
          /\ ReplayedExecution(runLog[info[q].run], q) = executions[q]
        BY <1>2, <1>6 DEF ReplayInv, ExecutionsTrue
    <2>2. QED BY <1>1, <1>2, <2>1 DEF SameOutcomes, RunObject
<1>7. QED BY <1>1, <1>2, <1>5, <1>6, OneRunKeepsReplay

\* A submission arrives.
LEMMA SubmitKeepsReplay ==
    ASSUME TypeInv, ReplayInv, NEW s \in Submissions, NEW r \in Recs, NEW b \in Brokers,
           NEW t, Submit(s, r, b, t)
    PROVE  ReplayInv'
<1> DEFINE u == info[r].run
<1>1. /\ u \in Runs /\ OnlyTouches(u) /\ HasRun(u)
      /\ SameOutcomes(runLog'[u], RunObject(u)) /\ stored'[u] = stored[u]
      /\ runs' = runs \cup {u}
    BY SubmitLogs
<1>2. UNCHANGED <<info, analysing, executions, ledger, requests>>
    BY DEF Submit, approvals, broker
<1> HIDE DEF u
<1>3. ledger \in SUBSET Order
    BY DEF TypeInv, TypeOK
<1>4. Placed(RunObject(u), ledger) /\ Placed(stored'[u], ledger)
    BY <1>1 DEF ReplayInv, LogsPlaced, RunObject
<1>5. Placed(runLog'[u], ledger) /\ runLog'[u] # <<>> /\ stored'[u] # <<>>
    BY <1>1, <1>3, <1>4 DEF SameOutcomes, HasRun, ReplayInv, RunsStored
<1>6. ASSUME NEW q \in Recs, executions'[q] # None
      PROVE  \/ executions'[q] = executions[q] /\ Exists(q) /\ info[q].run # u
             \/ /\ Exists(q) /\ info[q].run = u
                /\ ReplayedExecution(runLog'[u], q) = executions'[q]
                /\ ReplayedExecution(stored'[u], q) = executions'[q]
    <2>1. /\ Exists(q) /\ info[q].run \in runs
          /\ ReplayedExecution(runLog[info[q].run], q) = executions[q]
          /\ ReplayedExecution(stored[info[q].run], q) = executions[q]
        BY <1>2, <1>6 DEF ReplayInv, ExecutionsTrue
    <2>2. QED BY <1>1, <1>2, <2>1 DEF SameOutcomes, RunObject
<1>7. \A q \in Recs : A!Has(q)' => A!Has(q)
    BY <1>2 DEF A!Has
<1>8. QED BY <1>1, <1>2, <1>4, <1>5, <1>6, <1>7, OneRunKeepsReplay

\* A submission ends with an outcome.
LEMMA OutcomeKeepsReplay ==
    ASSUME TypeInv, ReplayInv, NEW s \in Submissions, InFlight(s), NEW outcome \in Outcomes,
           RecordOutcome(s, outcome), UNCHANGED ledger,
           outcome = "PENDING" => \E o \in ledger : o.rec = sub[s].rec,
           \A q \in Recs : A!Has(q)' => A!Has(q)
    PROVE  ReplayInv'
<1> DEFINE r == sub[s].rec
           u == info[r].run
<1>1. /\ r \in Recs /\ Exists(r) /\ u \in Runs /\ OnlyTouches(u)
      /\ OneOutcome(runLog'[u], runLog[u], r, outcome) /\ stored'[u] = runLog'[u]
      /\ runs' = runs \cup {u}
      /\ executions' = [executions EXCEPT ![r] = outcome]
    BY OutcomeLogs
<1>2. UNCHANGED <<info, analysing>>
    BY DEF RecordOutcome
<1> HIDE DEF u
<1>3. Placed(runLog'[u], ledger) /\ runLog'[u] # <<>>
    <2>1. ledger \in SUBSET Order
        BY DEF TypeInv, TypeOK
    <2>2. Placed(runLog[u], ledger)
        BY <1>1 DEF ReplayInv, LogsPlaced
    <2>3. QED BY <1>1, <2>1, <2>2 DEF OneOutcome
<1>4. info[r].run = u
    BY DEF u
<1> HIDE DEF r
<1>5. ASSUME NEW q \in Recs, executions'[q] # None
      PROVE  \/ executions'[q] = executions[q] /\ Exists(q) /\ info[q].run # u
             \/ /\ Exists(q) /\ info[q].run = u
                /\ ReplayedExecution(runLog'[u], q) = executions'[q]
                /\ ReplayedExecution(stored'[u], q) = executions'[q]
    <2>1. executions \in [Recs -> Outcomes \cup {None}]
        BY DEF TypeInv, TypeOK
    <2>2. CASE q = r
        BY <1>1, <1>4, <2>1, <2>2 DEF OneOutcome
    <2>3. CASE q # r
        <3>1. executions'[q] = executions[q]
            BY <1>1, <2>1, <2>3
        <3>2. /\ Exists(q) /\ info[q].run \in runs
              /\ ReplayedExecution(runLog[info[q].run], q) = executions[q]
            BY <1>5, <3>1 DEF ReplayInv, ExecutionsTrue
        <3>3. QED BY <1>1, <2>3, <3>1, <3>2 DEF OneOutcome
    <2>4. QED BY <2>2, <2>3
<1>6. QED BY <1>1, <1>2, <1>3, <1>5, OneRunKeepsReplay

\* The steps of an analysis: its run's recommendations have no execution yet.
LEMMA AnalyseKeepsReplay == TypeInv /\ ApprovalInv /\ ReplayInv /\ Analyse => ReplayInv'
<1> SUFFICES ASSUME TypeInv, ApprovalInv, ReplayInv, Analyse PROVE ReplayInv'
    OBVIOUS
<1>1. ASSUME NEW u \in Runs, StartAnalysis(u) PROVE ReplayInv'
    <2> DEFINE log == << Ev("MARKET_CONTEXT_BUILT", NoRec, None) >>
    <2>1. /\ runLog' = [runLog EXCEPT ![u] = log] /\ RecsOf(u) = {}
          /\ UNCHANGED <<info, runs, executions, stored, ledger, requests>>
          /\ analysing' = analysing \cup {u}
        BY <1>1 DEF StartAnalysis, memory, approvals, broker
    <2>2. log # <<>> /\ \A orders \in SUBSET Order : Placed(log, orders)
        BY DEF Ev, None, Placed
    <2> HIDE DEF log
    <2>3. runLog \in [Runs -> Seq(Event)] /\ ledger \in SUBSET Order
        BY DEF TypeInv, TypeOK
    <2>4. RunsStored' /\ LogsPlaced'
        BY <2>1, <2>2, <2>3 DEF ReplayInv, RunsStored, LogsPlaced
    <2>5. RunsHeld'
        BY <2>1 DEF ReplayInv, RunsHeld, Known, A!Has, Exists
    <2>6. ExecutionsTrue'
        BY <2>1, <2>3, RunOf DEF ReplayInv, ExecutionsTrue, RecsOf, Exists, TypeInv
    <2>7. QED BY <2>4, <2>5, <2>6 DEF ReplayInv
<1>2. ASSUME NEW u \in Runs, NEW r \in Recs, AnalyseRecommendation(u, r) PROVE ReplayInv'
    <2>1. /\ u \in analysing /\ r \notin issued
          /\ \A q \in Recs \ {r} : info'[q] = info[q] /\ requests'[q] = requests[q]
          /\ info'[r].run = u
          /\ UNCHANGED <<analysing, runs, executions, stored, ledger>>
        BY <1>2 DEF AnalyseRecommendation, memory, broker, TypeInv, TypeOK, A!TypeOK
    <2>2. /\ \A v \in Runs \ {u} : runLog'[v] = runLog[v]
          /\ SameOutcomes(runLog'[u], runLog[u])
        BY <1>2, AnalysisAppends
    <2>3. ledger \in SUBSET Order
        BY DEF TypeInv, TypeOK
    <2>4. RunsStored' /\ LogsPlaced'
        BY <2>1, <2>2, <2>3 DEF ReplayInv, RunsStored, LogsPlaced, SameOutcomes, TypeInv, TypeOK
    <2>5. RunsHeld'
        BY <2>1 DEF ReplayInv, RunsHeld, Known, A!Has, Exists
    <2>6. ExecutionsTrue'
        <3> SUFFICES ASSUME NEW q \in Recs, executions[q] # None
                     PROVE  /\ Exists(q)' /\ info'[q].run \in runs
                            /\ ReplayedExecution(runLog'[info'[q].run], q) = executions[q]
                            /\ ReplayedExecution(stored[info'[q].run], q) = executions[q]
            BY <2>1 DEF ExecutionsTrue
        <3>1. /\ Exists(q) /\ info[q].run \in runs
              /\ ReplayedExecution(runLog[info[q].run], q) = executions[q]
              /\ ReplayedExecution(stored[info[q].run], q) = executions[q]
            BY DEF ReplayInv, ExecutionsTrue
        <3>2. q # r
            BY <2>1, <3>1 DEF ApprovalInv, DecidedOnce
        <3>3. info'[q] = info[q] /\ info[q].run \in Runs
            BY <2>1, <3>1, <3>2, RunOf DEF TypeInv
        <3>4. QED BY <2>2, <3>1, <3>3 DEF SameOutcomes, Exists
    <2>7. QED BY <2>4, <2>5, <2>6 DEF ReplayInv
<1>3. ASSUME NEW u \in Runs, FinishAnalysis(u) PROVE ReplayInv'
    <2>1. /\ u \in analysing /\ runs' = runs \cup {u} /\ analysing' = analysing \ {u}
          /\ stored' = [stored EXCEPT ![u] = runLog[u]]
          /\ runLog' = [runLog EXCEPT ![u] = runLog[u]]
          /\ UNCHANGED <<info, executions, ledger, requests>>
        BY <1>3 DEF FinishAnalysis, AppendAndStore, approvals, broker
    <2>2. stored'[u] = runLog[u] /\ runLog' = runLog
          /\ \A v \in Runs \ {u} : stored'[v] = stored[v]
        BY <2>1 DEF TypeInv, TypeOK
    <2>3. RunsStored' /\ LogsPlaced'
        BY <2>1, <2>2 DEF ReplayInv, RunsStored, LogsPlaced, TypeInv, TypeOK
    <2>4. RunsHeld'
        BY <2>1 DEF ReplayInv, RunsHeld, Known, A!Has, Exists
    <2>5. ExecutionsTrue'
        BY <2>1, <2>2, RunOf DEF ReplayInv, ExecutionsTrue, Exists, TypeInv
    <2>6. QED BY <2>3, <2>4, <2>5 DEF ReplayInv
<1>4. QED BY <1>1, <1>2, <1>3 DEF Analyse

\* A request that moves is of a recommendation that has one.
LEMMA MovedHas ==
    ASSUME TypeInv, NEW r \in Recs, A!Has(r), NEW st \in A!Statuses,
           requests' = [requests EXCEPT ![r] = A!Moved(r, st)]
    PROVE  requests'[r] \in A!Request /\ \A q \in Recs : A!Has(q)' => A!Has(q)
<1>1. requests \in [Recs -> A!Request \cup {A!NoRequest}] /\ requests[r] \in A!Request
    BY DEF TypeInv, TypeOK, A!TypeOK, A!Has
<1>2. requests'[r] = A!Moved(r, st) /\ \A q \in Recs \ {r} : requests'[q] = requests[q]
    BY <1>1
<1>3. A!Moved(r, st) \in A!Request
    BY <1>1 DEF A!Moved, A!Request
<1>4. QED BY <1>2, <1>3 DEF A!Has

\* Operators' calls.
LEMMA OperateKeepsReplay == TypeInv /\ ReplayInv /\ Operate => ReplayInv'
<1> SUFFICES ASSUME TypeInv, ReplayInv, Operate PROVE ReplayInv'
    OBVIOUS
<1>1. ASSUME NEW r \in Recs, NEW t \in Recs, ApproveRecommendation(r, t) PROVE ReplayInv'
    <2>1. /\ A!Has(r) /\ requests' = [requests EXCEPT ![r] = A!Moved(r, "APPROVED")]
          /\ Exists(r) /\ RecordDecision(r, "APPROVAL_GRANTED")
        BY <1>1 DEF ApproveRecommendation, A!Approve, A!MayDecide, A!PendingFor, Known
    <2>2. "APPROVED" \in A!Statuses /\ "APPROVAL_GRANTED" \in ApprovalEvents
        BY DEF A!Statuses, ApprovalEvents
    <2>3. QED BY <2>1, <2>2, MovedHas, DecisionKeepsReplay
<1>2. ASSUME NEW r \in Recs, NEW t \in Recs, RejectRecommendation(r, t) PROVE ReplayInv'
    <2>1. /\ A!Has(r) /\ requests' = [requests EXCEPT ![r] = A!Moved(r, "REJECTED")]
          /\ Exists(r) /\ RecordDecision(r, "APPROVAL_REJECTED")
        BY <1>2 DEF RejectRecommendation, A!Reject, A!MayDecide, A!PendingFor, Known
    <2>2. "REJECTED" \in A!Statuses /\ "APPROVAL_REJECTED" \in ApprovalEvents
        BY DEF A!Statuses, ApprovalEvents
    <2>3. QED BY <2>1, <2>2, MovedHas, DecisionKeepsReplay
<1>3. ASSUME NEW r \in Recs, ExpireApproval(r) PROVE ReplayInv'
    <2>1. A!Has(r) /\ requests' = [requests EXCEPT ![r] = A!Moved(r, "EXPIRED")]
        BY <1>3 DEF ExpireApproval, A!Read, A!ReadExpires, A!DecideLate, A!DecidesTooLate, A!PendingFor
    <2>2. UNCHANGED <<info, analysing, runLog, runs, executions, stored, ledger>>
        BY <1>3 DEF ExpireApproval, memory, broker
    <2>3. "EXPIRED" \in A!Statuses
        BY DEF A!Statuses
    <2>4. QED BY <2>1, <2>2, <2>3, MovedHas, QuietKeepsReplay
<1>4. CASE ClearHistory
    <2>1. /\ runs' = {} /\ UNCHANGED <<info, analysing, runLog, ledger>>
          /\ \A u \in Runs : stored'[u] = <<>>
          /\ \A r \in Recs : executions'[r] = None /\ requests'[r] = A!NoRequest
        BY <1>4 DEF ClearHistory, A!Clear, broker
    <2>2. RunsStored' /\ LogsPlaced'
        BY <2>1 DEF ReplayInv, RunsStored, LogsPlaced, Placed
    <2>3. RunsHeld' /\ ExecutionsTrue'
        BY <2>1 DEF RunsHeld, ExecutionsTrue, A!Has
    <2>4. QED BY <2>2, <2>3 DEF ReplayInv
<1>5. QED BY <1>1, <1>2, <1>3, <1>4 DEF Operate

\* Submissions: PENDING is recorded only on the broker's own answer.
LEMMA TradeKeepsReplay == TypeInv /\ ReplayInv /\ Trade => ReplayInv'
<1> SUFFICES ASSUME TypeInv, ReplayInv, NEW s \in Submissions,
                    \/ \E r \in Recs, b \in Brokers, t \in Recs \cup {NoRec} : Submit(s, r, b, t)
                    \/ Proceed(s)
             PROVE  ReplayInv'
    BY DEF Trade
<1>1. ASSUME NEW r \in Recs, NEW b \in Brokers, NEW t \in Recs \cup {NoRec}, Submit(s, r, b, t)
      PROVE  ReplayInv'
    BY <1>1, SubmitKeepsReplay
\* A consumed token is of a recommendation that has a request.
<1>2. ASSUME A!Consume(sub[s].rec, sub[s].token), InFlight(s)
      PROVE  \A q \in Recs : A!Has(q)' => A!Has(q)
    <2>1. A!Has(sub[s].rec)
          /\ requests' = [requests EXCEPT ![sub[s].rec] = A!Moved(sub[s].rec, "CONSUMED")]
        BY <1>2 DEF A!Consume, A!MayConsume
    <2>2. sub[s].rec \in Recs /\ "CONSUMED" \in A!Statuses
        BY <1>2, HeldBySubmission DEF A!Statuses
    <2>3. QED BY <2>1, <2>2, MovedHas
<1>3. CASE Refuse(s) \/ PaperFills(s) \/ LiveFailed(s)
    <2>1. PICK outcome \in Outcomes \ {"PENDING"} : RecordOutcome(s, outcome)
        BY <1>3 DEF Refuse, PaperFills, LiveFailed, Outcomes
    <2>2. InFlight(s) /\ UNCHANGED <<ledger, requests>>
        BY <1>3 DEF Refuse, PaperFills, LiveFailed, InFlight, approvals, broker
    <2>3. \A q \in Recs : A!Has(q)' => A!Has(q)
        BY <2>2 DEF A!Has
    <2>4. QED BY <2>1, <2>2, <2>3, OutcomeKeepsReplay
<1>4. CASE LiveAccepted(s)
    <2>1. InFlight(s) /\ RecordOutcome(s, "PENDING") /\ UNCHANGED <<ledger, requests>>
        BY <1>4 DEF LiveAccepted, InFlight, approvals, broker
    <2>2. \E o \in ledger : o.rec = sub[s].rec
        BY <1>4 DEF LiveAccepted, OrderOf
    <2>3. \A q \in Recs : A!Has(q)' => A!Has(q)
        BY <2>1 DEF A!Has
    <2>4. QED BY <2>1, <2>2, <2>3, OutcomeKeepsReplay DEF Outcomes
<1>5. CASE RefusedByClient(s)
    <2>1. InFlight(s) /\ RecordOutcome(s, "REJECTED") /\ UNCHANGED ledger
        BY <1>5 DEF RefusedByClient, InFlight, broker
    <2>2. \A q \in Recs : A!Has(q)' => A!Has(q)
        BY <1>2, <1>5, <2>1 DEF RefusedByClient
    <2>3. QED BY <2>1, <2>2, OutcomeKeepsReplay DEF Outcomes
<1>6. CASE SendLive(s)
    <2>1. InFlight(s) /\ UNCHANGED <<info, analysing, runLog, runs, executions, stored, ledger>>
        BY <1>6 DEF SendLive, InFlight, memory
    <2>2. QED BY <1>2, <1>6, <2>1, QuietKeepsReplay DEF SendLive
<1>7. CASE RaiseBeforeBroker(s) \/ RaiseAtBroker(s) \/ SendPaper(s)
    <2>1. UNCHANGED <<info, analysing, runLog, runs, executions, stored, ledger, requests>>
        BY <1>7 DEF RaiseBeforeBroker, RaiseAtBroker, Raise, SendPaper, memory, approvals, broker
    <2>2. QED BY <2>1, QuietKeepsReplay DEF A!Has
<1>8. QED BY <1>1, <1>3, <1>4, <1>5, <1>6, <1>7 DEF Proceed

\* The broker, the clock, and restarts.
LEMMA EnvironmentKeepsReplay == TypeInv /\ ReplayInv /\ Environment => ReplayInv'
<1> SUFFICES ASSUME TypeInv, ReplayInv, Environment PROVE ReplayInv'
    OBVIOUS
\* The broker's book only grows.
<1>1. ASSUME NEW o \in wire, BrokerTakes(o) \/ BrokerDrops(o) PROVE ReplayInv'
    <2>1. /\ UNCHANGED <<info, analysing, runLog, runs, executions, stored, requests>>
          /\ ledger \subseteq ledger'
        BY <1>1 DEF BrokerTakes, BrokerDrops, BrokerUnchanged, memory, approvals
    <2>2. RunsStored' /\ LogsPlaced'
        BY <2>1 DEF ReplayInv, RunsStored, LogsPlaced, Placed
    <2>3. RunsHeld' /\ ExecutionsTrue'
        BY <2>1 DEF ReplayInv, RunsHeld, ExecutionsTrue, Known, Exists, A!Has
    <2>4. QED BY <2>2, <2>3 DEF ReplayInv
<1>2. CASE Tick
    BY <1>2, QuietKeepsReplay DEF Tick, A!Tick, memory, broker, A!Has
\* A start has the rows it read, and what they replay to.
<1>3. CASE Crash
    <2>1. PICK L \in Loadable : Bootstrap(L)
        BY <1>3 DEF Crash
    <2>2. UNCHANGED <<info, stored, ledger>> /\ analysing' = {}
        BY <1>3 DEF Crash
    <2>3. L \subseteq Runs /\ \A u \in L : stored[u] # <<>>
        BY DEF Loadable, StoredRuns
    <2>4. /\ runs' = L
          /\ \A u \in Runs : runLog'[u] = IF u \in L THEN stored[u] ELSE <<>>
          /\ \A r \in Recs : /\ executions'[r] # None => Loaded(L, r)
                             /\ A!Has(r)' => Loaded(L, r)
                             /\ executions'[r] # None =>
                                    executions'[r] = ReplayedExecution(stored[info[r].run], r)
        BY <2>1 DEF Bootstrap, A!Has
    <2>5. RunsStored' /\ LogsPlaced'
        BY <2>2, <2>3, <2>4 DEF ReplayInv, RunsStored, LogsPlaced, Placed
    <2>6. RunsHeld' /\ ExecutionsTrue'
        BY <2>2, <2>3, <2>4 DEF RunsHeld, ExecutionsTrue, Known, Exists, Loaded
    <2>7. QED BY <2>5, <2>6 DEF ReplayInv
<1>4. QED BY <1>1, <1>2, <1>3 DEF Environment

\* ReplayInv holds in every reachable state.
LEMMA ReplayInvariant == Spec => [](TypeInv /\ ReplayInv)
<1>1. Init => ReplayInv
    <2>1. ASSUME Init PROVE RunsStored /\ RunsHeld /\ ExecutionsTrue /\ LogsPlaced
        BY <2>1 DEF Init, A!Init, A!Has, RunsStored, RunsHeld, ExecutionsTrue, LogsPlaced, Placed
    <2>2. QED BY <2>1 DEF ReplayInv
<1>2. TypeInv /\ ApprovalInv /\ ReplayInv /\ [Next]_vars => ReplayInv'
    <2>1. TypeInv /\ ReplayInv /\ UNCHANGED vars => ReplayInv'
        BY QuietKeepsReplay DEF vars, memory, approvals, broker, A!Has
    <2>2. QED
        BY <2>1, AnalyseKeepsReplay, OperateKeepsReplay, TradeKeepsReplay, EnvironmentKeepsReplay
        DEF Next
<1>3. QED BY <1>1, <1>2, TypeInvariant, ApprovalInvariant, PTL DEF Spec

-----------------------------------------------------------------------------
\* What the process reports as the execution of a recommendation is what a restart
\* would rebuild from the store, whatever ran in between.
THEOREM ReportsAreReplayable == Spec => []ExecutionsReplayable
<1>1. TypeInv /\ ReplayInv => ExecutionsReplayable
    BY DEF ReplayInv, ExecutionsTrue, ExecutionsReplayable
<1>2. QED BY <1>1, ReplayInvariant, PTL

\* A row that reports a live order as placed is right: the broker has it.
THEOREM ReportsAreTrue == Spec => []ReportedOrdersExist
<1>1. TypeInv /\ ReplayInv => ReportedOrdersExist
    BY DEF ReplayInv, LogsPlaced, Placed, ReportedOrdersExist
<1>2. QED BY <1>1, ReplayInvariant, PTL

\* An approval a client can act on has its run, so deciding cannot fail half-way.
THEOREM DecisionsFindTheirRun == Spec => []ApprovalHasRun
<1>1. TypeInv /\ ReplayInv => ApprovalHasRun
    BY DEF ReplayInv, RunsHeld, ApprovalHasRun, HasRun
<1>2. QED BY <1>1, ReplayInvariant, PTL

\* What ClearedStaysCleared asks of one step, of one run: of its row, and of the
\* submissions that start.
RowStays(u) ==
    (stored[u] = <<>> /\ u \notin analysing
        /\ \A s \in Submissions : InFlight(s) => info[sub[s].rec].run # u) => stored'[u] = <<>>
NoneStarts(u) ==
    stored[u] = <<>> =>
        \A s \in Submissions : (~InFlight(s) /\ InFlight(s)') => info[sub'[s].rec].run # u

\* A decision finds its run in memory, which has a row, or in the store.
LEMMA DecisionKeepsRows ==
    ASSUME TypeInv, ReplayInv, NEW r \in Recs, NEW type, RecordDecision(r, type), NEW u \in Runs
    PROVE  RowStays(u)
<1>1. stored[info[r].run] # <<>>
    BY DEF RecordDecision, HasRun, ReplayInv, RunsStored
<1>2. \A v \in Runs : v # info[r].run => stored'[v] = stored[v]
    BY DEF RecordDecision, AppendAndStore, TypeInv, TypeOK
<1>3. QED BY <1>1, <1>2 DEF RowStays

\* An outcome is stored by a submission that is in flight for its run.
LEMMA OutcomeKeepsRows ==
    ASSUME TypeInv, NEW s \in Submissions, InFlight(s), NEW outcome, RecordOutcome(s, outcome),
           NEW u \in Runs
    PROVE  RowStays(u)
<1>1. \A v \in Runs : v # info[sub[s].rec].run => stored'[v] = stored[v]
    BY DEF RecordOutcome, AppendAndStore, TypeInv, TypeOK
<1>2. QED BY <1>1 DEF RowStays

\* A submission finds its run like a decision does; no other step starts one.
LEMMA StepStartsNone ==
    ASSUME TypeInv, ReplayInv, Next, NEW u \in Runs
    PROVE  NoneStarts(u)
<1>1. ASSUME \A s \in Submissions : InFlight(s)' => InFlight(s) PROVE NoneStarts(u)
    BY <1>1 DEF NoneStarts
<1>2. ASSUME UNCHANGED sub PROVE NoneStarts(u)
    BY <1>1, <1>2 DEF InFlight
<1>3. sub \in [Submissions -> Sub \cup Settled]
    BY DEF TypeInv, TypeOK
<1>4. ASSUME NEW s \in Submissions, NEW r \in Recs, NEW b \in Brokers, NEW t \in Recs \cup {NoRec},
             Submit(s, r, b, t)
      PROVE  NoneStarts(u)
    <2>1. stored[info[r].run] # <<>>
        BY <1>4 DEF Submit, HasRun, ReplayInv, RunsStored
    <2>2. sub'[s].rec = r /\ \A q \in Submissions \ {s} : sub'[q] = sub[q]
        BY <1>3, <1>4 DEF Submit
    <2>3. QED BY <2>1, <2>2 DEF NoneStarts, InFlight
<1>5. ASSUME NEW s \in Submissions, Proceed(s) PROVE NoneStarts(u)
    <2>1. InFlight(s)
        BY <1>5 DEF Proceed, Refuse, RaiseBeforeBroker, SendPaper, SendLive, RefusedByClient,
                    PaperFills, LiveAccepted, LiveFailed, RaiseAtBroker, InFlight
    <2>2. \A q \in Submissions \ {s} : sub'[q] = sub[q]
        BY <1>3, <1>5 DEF Proceed, Refuse, RaiseBeforeBroker, SendPaper, SendLive, RefusedByClient,
                          PaperFills, LiveAccepted, LiveFailed, RaiseAtBroker, Raise,
                          RecordOutcome, Become
    <2>3. QED BY <1>1, <2>1, <2>2 DEF InFlight
<1>6. Crash => NoneStarts(u)
    <2>1. ASSUME Crash, NEW s \in Submissions, InFlight(s)' PROVE InFlight(s)
        BY <2>1 DEF Crash, InFlight, At
    <2>2. QED BY <1>1, <2>1
<1>7. Analyse \/ Operate => NoneStarts(u)
    BY <1>2 DEF Analyse, StartAnalysis, AnalyseRecommendation, FinishAnalysis, Operate,
                ApproveRecommendation, RejectRecommendation, RecordDecision, ExpireApproval, ClearHistory
<1>8. Environment => NoneStarts(u)
    BY <1>2, <1>6 DEF Environment, BrokerTakes, BrokerDrops, BrokerUnchanged, Tick
<1>9. Trade => NoneStarts(u)
    BY <1>4, <1>5 DEF Trade
<1>10. QED BY <1>7, <1>8, <1>9 DEF Next

\* No step but a clear, or what was under way, touches a deleted row.
LEMMA StepKeepsRows ==
    ASSUME TypeInv, ReplayInv, Next, NEW u \in Runs
    PROVE  RowStays(u)
<1>1. ASSUME UNCHANGED stored PROVE RowStays(u)
    BY <1>1 DEF RowStays
<1>2. CASE Analyse
    <2>1. ASSUME NEW v \in Runs, FinishAnalysis(v) PROVE RowStays(u)
        BY <2>1 DEF FinishAnalysis, AppendAndStore, RowStays, TypeInv, TypeOK
    <2>2. QED BY <1>1, <1>2, <2>1 DEF Analyse, StartAnalysis, AnalyseRecommendation
<1>3. CASE Operate
    <2>1. ASSUME NEW r \in Recs, NEW t \in Recs,
                 ApproveRecommendation(r, t) \/ RejectRecommendation(r, t)
          PROVE  RowStays(u)
        BY <2>1, DecisionKeepsRows DEF ApproveRecommendation, RejectRecommendation
    <2>2. ClearHistory => RowStays(u)
        BY DEF ClearHistory, RowStays
    <2>3. QED BY <1>1, <1>3, <2>1, <2>2 DEF Operate, ExpireApproval
<1>4. CASE Trade
    <2>1. PICK s \in Submissions :
              \/ \E r \in Recs, b \in Brokers, t \in Recs \cup {NoRec} : Submit(s, r, b, t)
              \/ Proceed(s)
        BY <1>4 DEF Trade
    <2>2. ASSUME InFlight(s), NEW outcome, RecordOutcome(s, outcome) PROVE RowStays(u)
        BY <2>2, OutcomeKeepsRows
    <2>3. ASSUME NEW r \in Recs, NEW b \in Brokers, NEW t \in Recs \cup {NoRec}, Submit(s, r, b, t)
          PROVE  RowStays(u)
        BY <1>1, <2>3 DEF Submit
    <2>4. CASE Refuse(s) \/ RefusedByClient(s) \/ PaperFills(s) \/ LiveAccepted(s) \/ LiveFailed(s)
        BY <2>2, <2>4 DEF Refuse, RefusedByClient, PaperFills, LiveAccepted, LiveFailed, InFlight
    <2>5. CASE RaiseBeforeBroker(s) \/ RaiseAtBroker(s) \/ SendPaper(s) \/ SendLive(s)
        BY <1>1, <2>5 DEF RaiseBeforeBroker, RaiseAtBroker, Raise, SendPaper, SendLive
    <2>6. QED BY <2>1, <2>3, <2>4, <2>5 DEF Proceed
<1>5. CASE Environment
    BY <1>1, <1>5 DEF Environment, BrokerTakes, BrokerDrops, BrokerUnchanged, Tick, Crash
<1>6. QED BY <1>2, <1>3, <1>4, <1>5 DEF Next

\* The row of a cleared run comes back only through a submission or an analysis of
\* that run that was under way, and no submission of it starts.
THEOREM ClearedRunsStayCleared == Spec => ClearedStaysCleared
<1> DEFINE Kept == \A u \in Runs : stored[u] = <<>> /\ u \notin analysing =>
                       /\ (\A s \in Submissions : InFlight(s) => info[sub[s].rec].run # u)
                              => stored'[u] = <<>>
                       /\ \A s \in Submissions :
                              (~InFlight(s) /\ InFlight(s)') => info[sub'[s].rec].run # u
<1>1. TypeInv /\ ReplayInv /\ [Next]_vars => [Kept]_vars
    <2>1. ASSUME TypeInv, ReplayInv, Next PROVE \A u \in Runs : RowStays(u) /\ NoneStarts(u)
        BY <2>1, StepKeepsRows, StepStartsNone
    <2>2. QED BY <2>1 DEF RowStays, NoneStarts
<1>2. QED BY <1>1, ReplayInvariant, PTL DEF Spec, ClearedStaysCleared
=============================================================================
