----------------------- MODULE OperatorRuntimeProofs -----------------------
(***************************************************************************)
(* For every set of recommendations, runs and submissions, every Ttl and   *)
(* every bound: what the operator runtime keeps in memory and in the store *)
(* is well formed.                                                         *)
(***************************************************************************)
EXTENDS OperatorRuntime, SequenceTheorems, FiniteSetTheorems, TLAPS

\* A nonempty set of indexes of a log has a greatest one.  The sets of indexes
\* above a given one are finite, so one of them is minimal for strict inclusion.
LEMMA GreatestIndex ==
    ASSUME NEW n \in Nat, NEW I \in SUBSET (1..n), I # {}
    PROVE  \E i \in I : \A j \in I : j <= i
<1> DEFINE Above(i) == {j \in I : i < j}
           T == {Above(i) : i \in I}
<1>1. IsFiniteSet(I)
    <2>1. IsFiniteSet(1..n)
        BY FS_Interval, 1 \in Int, n \in Int
    <2>2. QED BY <2>1, FS_Subset
<1>2. IsWellFoundedOn(StrictSubsetOrdering(I), SUBSET I)
    BY <1>1, FS_StrictSubsetOrderingWellFounded, FS_FiniteSubsetsOfFinite
<1>3. T \subseteq SUBSET I /\ T # {}
    OBVIOUS
<1>4. PICK x \in T : \A y \in T : ~ (<<y, x>> \in StrictSubsetOrdering(I))
    BY <1>2, <1>3, WFMin
<1>5. PICK i \in I : x = Above(i)
    BY <1>4
<1>6. ASSUME NEW j \in I, i < j PROVE FALSE
    <2>1. Above(j) \in T /\ Above(j) \subseteq Above(i) /\ Above(j) # Above(i)
        <3>1. I \subseteq Nat
            OBVIOUS
        <3>2. \A k \in I : j < k => i < k
            BY <1>6, <3>1
        <3>3. j \in Above(i) /\ j \notin Above(j)
            BY <1>6, <3>1
        <3>4. QED BY <3>2, <3>3
    <2>2. <<Above(j), Above(i)>> \in StrictSubsetOrdering(I)
        BY <2>1 DEF StrictSubsetOrdering
    <2>3. ~ (<<Above(j), x>> \in StrictSubsetOrdering(I))
        BY <1>4, <2>1
    <2>4. QED BY <1>5, <2>2, <2>3
<1>7. QED BY <1>6

-----------------------------------------------------------------------------
(***************************************************************************)
(* What is read back from a log of events is well typed                    *)
(***************************************************************************)
\* The events the handlers append are events.
LEMMA EventShape ==
    /\ Ev("MARKET_CONTEXT_BUILT", NoRec, None) \in Event
    /\ \A d \in Decisions : Ev("RISK_EVALUATED", NoRec, d) \in Event
    /\ \A r \in Recs : Ev("RECOMMENDATION_CREATED", r, None) \in Event
    /\ \A r \in Recs, t \in ApprovalEvents, a \in A!Request : ApprovalEv(t, r, a) \in Event
    /\ \A r \in Recs, b \in Brokers : Ev("EXECUTION_REQUESTED", r, b) \in Event
    /\ \A r \in Recs, t \in ExecutionEvents, o \in Outcomes : Ev(t, r, o) \in Event
    BY DEF Event, Events, Ev, ApprovalEv

\* What an event of a log carries, by its type.
LEMMA EventPayload ==
    ASSUME NEW e \in Event
    PROVE  /\ e.type \in ApprovalEvents => e.approval \in A!Request /\ e.rec \in Recs
           /\ e.type \in ExecutionEvents => e.val \in Outcomes
           /\ e.type = "RISK_EVALUATED" => e.val \in Decisions
    BY DEF Event, Events, ApprovalEvents, ExecutionEvents

\* The latest of the indexes a replay selects is one of them.
LEMMA LatestIn ==
    ASSUME NEW log \in Seq(Event), NEW I \in SUBSET (DOMAIN log), I # {}
    PROVE  Latest(I) \in I /\ Latest(I) \in DOMAIN log /\ log[Latest(I)] \in Event
<1>1. Len(log) \in Nat /\ DOMAIN log = 1..Len(log)
    OBVIOUS
<1>2. \E i \in I : \A j \in I : j <= i
    BY <1>1, GreatestIndex
<1>3. Latest(I) \in I
    BY <1>2 DEF Latest
<1>4. QED BY <1>1, <1>3

\* What a replay of a log yields has the type of the table it goes to.
LEMMA ReplayTypes ==
    ASSUME NEW log \in Seq(Event), NEW r \in Recs
    PROVE  /\ ReplayedApproval(log, r) \in A!Request \cup {A!NoRequest}
           /\ ReplayedExecution(log, r) \in Outcomes \cup {None}
           /\ ReplayedRisk(log, r) \in Decisions \cup {None}
<1>1. ReplayedApproval(log, r) \in A!Request \cup {A!NoRequest}
    <2> DEFINE I == Matching(log, ApprovalEvents, r)
    <2>1. I \in SUBSET (DOMAIN log) /\ \A i \in I : log[i].type \in ApprovalEvents
        BY DEF Matching
    <2>2. CASE I # {}
        BY <2>1, <2>2, LatestIn, EventPayload DEF ReplayedApproval
    <2>3. QED BY <2>2 DEF ReplayedApproval
<1>2. ReplayedExecution(log, r) \in Outcomes \cup {None}
    <2> DEFINE I == Matching(log, ExecutionEvents, r)
    <2>1. I \in SUBSET (DOMAIN log) /\ \A i \in I : log[i].type \in ExecutionEvents
        BY DEF Matching
    <2>2. CASE I # {}
        BY <2>1, <2>2, LatestIn, EventPayload DEF ReplayedExecution
    <2>3. QED BY <2>2 DEF ReplayedExecution
<1>3. ReplayedRisk(log, r) \in Decisions \cup {None}
    <2> DEFINE I == {i \in DOMAIN log : log[i].type = "RISK_EVALUATED"}
    <2>1. I \in SUBSET (DOMAIN log) /\ \A i \in I : log[i].type = "RISK_EVALUATED"
        OBVIOUS
    <2>2. CASE I # {}
        BY <2>1, <2>2, LatestIn, EventPayload DEF ReplayedRisk
    <2>3. QED BY <2>2 DEF ReplayedRisk
<1>4. QED BY <1>1, <1>2, <1>3

-----------------------------------------------------------------------------
(***************************************************************************)
(* Type correctness.  TypeOK is not inductive: what a submission holds     *)
(* across its awaits, and what a decision appends to, must belong to a     *)
(* recommendation that exists.                                             *)
(***************************************************************************)
KnownExist == \A r \in recommendations : Exists(r)
InFlightExist == \A s \in Submissions : InFlight(s) => Exists(sub[s].rec)

TypeInv == TypeOK /\ KnownExist /\ InFlightExist

\* A recommendation that exists has a run, and a run's object and row are logs.
LEMMA RunOf ==
    ASSUME TypeOK, NEW r \in Recs, Exists(r)
    PROVE  /\ info[r] \in Info
           /\ info[r].run \in Runs /\ info[r].hold \in BOOLEAN /\ info[r].decision \in Decisions
           /\ runLog[info[r].run] \in Seq(Event)
           /\ stored[info[r].run] \in Seq(Event)
           /\ RunObject(info[r].run) \in Seq(Event)
    BY DEF TypeOK, Exists, Info, RunObject

\* What an in-flight submission holds.
LEMMA HeldBySubmission ==
    ASSUME TypeInv, NEW s \in Submissions, InFlight(s)
    PROVE  sub[s] \in Sub /\ sub[s].rec \in Recs /\ Exists(sub[s].rec)
<1>1. sub[s] \in Sub
    BY DEF TypeInv, TypeOK, InFlight, Settled, At
<1>2. QED BY <1>1 DEF TypeInv, InFlightExist, Sub

\* The approval table stays well formed when one request changes its status.
LEMMA MovedType ==
    ASSUME A!TypeOK, NEW r \in Recs, A!Has(r), NEW st \in A!Statuses
    PROVE  /\ A!Moved(r, st) \in A!Request
           /\ [requests EXCEPT ![r] = A!Moved(r, st)] \in [Recs -> A!Request \cup {A!NoRequest}]
<1>1. A!Moved(r, st) \in A!Request
    BY DEF A!TypeOK, A!Has, A!Moved, A!Request
<1>2. QED BY <1>1 DEF A!TypeOK

\* The outcome of a submission is appended to its run and stored.
LEMMA OutcomeTypes ==
    ASSUME TypeInv, NEW s \in Submissions, InFlight(s), NEW outcome \in Outcomes,
           RecordOutcome(s, outcome)
    PROVE  /\ runLog' \in [Runs -> Seq(Event)]
           /\ stored' \in [Runs -> Seq(Event)]
           /\ runs' \in SUBSET Runs
           /\ executions' \in [Recs -> Outcomes \cup {None}]
           /\ sub' \in [Submissions -> Sub \cup Settled]
           /\ InFlightExist'
<1> DEFINE r == sub[s].rec
           u == info[r].run
           type == IF outcome \in Failures THEN "EXECUTION_FAILED" ELSE "EXECUTION_COMPLETED"
           log == Append(runLog[u], Ev(type, r, outcome))
<1>1. r \in Recs /\ Exists(r) /\ u \in Runs /\ runLog[u] \in Seq(Event)
    BY HeldBySubmission, RunOf DEF TypeInv
<1>2. Ev(type, r, outcome) \in Event
    BY <1>1, EventShape DEF ExecutionEvents
<1>3. log \in Seq(Event)
    BY <1>1, <1>2
<1> HIDE DEF log
<1>4. AppendAndStore(u, log) /\ Become(s, "done") /\ UNCHANGED info
      /\ executions' = [executions EXCEPT ![r] = outcome]
    BY DEF RecordOutcome, log
<1>5. At("done") \in Settled
    BY DEF Settled
<1>6. InFlightExist'
    BY <1>4 DEF Become, TypeInv, TypeOK, InFlightExist, InFlight, Exists, At
<1>7. QED
    BY <1>1, <1>3, <1>4, <1>5, <1>6 DEF AppendAndStore, Become, TypeInv, TypeOK

\* Every step keeps TypeInv; one lemma per actor.
LEMMA AnalyseKeepsTypes == TypeInv /\ Analyse => TypeInv'
<1> SUFFICES ASSUME TypeInv, Analyse PROVE TypeInv'
    OBVIOUS
<1>1. ASSUME NEW u \in Runs, StartAnalysis(u) PROVE TypeInv'
    <2>1. << Ev("MARKET_CONTEXT_BUILT", NoRec, None) >> \in Seq(Event)
        BY EventShape
    <2>2. runLog' \in [Runs -> Seq(Event)]
        BY <1>1, <2>1 DEF StartAnalysis, TypeInv, TypeOK
    <2>3. simulated' \in SUBSET Runs
        BY <1>1 DEF StartAnalysis, TypeInv, TypeOK
    <2>4. QED
        BY <1>1, <2>2, <2>3 DEF StartAnalysis, TypeInv, TypeOK, A!TypeOK, KnownExist, InFlightExist,
            InFlight, Exists, approvals, memory, broker, history
<1>2. ASSUME NEW u \in Runs, NEW r \in Recs, AnalyseRecommendation(u, r) PROVE TypeInv'
    <2> DEFINE pending == A!NewRequest
               approved == [pending EXCEPT !.status = "APPROVED"]
               events(p) == << Ev("RECOMMENDATION_CREATED", r, None),
                               Ev("RISK_EVALUATED", NoRec, p.decision),
                               ApprovalEv("APPROVAL_REQUESTED", r, pending) >>
               grant == << ApprovalEv("APPROVAL_GRANTED", r, approved) >>
    <2>1. PICK p \in Profiles :
              /\ info' = [info EXCEPT ![r] = [run |-> u, hold |-> p.hold, decision |-> p.decision]]
              /\ issued' = issued \cup {r}
              /\ \/ /\ requests' = [requests EXCEPT ![r] = approved]
                    /\ runLog' = [runLog EXCEPT ![u] = @ \o events(p) \o grant]
                    /\ granted' = granted \cup {r}
                 \/ /\ requests' = [requests EXCEPT ![r] = pending]
                    /\ runLog' = [runLog EXCEPT ![u] = @ \o events(p)]
                    /\ UNCHANGED granted
              /\ UNCHANGED <<now, analysing, simulated, memory, stored, sub, broker, boot, rejected>>
        BY <1>2 DEF AnalyseRecommendation
    <2>2. p.hold \in BOOLEAN /\ p.decision \in Decisions
        BY RuntimeAssumption DEF Decisions
    <2>3. pending \in A!Request /\ approved \in A!Request
        <3>1. now + Ttl \in Nat
            BY RuntimeAssumption DEF TypeInv, TypeOK, A!TypeOK
        <3>2. pending \in A!Request
            BY <3>1 DEF A!NewRequest, A!Request, A!Statuses
        <3>3. QED BY <3>2 DEF A!Request, A!Statuses
    <2>4. events(p) \in Seq(Event) /\ grant \in Seq(Event)
        <3>1. /\ Ev("RECOMMENDATION_CREATED", r, None) \in Event
              /\ Ev("RISK_EVALUATED", NoRec, p.decision) \in Event
              /\ ApprovalEv("APPROVAL_REQUESTED", r, pending) \in Event
              /\ ApprovalEv("APPROVAL_GRANTED", r, approved) \in Event
            BY <2>2, <2>3, EventShape DEF ApprovalEvents
        <3>2. QED BY <3>1
    <2> HIDE DEF pending, approved, events, grant
    <2>5. A!TypeOK'
        <3>1. requests \in [Recs -> A!Request \cup {A!NoRequest}] /\ issued \in SUBSET Recs /\ now \in Nat
            BY DEF TypeInv, TypeOK, A!TypeOK
        <3>2. requests' \in [Recs -> A!Request \cup {A!NoRequest}]
            BY <2>1, <2>3, <3>1
        <3>3. issued' \in SUBSET Recs /\ now' \in Nat
            BY <2>1, <3>1
        <3>4. QED BY <3>2, <3>3 DEF A!TypeOK
    <2>6. info' \in [Recs -> Info \cup {NoInfo}] /\ \A q \in Recs : Exists(q) => Exists(q)'
        <3>1. [run |-> u, hold |-> p.hold, decision |-> p.decision] \in Info
            BY <2>2 DEF Info
        <3>2. [run |-> u, hold |-> p.hold, decision |-> p.decision] # NoInfo
              \/ [run |-> u, hold |-> p.hold, decision |-> p.decision] = NoInfo
            OBVIOUS
        <3>3. p.decision # None
            BY <2>2 DEF Decisions, None
        <3>4. [run |-> u, hold |-> p.hold, decision |-> p.decision] # NoInfo
            BY <3>3 DEF NoInfo
        <3>5. QED BY <2>1, <3>1, <3>4 DEF TypeInv, TypeOK, Exists
    <2>7. runLog' \in [Runs -> Seq(Event)]
        <3>1. runLog[u] \o events(p) \in Seq(Event) /\ runLog[u] \o events(p) \o grant \in Seq(Event)
            BY <2>4 DEF TypeInv, TypeOK
        <3>2. QED BY <2>1, <3>1 DEF TypeInv, TypeOK
    <2>8. TypeOK'
        BY <2>1, <2>5, <2>6, <2>7 DEF TypeInv, TypeOK, memory, broker
    <2>9. UNCHANGED <<recommendations, sub>>
        BY <2>1 DEF memory
    <2>10. KnownExist'
        BY <2>6, <2>9 DEF TypeInv, TypeOK, KnownExist
    <2>11. InFlightExist'
        <3> SUFFICES ASSUME NEW s \in Submissions, InFlight(s) PROVE Exists(sub[s].rec)'
            BY <2>9 DEF InFlightExist, InFlight
        <3>1. QED BY <2>6, <2>9, HeldBySubmission
    <2>12. QED BY <2>8, <2>10, <2>11 DEF TypeInv
<1>3. ASSUME NEW u \in Runs, FinishAnalysis(u) PROVE TypeInv'
    <2>1. RecsOf(u) \in SUBSET Recs /\ \A r \in RecsOf(u) : Exists(r) /\ info[r].decision \in Decisions
        BY RunOf DEF RecsOf, TypeInv
    <2>2. risks' \in [Recs -> Decisions \cup {None}]
        BY <1>3, <2>1 DEF FinishAnalysis, TypeInv, TypeOK
    <2>3. runLog' \in [Runs -> Seq(Event)] /\ stored' \in [Runs -> Seq(Event)] /\ runs' \in SUBSET Runs
        BY <1>3 DEF FinishAnalysis, AppendAndStore, TypeInv, TypeOK
    <2>4. QED
        BY <1>3, <2>1, <2>2, <2>3 DEF FinishAnalysis, TypeInv, TypeOK, A!TypeOK, KnownExist, InFlightExist,
            InFlight, Exists, approvals, broker, history
<1>4. QED BY <1>1, <1>2, <1>3 DEF Analyse

\* RecordDecision stores a well-formed log.
LEMMA DecisionTypes ==
    ASSUME TypeInv, NEW r \in Recs, NEW type \in ApprovalEvents, Exists(r),
           A!TypeOK', requests'[r] \in A!Request, RecordDecision(r, type),
           granted' \in SUBSET Recs, rejected' \in SUBSET Recs
    PROVE  TypeInv'
<1> DEFINE u == info[r].run
           log == Append(RunObject(u), ApprovalEv(type, r, requests'[r]))
<1>1. u \in Runs /\ RunObject(u) \in Seq(Event)
    BY RunOf DEF TypeInv
<1>2. log \in Seq(Event)
    BY <1>1, EventShape
<1> HIDE DEF log
<1>3. AppendAndStore(u, log)
    BY DEF RecordDecision, log
<1>4. runLog' \in [Runs -> Seq(Event)] /\ stored' \in [Runs -> Seq(Event)] /\ runs' \in SUBSET Runs
    BY <1>1, <1>2, <1>3 DEF AppendAndStore, TypeInv, TypeOK
<1>5. QED
    BY <1>4 DEF RecordDecision, TypeInv, TypeOK, KnownExist, InFlightExist, InFlight, Exists, broker

\* Operators' calls: approve, reject, expire, clear.
LEMMA OperateKeepsTypes == TypeInv /\ Operate => TypeInv'
<1> SUFFICES ASSUME TypeInv, Operate PROVE TypeInv'
    OBVIOUS
<1>1. ASSUME NEW r \in Recs, A!Has(r), NEW st \in A!Statuses,
             requests' = [requests EXCEPT ![r] = A!Moved(r, st)], UNCHANGED <<issued, now>>
      PROVE  A!TypeOK' /\ requests'[r] \in A!Request
    BY <1>1, MovedType DEF TypeInv, TypeOK, A!TypeOK
<1>2. ASSUME NEW r \in Recs, NEW t \in Recs, ApproveRecommendation(r, t) PROVE TypeInv'
    <2>1. A!TypeOK' /\ requests'[r] \in A!Request
        BY <1>1, <1>2 DEF ApproveRecommendation, A!Approve, A!MayDecide, A!PendingFor, A!Statuses
    <2>2. granted' \in SUBSET Recs /\ rejected' \in SUBSET Recs
        BY <1>2 DEF ApproveRecommendation, TypeInv, TypeOK
    <2>3. QED
        BY <1>2, <2>1, <2>2, DecisionTypes DEF ApproveRecommendation, Known, ApprovalEvents
<1>3. ASSUME NEW r \in Recs, NEW t \in Recs, RejectRecommendation(r, t) PROVE TypeInv'
    <2>1. A!TypeOK' /\ requests'[r] \in A!Request
        BY <1>1, <1>3 DEF RejectRecommendation, A!Reject, A!MayDecide, A!PendingFor, A!Statuses
    <2>2. granted' \in SUBSET Recs /\ rejected' \in SUBSET Recs
        BY <1>3 DEF RejectRecommendation, TypeInv, TypeOK
    <2>3. QED
        BY <1>3, <2>1, <2>2, DecisionTypes DEF RejectRecommendation, Known, ApprovalEvents
<1>4. ASSUME NEW r \in Recs, ExpireApproval(r) PROVE TypeInv'
    <2>1. A!TypeOK'
        BY <1>1, <1>4 DEF ExpireApproval, A!Read, A!ReadExpires, A!DecideLate, A!DecidesTooLate,
                          A!PendingFor, A!Statuses
    <2>2. QED
        BY <1>4, <2>1 DEF ExpireApproval, TypeInv, TypeOK, KnownExist, InFlightExist, InFlight, Exists,
                          memory, broker, history
<1>5. CASE ClearHistory
    <2>1. A!TypeOK'
        BY <1>5 DEF ClearHistory, A!Clear, TypeInv, TypeOK, A!TypeOK
    <2>2. stored' \in [Runs -> Seq(Event)]
        BY <1>5 DEF ClearHistory
    <2>3. QED
        BY <1>5, <2>1, <2>2 DEF ClearHistory, TypeInv, TypeOK, KnownExist, InFlightExist, InFlight, Exists,
                                broker, history
<1>6. QED BY <1>2, <1>3, <1>4, <1>5 DEF Operate

\* submit_order's first step holds a published recommendation.
LEMMA SubmitKeepsTypes ==
    ASSUME TypeInv, NEW s \in Submissions, NEW r \in Recs, NEW b \in Brokers,
           NEW t \in Recs \cup {NoRec}, Submit(s, r, b, t)
    PROVE  TypeInv'
<1> DEFINE u == info[r].run
           held == [pc |-> "preview", rec |-> r, broker |-> b, token |-> t, decision |-> risks[r]]
           log == Append(RunObject(u), Ev("EXECUTION_REQUESTED", r, b))
<1>1. Exists(r)
    BY DEF Submit, TypeInv, KnownExist
<1>2. u \in Runs /\ RunObject(u) \in Seq(Event)
    BY <1>1, RunOf DEF TypeInv
<1>3. log \in Seq(Event)
    BY <1>2, EventShape
<1>4. risks[r] \in Decisions
    BY DEF Submit, TypeInv, TypeOK
<1>5. held \in Sub
    BY <1>4 DEF Sub
<1>6. /\ sub' = [sub EXCEPT ![s] = held]
      /\ runLog' = [runLog EXCEPT ![u] = log]
      /\ runs' = runs \cup {u}
      /\ UNCHANGED <<approvals, info, analysing, simulated, recommendations, risks,
                      executions, stored, broker, boot, history>>
    BY DEF Submit
<1> HIDE DEF log
<1>7. TypeOK'
    BY <1>2, <1>3, <1>5, <1>6 DEF TypeInv, TypeOK, A!TypeOK, approvals, broker, history
<1>8. InFlightExist'
    BY <1>1, <1>6 DEF TypeInv, TypeOK, InFlightExist, InFlight, Exists
<1>9. QED
    BY <1>6, <1>7, <1>8 DEF TypeInv, KnownExist, Exists

\* Steps of a submission that end with an outcome.
LEMMA OutcomeKeepsTypes ==
    ASSUME TypeInv, NEW s \in Submissions, InFlight(s), NEW outcome \in Outcomes,
           RecordOutcome(s, outcome), A!TypeOK', fills' \in SUBSET Submissions,
           UNCHANGED <<wire, ledger>>
    PROVE  TypeInv'
<1>1. TypeOK'
    BY OutcomeTypes DEF RecordOutcome, TypeInv, TypeOK, history
<1>2. KnownExist'
    BY DEF RecordOutcome, TypeInv, KnownExist, Exists
<1>3. QED BY <1>1, <1>2, OutcomeTypes DEF TypeInv

\* Consuming a token leaves a well-formed table.
LEMMA ConsumeTypes ==
    ASSUME TypeInv, NEW r \in Recs, NEW t, A!Consume(r, t)
    PROVE  A!TypeOK'
    BY MovedType DEF TypeInv, TypeOK, A!TypeOK, A!Consume, A!MayConsume, A!Statuses

\* Every later step of a submission.
LEMMA ProceedKeepsTypes ==
    ASSUME TypeInv, NEW s \in Submissions, Proceed(s)
    PROVE  TypeInv'
<1>1. InFlight(s)
    BY DEF Proceed, InFlight, Refuse, RaiseBeforeBroker, SendPaper, SendLive, RefusedByClient,
           PaperFills, LiveAccepted, LiveFailed, RaiseAtBroker
<1>2. sub[s] \in Sub /\ sub[s].rec \in Recs /\ Exists(sub[s].rec)
    BY <1>1, HeldBySubmission
<1>3. A!TypeOK /\ fills \in SUBSET Submissions
    BY DEF TypeInv, TypeOK
<1>4. ASSUME UNCHANGED approvals PROVE A!TypeOK'
    BY <1>3, <1>4 DEF approvals, A!TypeOK
<1>5. CASE Refuse(s)
    BY <1>1, <1>3, <1>4, <1>5, OutcomeKeepsTypes DEF Refuse, broker, Outcomes
<1>6. CASE RefusedByClient(s)
    BY <1>1, <1>2, <1>3, <1>6, ConsumeTypes, OutcomeKeepsTypes DEF RefusedByClient, broker, Outcomes
<1>7. CASE PaperFills(s)
    BY <1>1, <1>3, <1>4, <1>7, OutcomeKeepsTypes DEF PaperFills, Outcomes
<1>8. CASE LiveAccepted(s)
    BY <1>1, <1>3, <1>4, <1>8, OutcomeKeepsTypes DEF LiveAccepted, broker, Outcomes
<1>9. CASE LiveFailed(s)
    BY <1>1, <1>3, <1>4, <1>9, OutcomeKeepsTypes DEF LiveFailed, broker, Outcomes
<1>10. ASSUME Raise(s) PROVE TypeInv'
    <2>1. At("raised") \in Settled
        BY DEF Settled
    <2>2. QED
        BY <1>10, <2>1 DEF Raise, Become, At, TypeInv, TypeOK, A!TypeOK, KnownExist, InFlightExist, InFlight,
            Exists, approvals, memory, broker, history
<1>11. ASSUME sub' = [sub EXCEPT ![s].pc = "broker"]
       PROVE  sub' \in [Submissions -> Sub \cup Settled]
              /\ \A q \in Submissions : sub'[q].rec = sub[q].rec /\ (InFlight(q)' => InFlight(q))
    <2>1. [sub[s] EXCEPT !.pc = "broker"] \in Sub
        BY <1>2 DEF Sub
    <2>2. QED BY <1>1, <1>2, <1>11, <2>1 DEF TypeInv, TypeOK, InFlight, Sub
<1>12. CASE SendPaper(s)
    <2>1. UNCHANGED <<info, recommendations>> /\ sub' = [sub EXCEPT ![s].pc = "broker"]
        BY <1>12 DEF SendPaper, memory
    <2>2. TypeOK'
        BY <1>11, <1>12, <2>1 DEF SendPaper, TypeInv, TypeOK, A!TypeOK, approvals, memory, broker, history
    <2>3. QED BY <1>11, <2>1, <2>2 DEF TypeInv, KnownExist, InFlightExist, Exists
<1>13. CASE SendLive(s)
    <2>1. UNCHANGED <<info, recommendations>> /\ sub' = [sub EXCEPT ![s].pc = "broker"]
        BY <1>13 DEF SendLive, memory
    <2>2. OrderOf(s) \in Order
        BY <1>2 DEF OrderOf, Order, TypeInv, TypeOK
    <2>3. A!TypeOK'
        BY <1>2, <1>13, ConsumeTypes DEF SendLive
    <2>4. wire' \in SUBSET Order
        BY <1>13, <2>2 DEF SendLive, TypeInv, TypeOK
    <2>5. TypeOK'
        BY <1>11, <1>13, <2>1, <2>3, <2>4 DEF SendLive, TypeInv, TypeOK, memory, history
    <2>6. QED BY <1>11, <2>1, <2>5 DEF TypeInv, KnownExist, InFlightExist, Exists
<1>14. QED
    BY <1>5, <1>6, <1>7, <1>8, <1>9, <1>10, <1>12, <1>13
    DEF Proceed, RaiseBeforeBroker, RaiseAtBroker

\* What a start rebuilds from well-formed rows is well formed.
LEMMA BootstrapTypes ==
    ASSUME TypeInv, NEW L \in SUBSET Runs, Bootstrap(L)
    PROVE  /\ requests' \in [Recs -> A!Request \cup {A!NoRequest}]
           /\ runLog' \in [Runs -> Seq(Event)]
           /\ runs' \in SUBSET Runs
           /\ recommendations' \in SUBSET Recs
           /\ \A r \in recommendations' : Exists(r)
           /\ risks' \in [Recs -> Decisions \cup {None}]
           /\ executions' \in [Recs -> Outcomes \cup {None}]
<1>1. \A r \in Recs : Loaded(L, r) => stored[info[r].run] \in Seq(Event)
    BY RunOf DEF Loaded, TypeInv
<1>2. /\ requests' \in [Recs -> A!Request \cup {A!NoRequest}]
      /\ risks' \in [Recs -> Decisions \cup {None}]
      /\ executions' \in [Recs -> Outcomes \cup {None}]
    BY <1>1, ReplayTypes DEF Bootstrap
<1>3. runLog' \in [Runs -> Seq(Event)] /\ runs' \in SUBSET Runs
    BY DEF Bootstrap, TypeInv, TypeOK
<1>4. recommendations' \in SUBSET Recs /\ \A r \in recommendations' : Exists(r)
    BY DEF Bootstrap, Loaded
<1>5. QED BY <1>2, <1>3, <1>4

\* The broker, the clock, and a restart: a start rebuilds well-formed tables.
LEMMA EnvironmentKeepsTypes == TypeInv /\ Environment => TypeInv'
<1> SUFFICES ASSUME TypeInv, Environment PROVE TypeInv'
    OBVIOUS
<1>1. ASSUME NEW o \in wire, BrokerTakes(o) \/ BrokerDrops(o) PROVE TypeInv'
    BY <1>1 DEF BrokerTakes, BrokerDrops, BrokerUnchanged, TypeInv, TypeOK, A!TypeOK, KnownExist,
        InFlightExist, InFlight, Exists, approvals, memory, history
<1>2. CASE Tick
    BY <1>2 DEF Tick, A!Tick, TypeInv, TypeOK, A!TypeOK, KnownExist, InFlightExist, InFlight, Exists,
        memory, broker, history
<1>3. CASE Crash
    <2>1. PICK L \in Loadable : Bootstrap(L)
        BY <1>3 DEF Crash
    <2>2. L \in SUBSET Runs
        BY DEF Loadable, StoredRuns
    <2>3. sub' \in [Submissions -> Sub \cup Settled] /\ \A s \in Submissions : ~ InFlight(s)'
        <3>1. At("lost") \in Settled /\ At("lost").pc \notin {"preview", "broker"}
            BY DEF Settled, At
        <3>2. QED BY <1>3, <3>1 DEF Crash, TypeInv, TypeOK, InFlight
    <2>4. TypeOK'
        BY <1>3, <2>1, <2>2, <2>3, BootstrapTypes DEF Crash, TypeInv, TypeOK, A!TypeOK, history
    <2>5. KnownExist'
        BY <1>3, <2>1, <2>2, BootstrapTypes DEF Crash, KnownExist, Exists
    <2>6. QED BY <2>3, <2>4, <2>5 DEF TypeInv, InFlightExist
<1>4. QED BY <1>1, <1>2, <1>3 DEF Environment

\* The inductive step of type correctness.
LEMMA NextKeepsTypes == TypeInv /\ [Next]_vars => TypeInv'
<1> SUFFICES ASSUME TypeInv, [Next]_vars PROVE TypeInv'
    OBVIOUS
<1>1. CASE Trade
    BY <1>1, SubmitKeepsTypes, ProceedKeepsTypes DEF Trade
<1>2. CASE UNCHANGED vars
    BY <1>2 DEF vars, TypeInv, TypeOK, A!TypeOK, KnownExist, InFlightExist, InFlight, Exists,
        approvals, memory, broker, history
<1>3. QED
    BY <1>1, <1>2, AnalyseKeepsTypes, OperateKeepsTypes, EnvironmentKeepsTypes DEF Next

\* TypeInv holds in every reachable state.
LEMMA TypeInvariant == Spec => []TypeInv
<1>1. Init => TypeInv
    <2> SUFFICES ASSUME Init PROVE TypeInv
        OBVIOUS
    <2>1. TypeOK
        BY DEF Init, TypeOK, A!Init, A!TypeOK, Settled
    <2>2. QED BY <2>1 DEF Init, TypeInv, KnownExist, InFlightExist, InFlight, At
<1>2. QED BY <1>1, NextKeepsTypes, PTL DEF Spec

\* Every reachable state of the runtime is well typed: the memory of the process,
\* the rows of the store, what submissions hold, and the orders at the broker.
THEOREM RuntimeTypeCorrect == Spec => []TypeOK
<1>1. TypeInv => TypeOK
    BY DEF TypeInv
<1>2. QED BY <1>1, TypeInvariant, PTL
=============================================================================
