------------------------ MODULE OperatorRuntimeRisk ------------------------
(***************************************************************************)
(* The risk gate of OperatorRuntime, for every value of its constants: how *)
(* far "Non-paper brokers require risk approval" holds.  A restart may     *)
(* give a recommendation the decision on another one of its run, so in     *)
(* general some recommendation of the run of a live order passed the       *)
(* policies; the ordered one itself did in the first process, and where a  *)
(* run has one recommendation.                                             *)
(***************************************************************************)
EXTENDS OperatorRuntimeSafety, FiniteSetTheorems

-----------------------------------------------------------------------------
\* The policies took decision d on a recommendation of run u.
Passes(u, d) == \E q \in Recs : Exists(q) /\ info[q].run = u /\ info[q].decision = d

\* What a process may take for the decision on r.
Credible(r, d) ==
    /\ Exists(r) /\ Passes(info[r].run, d)
    /\ boot = 1 => info[r].decision = d

\* The decisions a log has.
Vals(log) == {log[i].val : i \in {j \in DOMAIN log : log[j].type = "RISK_EVALUATED"}}
Logged(u) == Vals(runLog[u]) \cup Vals(stored[u])

LogsCredible == \A u \in Runs : \A d \in Logged(u) : Passes(u, d)
RisksCredible == \A r \in Recs : risks[r] # None => Credible(r, risks[r])
HeldCredible == \A s \in Submissions : InFlight(s) => Credible(sub[s].rec, sub[s].decision)
SentCredible == \A o \in Sent : o.rec \in Recs /\ Credible(o.rec, "APPROVED")

RiskInv ==
    /\ boot # 0
    /\ \A r \in Recs : Exists(r) => r \in issued
    /\ LogsCredible /\ RisksCredible /\ HeldCredible /\ SentCredible

-----------------------------------------------------------------------------
(***************************************************************************)
(* The decisions in a log                                                  *)
(***************************************************************************)
\* One more event adds its decision, if it has one.
LEMMA ValsAppend ==
    ASSUME NEW log \in Seq(Event), NEW e \in Event
    PROVE  Vals(Append(log, e)) =
             Vals(log) \cup (IF e.type = "RISK_EVALUATED" THEN {e.val} ELSE {})
<1>1. /\ Len(log) \in Nat
      /\ DOMAIN log = 1..Len(log) /\ DOMAIN Append(log, e) = 1..(Len(log) + 1)
      /\ \A i \in 1..Len(log) : Append(log, e)[i] = log[i]
      /\ Append(log, e)[Len(log) + 1] = e
    OBVIOUS
<1>2. DOMAIN Append(log, e) = DOMAIN log \cup {Len(log) + 1}
    BY <1>1
<1>3. QED BY <1>1, <1>2 DEF Vals

\* An event of another type adds none.
LEMMA OtherVals ==
    ASSUME NEW log \in Seq(Event), NEW e \in Event, e.type # "RISK_EVALUATED"
    PROVE  Vals(Append(log, e)) = Vals(log)
    BY ValsAppend

\* A log that has only begun has none.
LEMMA ValsNothing ==
    Vals(<<>>) = {} /\ Vals(<< Ev("MARKET_CONTEXT_BUILT", NoRec, None) >>) = {}
    BY DEF Vals, Ev

\* A start replays for r nothing or a decision of the log.
LEMMA ReplayedIsLogged ==
    ASSUME NEW log \in Seq(Event), NEW r \in Recs, ReplayedRisk(log, r) # None
    PROVE  ReplayedRisk(log, r) \in Vals(log)
<1> DEFINE I == {i \in DOMAIN log : log[i].type = "RISK_EVALUATED"}
<1>1. I # {} /\ ReplayedRisk(log, r) = log[Latest(I)].val
    BY DEF ReplayedRisk
<1>2. Latest(I) \in I
    BY <1>1, LatestIn
<1>3. QED BY <1>1, <1>2 DEF Vals

-----------------------------------------------------------------------------
(***************************************************************************)
(* The kinds of step                                                       *)
(***************************************************************************)
\* What exists stays as it is, and a restart is counted.
Grows ==
    /\ \A r \in Recs : Exists(r) => info'[r] = info[r]
    /\ boot' \in {boot, boot + 1}
    /\ \A r \in Recs : Exists(r)' => r \in issued'

\* A decision is logged only from a log of the run, or as it is taken.
LogStep == \A u \in Runs : \A d \in Logged(u)' : d \in Logged(u) \/ Passes(u, d)'

RiskStep ==
    \A r \in Recs : risks'[r] # None =>
        \/ risks'[r] = risks[r]
        \/ \E d : d = risks'[r] /\ Credible(r, d)'

\* A submission holds what it held, or the decision it has just looked up.
HeldStep ==
    \A s \in Submissions : InFlight(s)' =>
        \/ InFlight(s) /\ sub'[s].rec = sub[s].rec /\ sub'[s].decision = sub[s].decision
        \/ sub'[s].rec \in Recs /\ sub'[s].decision = risks[sub'[s].rec] /\ sub'[s].decision # None

SentStep ==
    \A o \in Sent' : \/ o \in Sent
                     \/ \E s \in Submissions : /\ InFlight(s) /\ o.rec = sub[s].rec
                                               /\ sub[s].decision = "APPROVED"

\* What was credible stays so.
LEMMA CredibleStays ==
    ASSUME TypeInv, RiskInv, Grows, NEW r \in Recs, NEW d, Credible(r, d)
    PROVE  Credible(r, d)'
<1>1. boot \in Nat /\ boot # 0
    BY DEF TypeInv, TypeOK, RiskInv
<1>2. boot' = 1 => boot = 1
    BY <1>1 DEF Grows
<1>3. \A q \in Recs : Exists(q) => Exists(q)' /\ info'[q] = info[q]
    BY DEF Grows, Exists
<1>4. QED BY <1>2, <1>3 DEF Credible, Passes

\* Such steps keep RiskInv.
LEMMA RiskStepKeeps ==
    ASSUME TypeInv, RiskInv, Grows, LogStep, RiskStep, HeldStep, SentStep
    PROVE  RiskInv'
<1>1. boot' # 0 /\ \A r \in Recs : Exists(r)' => r \in issued'
    BY DEF TypeInv, TypeOK, RiskInv, Grows
<1>2. \A u \in Runs : \A d : Passes(u, d) => Passes(u, d)'
    BY DEF Grows, Passes, Exists
<1>3. LogsCredible'
    BY <1>2 DEF RiskInv, LogsCredible, LogStep
<1>4. RisksCredible'
    <2> SUFFICES ASSUME NEW r \in Recs, risks'[r] # None
                 PROVE  Credible(r, risks[r])'
        BY DEF RisksCredible
    <2>1. \E d : d = risks'[r] /\ Credible(r, d)'
        BY CredibleStays DEF RiskInv, RisksCredible, RiskStep
    <2>2. QED BY <2>1 DEF Credible, Passes, Exists
<1>5. HeldCredible'
    <2> SUFFICES ASSUME NEW s \in Submissions, InFlight(s)'
                 PROVE  Credible(sub[s].rec, sub[s].decision)'
        BY DEF HeldCredible
    <2>1. \E r \in Recs : \E d : r = sub'[s].rec /\ d = sub'[s].decision /\ Credible(r, d)
        BY HeldBySubmission DEF HeldStep, RiskInv, HeldCredible, RisksCredible
    <2>2. \E r \in Recs : \E d : r = sub'[s].rec /\ d = sub'[s].decision /\ Credible(r, d)'
        BY <2>1, CredibleStays
    <2>3. QED BY <2>2 DEF Credible, Passes, Exists
<1>6. SentCredible'
    <2> SUFFICES ASSUME NEW o \in Sent' PROVE o.rec \in Recs /\ Credible(o.rec, "APPROVED")'
        BY DEF SentCredible
    <2>1. o.rec \in Recs /\ Credible(o.rec, "APPROVED")
        BY HeldBySubmission DEF SentStep, RiskInv, SentCredible, HeldCredible
    <2>2. QED BY <2>1, CredibleStays
<1>7. QED BY <1>1, <1>3, <1>4, <1>5, <1>6 DEF RiskInv

-----------------------------------------------------------------------------
(***************************************************************************)
(* Every step of the runtime is such a step                                *)
(***************************************************************************)
\* Steps that make no recommendation.
LEMMA SameGrows ==
    ASSUME RiskInv, UNCHANGED <<info, boot>>, issued \subseteq issued'
    PROVE  Grows
    BY DEF RiskInv, Grows, Exists

\* Steps that append an event that is no decision, or nothing.
LEMMA AppendLogs ==
    ASSUME TypeInv, NEW u \in Runs, NEW old \in {runLog[u], stored[u]}, NEW e \in Event,
           e.type # "RISK_EVALUATED",
           runLog' = [runLog EXCEPT ![u] = Append(old, e)],
           stored' \in {stored, [stored EXCEPT ![u] = Append(old, e)]}
    PROVE  LogStep
<1>1. runLog \in [Runs -> Seq(Event)] /\ stored \in [Runs -> Seq(Event)]
    BY DEF TypeInv, TypeOK
<1>2. old \in Seq(Event) /\ Vals(Append(old, e)) = Vals(old)
    BY <1>1, OtherVals
<1> DEFINE log == Append(old, e)
<1> HIDE DEF log
<1>3. /\ runLog'[u] = log /\ \A v \in Runs \ {u} : runLog'[v] = runLog[v]
      /\ stored'[u] \in {stored[u], log} /\ \A v \in Runs \ {u} : stored'[v] = stored[v]
    BY <1>1 DEF log
<1>4. Vals(log) = Vals(old)
    BY <1>2 DEF log
<1>5. QED BY <1>3, <1>4 DEF LogStep, Logged

\* Steps that leave the logs alone.
LEMMA SameLogs == ASSUME UNCHANGED <<runLog, stored>> PROVE LogStep
    BY DEF LogStep, Logged

\* What a step leaves alone, it keeps.
LEMMA SameRest ==
    /\ UNCHANGED risks => RiskStep
    /\ UNCHANGED sub => HeldStep
    /\ UNCHANGED broker => SentStep
    BY DEF RiskStep, HeldStep, InFlight, SentStep, Sent, broker

\* The outcome of a submission.
LEMMA OutcomeStep ==
    ASSUME TypeInv, RiskInv, NEW s \in Submissions, InFlight(s), NEW outcome \in Outcomes,
           RecordOutcome(s, outcome), issued' = issued
    PROVE  Grows /\ LogStep /\ RiskStep /\ HeldStep
<1> DEFINE r == sub[s].rec
           u == info[r].run
           type == IF outcome \in Failures THEN "EXECUTION_FAILED" ELSE "EXECUTION_COMPLETED"
           e == Ev(type, r, outcome)
<1>1. r \in Recs /\ u \in Runs
    BY HeldBySubmission, RunOf DEF TypeInv
<1>2. e \in Event /\ e.type # "RISK_EVALUATED"
    BY <1>1, EventShape DEF ExecutionEvents, Ev
<1>3. /\ runLog' = [runLog EXCEPT ![u] = Append(runLog[u], e)]
      /\ stored' = [stored EXCEPT ![u] = Append(runLog[u], e)]
    BY DEF RecordOutcome, AppendAndStore
<1> HIDE DEF e, u
<1>4. LogStep
    BY <1>1, <1>2, <1>3, AppendLogs
<1>5. Grows /\ RiskStep
    BY SameGrows, SameRest DEF RecordOutcome
<1>6. HeldStep
    BY DEF RecordOutcome, Become, At, HeldStep, InFlight, TypeInv, TypeOK
<1>7. QED BY <1>4, <1>5, <1>6

\* Submissions, from the lookup to the end.
LEMMA TradeKeepsRisk == ASSUME TypeInv, RiskInv, Trade PROVE RiskInv'
<1>1. PICK s \in Submissions :
          \/ \E r \in Recs, b \in Brokers, t \in Recs \cup {NoRec} : Submit(s, r, b, t)
          \/ Proceed(s)
    BY DEF Trade
<1>2. sub \in [Submissions -> Sub \cup Settled]
    BY DEF TypeInv, TypeOK
<1>3. ASSUME NEW r \in Recs, NEW b \in Brokers, NEW t, Submit(s, r, b, t) PROVE RiskInv'
    <2> DEFINE u == info[r].run
               e == Ev("EXECUTION_REQUESTED", r, b)
    <2>1. u \in Runs
        BY <1>3, RunOf DEF TypeInv, KnownExist, Submit
    <2>2. e \in Event /\ e.type # "RISK_EVALUATED"
        BY EventShape DEF Ev
    <2>3. runLog' = [runLog EXCEPT ![u] = Append(RunObject(u), e)] /\ stored' = stored
        BY <1>3 DEF Submit
    <2> HIDE DEF e, u
    <2>4. RunObject(u) \in {runLog[u], stored[u]}
        BY DEF RunObject
    <2>5. LogStep
        BY <2>1, <2>2, <2>3, <2>4, AppendLogs
    <2>6. Grows /\ RiskStep /\ SentStep
        BY <1>3, SameGrows, SameRest DEF Submit, approvals
    <2>7. HeldStep
        BY <1>2, <1>3 DEF Submit, HeldStep, InFlight
    <2>8. QED BY <2>5, <2>6, <2>7, RiskStepKeeps
<1>4. ASSUME InFlight(s), NEW outcome \in Outcomes, RecordOutcome(s, outcome), issued' = issued,
             SentStep
      PROVE  RiskInv'
    BY <1>4, OutcomeStep, RiskStepKeeps
<1>5. CASE Refuse(s) \/ LiveAccepted(s) \/ LiveFailed(s)
    BY <1>4, <1>5, SameRest
    DEF Refuse, LiveAccepted, LiveFailed, InFlight, Outcomes, approvals
<1>6. CASE PaperFills(s)
    BY <1>4, <1>6 DEF PaperFills, InFlight, Outcomes, approvals, SentStep, Sent
<1>7. CASE RefusedByClient(s)
    BY <1>4, <1>7, SameRest DEF RefusedByClient, InFlight, Outcomes, A!Consume
<1>8. ASSUME UNCHANGED <<info, boot, issued, runLog, stored, risks>>, HeldStep, SentStep
      PROVE  RiskInv'
    BY <1>8, SameGrows, SameLogs, SameRest, RiskStepKeeps
<1>9. CASE RaiseBeforeBroker(s) \/ RaiseAtBroker(s)
    <2>1. UNCHANGED <<info, boot, issued, runLog, stored, risks, broker>> /\ Become(s, "raised")
        BY <1>9 DEF RaiseBeforeBroker, RaiseAtBroker, Raise, memory, approvals
    <2>2. HeldStep
        BY <1>2, <2>1 DEF Become, At, HeldStep, InFlight
    <2>3. QED BY <1>8, <2>1, <2>2, SameRest
<1>10. CASE SendPaper(s) \/ SendLive(s)
    <2>1. /\ UNCHANGED <<info, boot, issued, runLog, stored, risks>>
          /\ sub' = [sub EXCEPT ![s].pc = "broker"] /\ sub[s].pc = "preview"
        BY <1>10 DEF SendPaper, SendLive, A!Consume, memory, approvals
    <2>2. sub[s] \in Sub
        BY <2>1, HeldBySubmission DEF InFlight
    <2>3. HeldStep
        BY <1>2, <2>1, <2>2 DEF HeldStep, InFlight, Sub
    <2>4. SentStep
        BY <1>10 DEF SendPaper, SendLive, Blocked, BlockedByRisk, OrderOf, SentStep, Sent, InFlight,
                     broker
    <2>5. QED BY <1>8, <2>1, <2>3, <2>4
<1>11. QED BY <1>1, <1>3, <1>5, <1>6, <1>7, <1>9, <1>10 DEF Proceed

\* Operators' decisions, reads and clears.
LEMMA OperateKeepsRisk == ASSUME TypeInv, RiskInv, Operate PROVE RiskInv'
<1>1. ASSUME NEW r \in Recs, NEW t \in Recs,
             ApproveRecommendation(r, t) \/ RejectRecommendation(r, t)
      PROVE  RiskInv'
    <2>1. PICK type \in ApprovalEvents : RecordDecision(r, type)
        BY <1>1 DEF ApproveRecommendation, RejectRecommendation, ApprovalEvents
    <2>2. Exists(r) /\ requests'[r] \in A!Request /\ issued' = issued
        <3>1. A!Has(r) /\ Exists(r) /\ issued' = issued
            BY <1>1 DEF ApproveRecommendation, RejectRecommendation, A!Approve, A!Reject,
                        A!MayDecide, A!PendingFor, Known
        <3>2. A!Moved(r, "APPROVED") \in A!Request /\ A!Moved(r, "REJECTED") \in A!Request
            BY <3>1, MovedType DEF TypeInv, TypeOK, A!Statuses
        <3>3. requests'[r] \in {A!Moved(r, "APPROVED"), A!Moved(r, "REJECTED")}
            BY <1>1 DEF ApproveRecommendation, RejectRecommendation, A!Approve, A!Reject,
                        TypeInv, TypeOK, A!TypeOK
        <3>4. QED BY <3>1, <3>2, <3>3
    <2> DEFINE u == info[r].run
               e == ApprovalEv(type, r, requests'[r])
    <2>3. u \in Runs
        BY <2>2, RunOf DEF TypeInv
    <2>4. e \in Event /\ e.type # "RISK_EVALUATED"
        BY <2>2, EventShape DEF ApprovalEv, ApprovalEvents
    <2>5. /\ runLog' = [runLog EXCEPT ![u] = Append(RunObject(u), e)]
          /\ stored' = [stored EXCEPT ![u] = Append(RunObject(u), e)]
        BY <2>1 DEF RecordDecision, AppendAndStore
    <2> HIDE DEF e, u
    <2>6. RunObject(u) \in {runLog[u], stored[u]}
        BY DEF RunObject
    <2>7. LogStep
        BY <2>3, <2>4, <2>5, <2>6, AppendLogs
    <2>8. Grows /\ RiskStep /\ HeldStep /\ SentStep
        BY <2>1, <2>2, SameGrows, SameRest DEF RecordDecision
    <2>9. QED BY <2>7, <2>8, RiskStepKeeps
<1>2. ASSUME NEW r \in Recs, ExpireApproval(r) PROVE RiskInv'
    <2>1. UNCHANGED <<info, boot, issued, runLog, stored, risks, sub, broker>>
        BY <1>2 DEF ExpireApproval, A!Read, A!DecideLate, memory
    <2>2. QED BY <2>1, SameGrows, SameLogs, SameRest, RiskStepKeeps
<1>3. CASE ClearHistory
    <2>1. UNCHANGED <<info, boot, issued, runLog, sub, broker>>
        BY <1>3 DEF ClearHistory, A!Clear
    <2>2. (\A u \in Runs : stored'[u] = <<>>) /\ \A r \in Recs : risks'[r] = None
        BY <1>3 DEF ClearHistory
    <2>3. LogStep
        BY <2>1, <2>2, ValsNothing DEF LogStep, Logged
    <2>4. RiskStep
        BY <2>2 DEF RiskStep
    <2>5. QED BY <2>1, <2>3, <2>4, SameGrows, SameRest, RiskStepKeeps
<1>4. QED BY <1>1, <1>2, <1>3 DEF Operate

\* The broker, the clock, and restarts.
LEMMA EnvironmentKeepsRisk == ASSUME TypeInv, RiskInv, Environment PROVE RiskInv'
<1>1. ASSUME NEW o \in wire, BrokerTakes(o) \/ BrokerDrops(o) PROVE RiskInv'
    <2>1. UNCHANGED <<info, boot, issued, runLog, stored, risks, sub>> /\ Sent' \subseteq Sent
        BY <1>1 DEF BrokerTakes, BrokerDrops, BrokerUnchanged, memory, approvals, Sent
    <2>2. SentStep
        BY <2>1 DEF SentStep
    <2>3. QED BY <2>1, <2>2, SameGrows, SameLogs, SameRest, RiskStepKeeps
<1>2. CASE Tick
    <2>1. UNCHANGED <<info, boot, issued, runLog, stored, risks, sub, broker>>
        BY <1>2 DEF Tick, A!Tick, memory
    <2>2. QED BY <2>1, SameGrows, SameLogs, SameRest, RiskStepKeeps
<1>3. CASE Crash
    <2>1. PICK L \in Loadable : Bootstrap(L)
        BY <1>3 DEF Crash
    <2>2. /\ UNCHANGED <<info, issued, stored>> /\ boot' = boot + 1
          /\ \A u \in Runs : runLog'[u] \in {stored[u], <<>>}
          /\ Sent' = Sent
        BY <1>3, <2>1 DEF Crash, Bootstrap, Sent
    <2>3. Grows
        BY <2>2 DEF Grows, RiskInv, Exists
    <2>4. LogStep
        BY <2>2, ValsNothing DEF LogStep, Logged
    <2>5. HeldStep /\ SentStep
        BY <1>3, <2>2 DEF Crash, HeldStep, InFlight, At, SentStep
    <2>6. ASSUME NEW r \in Recs, risks'[r] # None
          PROVE  \E d : d = risks'[r] /\ Credible(r, d)'
        <3> DEFINE d == ReplayedRisk(stored[info[r].run], r)
        <3>1. Exists(r) /\ risks'[r] = d
            BY <2>1, <2>6 DEF Bootstrap, Loaded
        <3>2. info[r].run \in Runs /\ stored[info[r].run] \in Seq(Event)
            BY <3>1, RunOf DEF TypeInv
        <3>3. d \in Vals(stored[info[r].run])
            BY <2>6, <3>1, <3>2, ReplayedIsLogged
        <3> HIDE DEF d
        <3>4. Passes(info[r].run, d)
            BY <3>2, <3>3 DEF RiskInv, LogsCredible, Logged
        <3>5. boot' # 1
            BY <2>2 DEF TypeInv, TypeOK, RiskInv
        <3>6. QED BY <2>2, <3>1, <3>4, <3>5 DEF Credible, Passes, Exists
    <2>7. RiskStep
        BY <2>6 DEF RiskStep
    <2>8. QED BY <2>3, <2>4, <2>5, <2>7, RiskStepKeeps
<1>4. QED BY <1>1, <1>2, <1>3 DEF Environment

\* Analyses: a decision is taken on the recommendation it is logged for.
LEMMA AnalyseKeepsRisk == ASSUME TypeInv, RiskInv, Analyse PROVE RiskInv'
<1>0. runLog \in [Runs -> Seq(Event)] /\ stored \in [Runs -> Seq(Event)]
    BY DEF TypeInv, TypeOK
<1>1. ASSUME NEW u \in Runs, StartAnalysis(u) PROVE RiskInv'
    <2>1. UNCHANGED <<info, boot, issued, stored, risks, sub, broker>>
        BY <1>1 DEF StartAnalysis, memory, approvals
    <2>2. \A v \in Runs : \/ runLog'[v] = runLog[v]
                          \/ runLog'[v] = << Ev("MARKET_CONTEXT_BUILT", NoRec, None) >>
        BY <1>0, <1>1 DEF StartAnalysis
    <2>3. LogStep
        BY <2>1, <2>2, ValsNothing DEF LogStep, Logged
    <2>4. QED BY <2>1, <2>3, SameGrows, SameRest, RiskStepKeeps
<1>2. ASSUME NEW u \in Runs, FinishAnalysis(u) PROVE RiskInv'
    <2>1. /\ UNCHANGED <<info, boot, issued, sub, broker>>
          /\ runLog' = [runLog EXCEPT ![u] = runLog[u]]
          /\ stored' = [stored EXCEPT ![u] = runLog[u]]
        BY <1>2 DEF FinishAnalysis, AppendAndStore, approvals
    <2>2. LogStep
        BY <1>0, <2>1 DEF LogStep, Logged
    <2>3. ASSUME NEW r \in Recs, risks'[r] # risks[r]
          PROVE  \E d : d = risks'[r] /\ Credible(r, d)'
        <3>1. Exists(r) /\ risks'[r] = info[r].decision
            BY <1>2, <2>3 DEF FinishAnalysis, RecsOf
        <3>2. Credible(r, info[r].decision)
            BY <3>1 DEF Credible, Passes
        <3>3. QED BY <2>1, <3>1, <3>2 DEF Credible, Passes, Exists
    <2>4. RiskStep
        BY <2>3 DEF RiskStep
    <2>5. QED BY <2>1, <2>2, <2>4, SameGrows, SameRest, RiskStepKeeps
<1>3. ASSUME NEW u \in Runs, NEW r \in Recs, AnalyseRecommendation(u, r) PROVE RiskInv'
    <2> DEFINE pending == A!NewRequest
               approved == [pending EXCEPT !.status = "APPROVED"]
               a == Ev("RECOMMENDATION_CREATED", r, None)
               b(p) == Ev("RISK_EVALUATED", NoRec, p.decision)
               c == ApprovalEv("APPROVAL_REQUESTED", r, pending)
               d == ApprovalEv("APPROVAL_GRANTED", r, approved)
    <2>1. PICK p \in Profiles :
              /\ \/ runLog' = [runLog EXCEPT ![u] = @ \o <<a, b(p), c>> \o <<d>>]
                 \/ runLog' = [runLog EXCEPT ![u] = @ \o <<a, b(p), c>>]
              /\ info' = [info EXCEPT ![r] = [run |-> u, hold |-> p.hold,
                                              decision |-> p.decision]]
        BY <1>3 DEF AnalyseRecommendation
    <2>2. r \notin issued /\ issued' = issued \cup {r}
          /\ UNCHANGED <<boot, stored, risks, sub, broker>>
        BY <1>3 DEF AnalyseRecommendation, memory
    <2>3. pending \in A!Request /\ approved \in A!Request
        <3>1. now + Ttl \in Nat
            BY RuntimeAssumption DEF TypeInv, TypeOK, A!TypeOK
        <3>2. pending \in A!Request
            BY <3>1 DEF A!NewRequest, A!Request, A!Statuses
        <3>3. QED BY <3>2 DEF A!Request, A!Statuses
    <2> HIDE DEF pending, approved
    <2>4. a \in Event /\ b(p) \in Event /\ c \in Event /\ d \in Event
        <3>1. p.decision \in Decisions
            BY RuntimeAssumption DEF Decisions
        <3>2. QED BY <2>3, <3>1, EventShape DEF ApprovalEvents
    <2>5. /\ \A e \in {a, c, d} : e.type # "RISK_EVALUATED"
          /\ b(p).type = "RISK_EVALUATED" /\ b(p).val = p.decision
        BY DEF Ev, ApprovalEv
    <2>6. info \in [Recs -> Info \cup {NoInfo}] /\ ~Exists(r)
        BY <2>2 DEF TypeInv, TypeOK, RiskInv
    <2>7. Exists(r)' /\ info'[r].run = u /\ info'[r].decision = p.decision
        <3>1. p.decision \in {"APPROVED", "REVIEW", "REJECTED"}
            BY RuntimeAssumption
        <3>2. QED BY <2>1, <2>6, <3>1 DEF Exists, NoInfo, None
    <2> HIDE DEF a, b, c, d
    <2> DEFINE l1 == Append(runLog[u], a)
               l2 == Append(l1, b(p))
               l3 == Append(l2, c)
               l4 == Append(l3, d)
    <2>8. l1 \in Seq(Event) /\ l2 \in Seq(Event) /\ l3 \in Seq(Event)
        BY <1>0, <2>4
    <2>9. Vals(l3) = Vals(runLog[u]) \cup {p.decision} /\ Vals(l4) = Vals(l3)
        BY <1>0, <2>4, <2>5, <2>8, ValsAppend
    <2>10. runLog[u] \o <<a, b(p), c>> = l3 /\ runLog[u] \o <<a, b(p), c>> \o <<d>> = l4
        BY <1>0, <2>4, AppendThree
    <2> HIDE DEF l1, l2, l3, l4
    <2>11. runLog'[u] \in {l3, l4} /\ \A v \in Runs \ {u} : runLog'[v] = runLog[v]
        BY <1>0, <2>1, <2>10
    <2>12. Passes(u, p.decision)'
        BY <2>7 DEF Passes
    <2>13. LogStep
        <3> SUFFICES ASSUME NEW v \in Runs, NEW x \in Logged(v)', x \notin Logged(v)
                     PROVE  Passes(v, x)'
            BY DEF LogStep
        <3>1. v = u /\ x = p.decision
            BY <2>2, <2>9, <2>11 DEF Logged
        <3>2. QED BY <2>12, <3>1 DEF Passes, Exists
    <2>14. Grows
        <3>1. \A q \in Recs \ {r} : info'[q] = info[q]
            BY <2>1, <2>6
        <3>2. QED BY <2>2, <2>6, <3>1 DEF Grows, RiskInv, Exists
    <2>15. QED BY <2>2, <2>13, <2>14, SameRest, RiskStepKeeps
<1>4. QED BY <1>1, <1>2, <1>3 DEF Analyse

\* RiskInv holds in every reachable state.
LEMMA RiskInvariant == Spec => [](TypeInv /\ RiskInv)
<1>1. Init => RiskInv
    <2> SUFFICES ASSUME Init PROVE RiskInv
        OBVIOUS
    <2>1. LogsCredible
        BY ValsNothing DEF Init, LogsCredible, Logged
    <2>2. RisksCredible /\ HeldCredible /\ SentCredible
        BY DEF Init, RisksCredible, HeldCredible, InFlight, At, SentCredible, Sent
    <2>3. boot # 0 /\ \A r \in Recs : ~Exists(r)
        BY DEF Init, Exists
    <2>4. QED BY <2>1, <2>2, <2>3 DEF RiskInv
<1>2. TypeInv /\ RiskInv /\ [Next]_vars => RiskInv'
    <2>1. TypeInv /\ RiskInv /\ UNCHANGED vars => RiskInv'
        BY SameGrows, SameLogs, SameRest, RiskStepKeeps DEF vars, memory, approvals
    <2>2. QED
        BY <2>1, AnalyseKeepsRisk, OperateKeepsRisk, TradeKeepsRisk, EnvironmentKeepsRisk
        DEF Next
<1>3. QED BY <1>1, <1>2, TypeInvariant, PTL DEF Spec

-----------------------------------------------------------------------------
\* Whatever was restarted, the policies approved a recommendation of the run
\* of every live order: a run they approved nothing of sends no order.
THEOREM OrdersOfApprovedRuns ==
    Spec => [](\A o \in Sent : Passes(info[o.rec].run, "APPROVED"))
<1>1. RiskInv => \A o \in Sent : Passes(info[o.rec].run, "APPROVED")
    BY DEF RiskInv, SentCredible, Credible
<1>2. QED BY <1>1, RiskInvariant, PTL

\* Until its first restart the runtime sends a live order only for a
\* recommendation that the policies approved themselves.
THEOREM FirstProcessRiskApproved == Spec => [](boot = 1 => LiveOrderRiskApproved)
<1>1. RiskInv => (boot = 1 => LiveOrderRiskApproved)
    BY DEF RiskInv, SentCredible, Credible, LiveOrderRiskApproved
<1>2. QED BY <1>1, RiskInvariant, PTL

\* Runs of one recommendation: no two share a run.
OneEach ==
    \A q1, q2 \in Recs : Exists(q1) /\ Exists(q2) /\ info[q1].run = info[q2].run => q1 = q2

\* A run that has one gets no other.
LEMMA OneEachKept ==
    ASSUME MaxRecsPerRun = 1, TypeInv, RiskInv, OneEach, [Next]_vars
    PROVE  OneEach'
<1>1. ASSUME UNCHANGED info PROVE OneEach'
    BY <1>1 DEF OneEach, Exists
<1>2. ASSUME NEW u \in Runs, NEW r \in Recs, AnalyseRecommendation(u, r) PROVE OneEach'
    <2>1. RecsOf(u) = {}
        <3>1. Cardinality(RecsOf(u)) < 1
            BY <1>2 DEF AnalyseRecommendation
        <3>2. ASSUME NEW q \in RecsOf(u) PROVE RecsOf(u) = {q}
            BY DEF OneEach, RecsOf
        <3>3. ASSUME NEW q \in RecsOf(u) PROVE FALSE
            BY <3>1, <3>2, FS_Singleton
        <3>4. QED BY <3>3
    <2>2. PICK p \in Profiles :
              info' = [info EXCEPT ![r] = [run |-> u, hold |-> p.hold, decision |-> p.decision]]
        BY <1>2 DEF AnalyseRecommendation
    <2>3. info \in [Recs -> Info \cup {NoInfo}]
        BY DEF TypeInv, TypeOK
    <2>4. info'[r].run = u /\ \A q \in Recs \ {r} : info'[q] = info[q]
        BY <2>2, <2>3
    <2>5. QED BY <2>1, <2>4 DEF OneEach, Exists, RecsOf
<1>3. CASE Analyse
    BY <1>1, <1>2, <1>3 DEF Analyse, StartAnalysis, FinishAnalysis
<1>4. Operate => UNCHANGED info
    BY DEF Operate, ApproveRecommendation, RejectRecommendation, RecordDecision, ExpireApproval,
           ClearHistory
<1>5. Trade => UNCHANGED info
    BY DEF Trade, Submit, Proceed, Refuse, RaiseBeforeBroker, SendPaper, SendLive, RefusedByClient,
           PaperFills, LiveAccepted, LiveFailed, RaiseAtBroker, Raise, RecordOutcome
<1>6. Environment => UNCHANGED info
    BY DEF Environment, BrokerTakes, BrokerDrops, BrokerUnchanged, Tick, Crash
<1>7. QED BY <1>1, <1>3, <1>4, <1>5, <1>6 DEF Next, vars

\* Where an analysis yields one recommendation per run, "Non-paper brokers
\* require risk approval" holds across any number of restarts.
THEOREM SingleRunsRiskApproved ==
    ASSUME MaxRecsPerRun = 1
    PROVE  Spec => []LiveOrderRiskApproved
<1>1. Init => OneEach
    BY DEF Init, OneEach, Exists
<1>2. TypeInv /\ RiskInv /\ OneEach /\ [Next]_vars => OneEach'
    BY OneEachKept
<1>3. RiskInv /\ OneEach => LiveOrderRiskApproved
    BY DEF RiskInv, SentCredible, Credible, Passes, OneEach, LiveOrderRiskApproved
<1>4. QED BY <1>1, <1>2, <1>3, RiskInvariant, PTL DEF Spec
=============================================================================
