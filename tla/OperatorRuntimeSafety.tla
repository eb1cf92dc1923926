----------------------- MODULE OperatorRuntimeSafety -----------------------
(***************************************************************************)
(* For every set of recommendations, runs and submissions, every Ttl and   *)
(* every bound: the safety properties of OperatorRuntime.  The argument is *)
(* about logs: every log the process or the store holds replays to what    *)
(* operators decided and to what the process reports, so a start rebuilds  *)
(* the truth from it.  The last part is about the approval service as the  *)
(* runtime uses it: its steps, its deadlines, and starts past it.          *)
(***************************************************************************)
EXTENDS OperatorRuntimeProofs

-----------------------------------------------------------------------------
(***************************************************************************)
(* What one more event changes of what a log replays to                    *)
(***************************************************************************)
Names(e, types, r) == e.type \in types /\ e.rec = r

\* The indexes of the events a replay selects, after one more event.
LEMMA MatchingAppend ==
    ASSUME NEW log \in Seq(Event), NEW e \in Event, NEW types \in {ApprovalEvents, ExecutionEvents}, NEW r \in Recs
    PROVE  /\ Matching(log, types, r) \in SUBSET (1..Len(log))
           /\ Names(e, types, r) => Matching(Append(log, e), types, r) =
                                        Matching(log, types, r) \cup {Len(log) + 1}
           /\ ~ Names(e, types, r) => Matching(Append(log, e), types, r) =
                                          Matching(log, types, r)
<1>1. /\ Len(log) \in Nat /\ DOMAIN log = 1..Len(log)
      /\ DOMAIN Append(log, e) = 1..(Len(log) + 1)
      /\ \A i \in 1..Len(log) : Append(log, e)[i] = log[i]
      /\ Append(log, e)[Len(log) + 1] = e
    OBVIOUS
<1>2. DOMAIN Append(log, e) = (DOMAIN log) \cup {Len(log) + 1} /\ Len(log) + 1 \notin DOMAIN log
    BY <1>1
<1>3. QED BY <1>1, <1>2 DEF Matching, Names

\* An index past all of a set is the latest once added to it.
LEMMA LatestOf ==
    ASSUME NEW n \in Nat, NEW I \in SUBSET (1..n)
    PROVE  Latest(I \cup {n + 1}) = n + 1
<1> DEFINE J == I \cup {n + 1}
<1>1. n + 1 \in J /\ \A j \in J : j <= n + 1
    OBVIOUS
<1>2. Latest(J) \in J /\ \A j \in J : j <= Latest(J)
    <2> HIDE DEF J
    <2>1. QED BY <1>1 DEF Latest
<1>3. ASSUME NEW x \in J, n + 1 <= x PROVE x = n + 1
    BY <1>3
<1>4. QED BY <1>1, <1>2, <1>3

\* The event just appended is the last one; before it the log is as it was.
LEMMA LatestAppend ==
    ASSUME NEW log \in Seq(Event), NEW e \in Event, NEW types \in {ApprovalEvents, ExecutionEvents}, NEW r \in Recs
    PROVE  /\ Names(e, types, r) =>
                /\ Matching(Append(log, e), types, r) # {}
                /\ Append(log, e)[Latest(Matching(Append(log, e), types, r))] = e
           /\ ~ Names(e, types, r) =>
                /\ Matching(Append(log, e), types, r) = Matching(log, types, r)
                /\ Matching(log, types, r) # {} =>
                      Append(log, e)[Latest(Matching(log, types, r))] = log[Latest(Matching(log, types, r))]
<1> DEFINE I == Matching(log, types, r)
           J == Matching(Append(log, e), types, r)
<1>1. I \in SUBSET (1..Len(log)) /\ Len(log) \in Nat /\ DOMAIN log = 1..Len(log)
    BY MatchingAppend
<1>2. /\ Names(e, types, r) => J = I \cup {Len(log) + 1}
      /\ ~ Names(e, types, r) => J = I
    BY MatchingAppend
<1> HIDE DEF I, J
<1>3. Append(log, e)[Len(log) + 1] = e /\ \A i \in 1..Len(log) : Append(log, e)[i] = log[i]
    OBVIOUS
<1>4. ASSUME Names(e, types, r) PROVE J # {} /\ Append(log, e)[Latest(J)] = e
    <2>1. Latest(J) = Len(log) + 1
        BY <1>1, <1>2, <1>4, LatestOf
    <2>2. QED BY <1>2, <1>3, <1>4, <2>1
<1>5. ASSUME ~ Names(e, types, r)
      PROVE  J = I /\ (I # {} => Append(log, e)[Latest(I)] = log[Latest(I)])
    <2>1. I # {} => Latest(I) \in 1..Len(log)
        BY <1>1, LatestIn
    <2>2. QED BY <1>2, <1>3, <1>5, <2>1
<1>6. QED BY <1>4, <1>5 DEF I, J

\* One more event replaces what a log replays to if it names r, and else changes nothing.
LEMMA ReplayAppend ==
    ASSUME NEW log \in Seq(Event), NEW e \in Event, NEW r \in Recs
    PROVE  /\ ReplayedApproval(Append(log, e), r) =
                  IF Names(e, ApprovalEvents, r) THEN e.approval ELSE ReplayedApproval(log, r)
           /\ ReplayedExecution(Append(log, e), r) =
                  IF Names(e, ExecutionEvents, r) THEN e.val ELSE ReplayedExecution(log, r)
<1>1. ReplayedApproval(Append(log, e), r) =
          IF Names(e, ApprovalEvents, r) THEN e.approval ELSE ReplayedApproval(log, r)
    <2> DEFINE I == Matching(log, ApprovalEvents, r)
               J == Matching(Append(log, e), ApprovalEvents, r)
    <2>1. /\ Names(e, ApprovalEvents, r) => J # {} /\ Append(log, e)[Latest(J)] = e
          /\ ~ Names(e, ApprovalEvents, r) =>
                 J = I /\ (I # {} => Append(log, e)[Latest(I)] = log[Latest(I)])
        BY LatestAppend
    <2>2. /\ ReplayedApproval(log, r) = IF I = {} THEN A!NoRequest ELSE log[Latest(I)].approval
          /\ ReplayedApproval(Append(log, e), r) =
                 IF J = {} THEN A!NoRequest ELSE Append(log, e)[Latest(J)].approval
        BY DEF ReplayedApproval
    <2> HIDE DEF I, J
    <2>3. QED BY <2>1, <2>2
<1>2. ReplayedExecution(Append(log, e), r) =
          IF Names(e, ExecutionEvents, r) THEN e.val ELSE ReplayedExecution(log, r)
    <2> DEFINE I == Matching(log, ExecutionEvents, r)
               J == Matching(Append(log, e), ExecutionEvents, r)
    <2>1. /\ Names(e, ExecutionEvents, r) => J # {} /\ Append(log, e)[Latest(J)] = e
          /\ ~ Names(e, ExecutionEvents, r) =>
                 J = I /\ (I # {} => Append(log, e)[Latest(I)] = log[Latest(I)])
        BY LatestAppend
    <2>2. /\ ReplayedExecution(log, r) = IF I = {} THEN None ELSE log[Latest(I)].val
          /\ ReplayedExecution(Append(log, e), r) =
                 IF J = {} THEN None ELSE Append(log, e)[Latest(J)].val
        BY DEF ReplayedExecution
    <2> HIDE DEF I, J
    <2>3. QED BY <2>1, <2>2
<1>3. QED BY <1>1, <1>2

\* A log of no events, or of the market context alone, replays to nothing.
LEMMA ReplayNothing ==
    ASSUME NEW log \in {<<>>, << Ev("MARKET_CONTEXT_BUILT", NoRec, None) >>}, NEW r \in Recs
    PROVE  ReplayedApproval(log, r) = A!NoRequest /\ ReplayedExecution(log, r) = None
<1>1. \A i \in DOMAIN log : log[i].type = "MARKET_CONTEXT_BUILT"
    BY DEF Ev
<1>2. Matching(log, ApprovalEvents, r) = {} /\ Matching(log, ExecutionEvents, r) = {}
    BY <1>1 DEF Matching, ApprovalEvents, ExecutionEvents
<1>3. QED BY <1>2 DEF ReplayedApproval, ReplayedExecution

\* An analysis appends its events one by one.
LEMMA AppendThree ==
    ASSUME NEW log \in Seq(Event), NEW a \in Event, NEW b \in Event, NEW c \in Event, NEW d \in Event
    PROVE  /\ log \o <<a, b, c>> = Append(Append(Append(log, a), b), c)
           /\ log \o <<a, b, c>> \o <<d>> = Append(log \o <<a, b, c>>, d)
           /\ log \o <<a, b, c>> \in Seq(Event)
<1>1. log \o <<a, b, c>> \in Seq(Event)
    OBVIOUS
<1>2. log \o <<a, b, c>> = Append(Append(Append(log, a), b), c)
    OBVIOUS
<1>3. log \o <<a, b, c>> \o <<d>> = Append(log \o <<a, b, c>>, d)
    BY <1>1
<1>4. QED BY <1>1, <1>2, <1>3

-----------------------------------------------------------------------------
(***************************************************************************)
(* Approvals: every log and the approval table tell the decisions operators *)
(* took.  granted and rejected are history; the rest is what a process has, *)
(* or would rebuild from the store.                                         *)
(***************************************************************************)
Decided(a, r) == /\ r \in granted <=> a.status \in {"APPROVED", "CONSUMED"}
                 /\ r \in rejected <=> a.status = "REJECTED"

\* What a log of run u replays to for r: an approval of a recommendation of u.
Tells(a, u, r) == a # A!NoRequest => Exists(r) /\ info[r].run = u /\ Decided(a, r)

LogsTrue == \A u \in Runs, r \in Recs : /\ Tells(ReplayedApproval(runLog[u], r), u, r)
                                       /\ Tells(ReplayedApproval(stored[u], r), u, r)

RequestsTrue == \A r \in Recs : A!Has(r) => Exists(r) /\ Decided(requests[r], r)

DecidedOnce == /\ granted \cap rejected = {}
               /\ \A r \in granted \cup rejected : Exists(r)
               /\ \A r \in Recs : Exists(r) => r \in issued

SentApproved == \A o \in Sent : o.rec \in granted /\ ~ info[o.rec].hold

ApprovalInv == LogsTrue /\ RequestsTrue /\ DecidedOnce /\ SentApproved

\* Tokens: what this process sent is spent in its table.
TokensSpent ==
    /\ \A o \in Sent : o.boot <= boot
    /\ \A o \in Sent : o.boot = boot =>
           requests[o.rec] = A!NoRequest \/ requests[o.rec].status = "CONSUMED"

-----------------------------------------------------------------------------
\* Steps that add no approval event: every log replays to what it, or the row of
\* its run, replayed to before, or to nothing.
Alike == \A u \in Runs, r \in Recs :
             LET before == {A!NoRequest, ReplayedApproval(runLog[u], r), ReplayedApproval(stored[u], r)}
             IN /\ ReplayedApproval(runLog'[u], r) \in before
                /\ ReplayedApproval(stored'[u], r) \in before

\* Such steps keep LogsTrue.
LEMMA AlikeTrue ==
    ASSUME LogsTrue, Alike, UNCHANGED <<info, granted, rejected>>
    PROVE  LogsTrue'
    BY DEF LogsTrue, Alike, Tells, Decided, Exists

\* An event that is no approval event changes no replayed approval.
LEMMA OtherEvent ==
    ASSUME NEW log \in Seq(Event), NEW e \in Event, e.type \notin ApprovalEvents, NEW r \in Recs
    PROVE  ReplayedApproval(Append(log, e), r) = ReplayedApproval(log, r)
    BY ReplayAppend DEF Names

\* Storing an outcome is such a step.
LEMMA OutcomeAlike ==
    ASSUME TypeInv, NEW s \in Submissions, InFlight(s), NEW outcome \in Outcomes,
           RecordOutcome(s, outcome)
    PROVE  Alike
<1> DEFINE r == sub[s].rec
           u == info[r].run
           type == IF outcome \in Failures THEN "EXECUTION_FAILED" ELSE "EXECUTION_COMPLETED"
           e == Ev(type, r, outcome)
           log == Append(runLog[u], e)
<1>1. r \in Recs /\ u \in Runs /\ runLog[u] \in Seq(Event)
    BY HeldBySubmission, RunOf DEF TypeInv
<1>2. e \in Event /\ e.type \notin ApprovalEvents
    BY <1>1, EventShape DEF ExecutionEvents, ApprovalEvents, Ev
<1> HIDE DEF e
<1>3. \A q \in Recs : ReplayedApproval(log, q) = ReplayedApproval(runLog[u], q)
    BY <1>1, <1>2, OtherEvent
<1>4. runLog' = [runLog EXCEPT ![u] = log] /\ stored' = [stored EXCEPT ![u] = log]
    BY DEF RecordOutcome, AppendAndStore, e
<1> HIDE DEF log
<1>5. QED BY <1>1, <1>3, <1>4 DEF Alike, TypeInv, TypeOK

\* So is EXECUTION_REQUESTED, appended to the run object alone.
LEMMA SubmitAlike ==
    ASSUME TypeInv, NEW s \in Submissions, NEW r \in Recs, NEW b \in Brokers, NEW t,
           Submit(s, r, b, t)
    PROVE  Alike
<1> DEFINE u == info[r].run
           e == Ev("EXECUTION_REQUESTED", r, b)
           log == Append(RunObject(u), e)
<1>1. u \in Runs /\ RunObject(u) \in Seq(Event) /\ RunObject(u) \in {runLog[u], stored[u]}
    BY RunOf DEF TypeInv, KnownExist, Submit, RunObject
<1>2. e \in Event /\ e.type \notin ApprovalEvents
    BY EventShape DEF ApprovalEvents, Ev
<1> HIDE DEF e
<1>3. \A q \in Recs : ReplayedApproval(log, q) = ReplayedApproval(RunObject(u), q)
    BY <1>1, <1>2, OtherEvent
<1>4. runLog' = [runLog EXCEPT ![u] = log] /\ stored' = stored
    BY DEF Submit, e
<1> HIDE DEF log
<1>5. QED BY <1>1, <1>3, <1>4 DEF Alike, TypeInv, TypeOK

\* So is a restart: run objects are the rows, or gone.
LEMMA CrashAlike == ASSUME TypeInv, Crash PROVE Alike
<1>1. \A u \in Runs : runLog'[u] \in {stored[u], <<>>}
    BY DEF Crash, Bootstrap
<1>2. \A u \in Runs, r \in Recs :
          ReplayedApproval(runLog'[u], r) \in {A!NoRequest, ReplayedApproval(stored[u], r)}
    BY <1>1, ReplayNothing
<1>3. stored' = stored
    BY DEF Crash
<1>4. QED BY <1>2, <1>3 DEF Alike

\* So is the start of an analysis: its log has no approval yet.
LEMMA StartAlike == ASSUME TypeInv, NEW u \in Runs, StartAnalysis(u) PROVE Alike
<1>1. \A v \in Runs : runLog'[v] = runLog[v]
                      \/ runLog'[v] = << Ev("MARKET_CONTEXT_BUILT", NoRec, None) >>
    BY DEF StartAnalysis, TypeInv, TypeOK
<1>2. stored' = stored
    BY DEF StartAnalysis
<1>3. QED BY <1>1, <1>2, ReplayNothing DEF Alike

\* So is its end, which stores the log.
LEMMA FinishAlike == ASSUME TypeInv, NEW u \in Runs, FinishAnalysis(u) PROVE Alike
    BY DEF FinishAnalysis, AppendAndStore, Alike, TypeInv, TypeOK

\* So is a clear, which deletes the rows.
LEMMA ClearAlike == ASSUME TypeInv, ClearHistory PROVE Alike
<1>1. \A u \in Runs : stored'[u] = <<>> /\ runLog'[u] = runLog[u]
    BY DEF ClearHistory
<1>2. QED BY <1>1, ReplayNothing DEF Alike

\* So is any step that touches no log.
LEMMA SameLogsAlike == ASSUME UNCHANGED <<runLog, stored>> PROVE Alike
    BY DEF Alike

-----------------------------------------------------------------------------
(***************************************************************************)
(* ApprovalInv is inductive                                                *)
(***************************************************************************)
\* A step that adds no approval event, takes no decision and analyses nothing:
\* what is left to show is about the table and the orders sent.
LEMMA QuietStep ==
    ASSUME ApprovalInv, Alike, UNCHANGED <<info, granted, rejected, issued>>, RequestsTrue',
           \A o \in Sent' : o \in Sent \/ (o.rec \in granted /\ ~ info[o.rec].hold)
    PROVE  ApprovalInv'
<1>1. LogsTrue'
    BY AlikeTrue DEF ApprovalInv
<1>2. DecidedOnce'
    BY DEF ApprovalInv, DecidedOnce, Exists
<1>3. SentApproved'
    BY DEF ApprovalInv, SentApproved
<1>4. QED BY <1>1, <1>2, <1>3 DEF ApprovalInv

\* A step that leaves table and history alone keeps RequestsTrue.
LEMMA SameRequestsTrue ==
    ASSUME ApprovalInv, UNCHANGED <<info, granted, rejected, requests>>
    PROVE  RequestsTrue'
    BY DEF ApprovalInv, RequestsTrue, A!Has, Exists, Decided

\* A request may move where its decision does not change.
LEMMA MovedRequestsTrue ==
    ASSUME TypeInv, ApprovalInv, NEW r \in Recs, A!Has(r), NEW st \in A!Statuses,
           \/ requests[r].status = "PENDING" /\ st = "EXPIRED"
           \/ requests[r].status = "APPROVED" /\ st = "CONSUMED",
           requests' = [requests EXCEPT ![r] = A!Moved(r, st)],
           UNCHANGED <<info, granted, rejected>>
    PROVE  RequestsTrue'
<1>1. requests \in [Recs -> A!Request \cup {A!NoRequest}]
    BY DEF TypeInv, TypeOK, A!TypeOK
<1>2. requests'[r].status = st /\ \A q \in Recs \ {r} : requests'[q] = requests[q]
    BY <1>1 DEF A!Moved, A!Has, A!Request
<1>3. Decided(requests[r], r)'
    BY <1>2 DEF ApprovalInv, RequestsTrue, Decided
<1>4. QED BY <1>2, <1>3 DEF ApprovalInv, RequestsTrue, A!Has, Exists, Decided

\* What the analysis of r in run u does to the table, and to what the logs replay to.
LEMMA AnalysisReplays ==
    ASSUME TypeInv, NEW u \in Runs, NEW r \in Recs, AnalyseRecommendation(u, r)
    PROVE  /\ requests'[r] \in A!Request /\ requests'[r].expiresAt = now + Ttl
           /\ \/ requests'[r].status = "APPROVED" /\ granted' = granted \cup {r}
              \/ requests'[r].status = "PENDING" /\ granted' = granted
           /\ \A q \in Recs \ {r} : requests'[q] = requests[q]
           /\ \A v \in Runs, q \in Recs :
                  ReplayedApproval(runLog'[v], q) =
                      IF v = u /\ q = r THEN requests'[r] ELSE ReplayedApproval(runLog[v], q)
<1> DEFINE pending == A!NewRequest
           approved == [pending EXCEPT !.status = "APPROVED"]
           a(p) == Ev("RECOMMENDATION_CREATED", r, None)
           b(p) == Ev("RISK_EVALUATED", NoRec, p.decision)
           c(p) == ApprovalEv("APPROVAL_REQUESTED", r, pending)
           d(p) == ApprovalEv("APPROVAL_GRANTED", r, approved)
<1>1. PICK p \in Profiles :
          /\ \/ /\ requests' = [requests EXCEPT ![r] = approved]
                /\ runLog' = [runLog EXCEPT ![u] = @ \o <<a(p), b(p), c(p)>> \o <<d(p)>>]
                /\ granted' = granted \cup {r}
             \/ /\ requests' = [requests EXCEPT ![r] = pending]
                /\ runLog' = [runLog EXCEPT ![u] = @ \o <<a(p), b(p), c(p)>>]
                /\ granted' = granted
    BY DEF AnalyseRecommendation
<1>2. p.decision \in Decisions
    BY RuntimeAssumption DEF Decisions
<1>3. /\ pending \in A!Request /\ pending.status = "PENDING" /\ pending.expiresAt = now + Ttl
      /\ approved \in A!Request /\ approved.status = "APPROVED" /\ approved.expiresAt = now + Ttl
    <2>1. now + Ttl \in Nat
        BY RuntimeAssumption DEF TypeInv, TypeOK, A!TypeOK
    <2>2. pending \in A!Request /\ pending.status = "PENDING" /\ pending.expiresAt = now + Ttl
        BY <2>1 DEF A!NewRequest, A!Request, A!Statuses
    <2>3. QED BY <2>2 DEF A!Request, A!Statuses
<1> HIDE DEF pending, approved
<1>4. a(p) \in Event /\ b(p) \in Event /\ c(p) \in Event /\ d(p) \in Event
    BY <1>2, <1>3, EventShape DEF ApprovalEvents
<1>5. /\ \A q \in Recs : ~ Names(a(p), ApprovalEvents, q) /\ ~ Names(b(p), ApprovalEvents, q)
      /\ \A q \in Recs : Names(c(p), ApprovalEvents, q) <=> q = r
      /\ \A q \in Recs : Names(d(p), ApprovalEvents, q) <=> q = r
      /\ c(p).approval = pending /\ d(p).approval = approved
    BY DEF Names, ApprovalEvents, Ev, ApprovalEv
<1> HIDE DEF a, b, c, d
<1>6. ASSUME NEW log \in Seq(Event), NEW q \in Recs
      PROVE  /\ ReplayedApproval(log \o <<a(p), b(p), c(p)>>, q) =
                    IF q = r THEN pending ELSE ReplayedApproval(log, q)
             /\ ReplayedApproval(log \o <<a(p), b(p), c(p)>> \o <<d(p)>>, q) =
                    IF q = r THEN approved ELSE ReplayedApproval(log, q)
    <2> DEFINE l1 == Append(log, a(p))
               l2 == Append(l1, b(p))
               l3 == Append(l2, c(p))
    <2>1. l1 \in Seq(Event) /\ ReplayedApproval(l1, q) = ReplayedApproval(log, q)
        BY <1>4, <1>5, ReplayAppend
    <2> HIDE DEF l1
    <2>2. l2 \in Seq(Event) /\ ReplayedApproval(l2, q) = ReplayedApproval(l1, q)
        BY <1>4, <1>5, <2>1, ReplayAppend
    <2> HIDE DEF l2
    <2>3. /\ l3 \in Seq(Event)
          /\ ReplayedApproval(l3, q) = IF q = r THEN pending ELSE ReplayedApproval(l2, q)
        BY <1>4, <1>5, <2>2, ReplayAppend
    <2> HIDE DEF l3
    <2>4. ReplayedApproval(Append(l3, d(p)), q) = IF q = r THEN approved ELSE ReplayedApproval(l3, q)
        BY <1>4, <1>5, <2>3, ReplayAppend
    <2>5. /\ log \o <<a(p), b(p), c(p)>> = l3
          /\ log \o <<a(p), b(p), c(p)>> \o <<d(p)>> = Append(l3, d(p))
        BY <1>4, AppendThree DEF l1, l2, l3
    <2>6. QED BY <2>1, <2>2, <2>3, <2>4, <2>5
<1>7. /\ runLog \in [Runs -> Seq(Event)] /\ runLog[u] \in Seq(Event)
      /\ requests \in [Recs -> A!Request \cup {A!NoRequest}]
    BY DEF TypeInv, TypeOK, A!TypeOK
<1>8. /\ \A v \in Runs \ {u} : runLog'[v] = runLog[v]
      /\ \A q \in Recs \ {r} : requests'[q] = requests[q]
    BY <1>1, <1>7
<1>9. \/ /\ runLog'[u] = runLog[u] \o <<a(p), b(p), c(p)>> \o <<d(p)>>
         /\ requests'[r] = approved /\ granted' = granted \cup {r}
      \/ /\ runLog'[u] = runLog[u] \o <<a(p), b(p), c(p)>>
         /\ requests'[r] = pending /\ granted' = granted
    BY <1>1, <1>7
<1>10. \A q \in Recs : ReplayedApproval(runLog'[u], q) =
                        IF q = r THEN requests'[r] ELSE ReplayedApproval(runLog[u], q)
    BY <1>6, <1>7, <1>9
<1>11. QED BY <1>3, <1>8, <1>9, <1>10

\* Analyses: a new request is PENDING, or APPROVED with its grant in the same log.
LEMMA AnalyseKeepsApprovals == TypeInv /\ ApprovalInv /\ Analyse => ApprovalInv'
<1> SUFFICES ASSUME TypeInv, ApprovalInv, Analyse PROVE ApprovalInv'
    OBVIOUS
<1>1. ASSUME NEW u \in Runs, StartAnalysis(u) PROVE ApprovalInv'
    BY <1>1, StartAlike, SameRequestsTrue, QuietStep DEF StartAnalysis, approvals, broker, history, Sent
<1>2. ASSUME NEW u \in Runs, FinishAnalysis(u) PROVE ApprovalInv'
    BY <1>2, FinishAlike, SameRequestsTrue, QuietStep DEF FinishAnalysis, approvals, broker, history, Sent
<1>3. ASSUME NEW u \in Runs, NEW r \in Recs, AnalyseRecommendation(u, r) PROVE ApprovalInv'
    <2>1. PICK p \in Profiles :
              /\ r \notin issued
              /\ info' = [info EXCEPT ![r] = [run |-> u, hold |-> p.hold, decision |-> p.decision]]
              /\ issued' = issued \cup {r}
              /\ UNCHANGED <<stored, wire, ledger, rejected>>
        BY <1>3 DEF AnalyseRecommendation, broker
    <2>2. p.decision \in Decisions
        BY RuntimeAssumption DEF Decisions
    <2>3. /\ \A q \in Recs \ {r} : requests'[q] = requests[q]
          /\ \/ requests'[r].status = "APPROVED" /\ granted' = granted \cup {r}
             \/ requests'[r].status = "PENDING" /\ granted' = granted
          /\ \A v \in Runs, q \in Recs :
                 ReplayedApproval(runLog'[v], q) =
                     IF v = u /\ q = r THEN requests'[r] ELSE ReplayedApproval(runLog[v], q)
        BY <1>3, AnalysisReplays
    \* r is new: it was never decided, and no log speaks of it.
    <2>7. ~ Exists(r) /\ r \notin granted /\ r \notin rejected
        BY <2>1 DEF ApprovalInv, DecidedOnce
    <2>8. /\ Exists(r)' /\ info'[r].run = u
          /\ \A q \in Recs \ {r} : info'[q] = info[q]
        <3>1. p.decision # None
            BY <2>2 DEF Decisions, None
        <3>2. QED BY <2>1, <3>1 DEF TypeInv, TypeOK, Exists, NoInfo
    <2>9. /\ Decided(requests[r], r)'
          /\ \A q \in Recs \ {r} : (q \in granted' <=> q \in granted) /\ (q \in rejected' <=> q \in rejected)
        BY <2>1, <2>3, <2>7 DEF Decided
    <2>10. /\ \A v \in Runs, q \in Recs \ {r} :
                 ReplayedApproval(runLog'[v], q) = ReplayedApproval(runLog[v], q)
           /\ \A v \in Runs : ReplayedApproval(runLog'[v], r) # A!NoRequest =>
                 v = u /\ ReplayedApproval(runLog'[v], r) = requests'[r]
        <3>1. \A v \in Runs : ReplayedApproval(runLog[v], r) = A!NoRequest
            BY <2>7 DEF ApprovalInv, LogsTrue, Tells
        <3>2. QED BY <2>3, <3>1
    <2>11. LogsTrue'
        <3> SUFFICES ASSUME NEW v \in Runs, NEW q \in Recs
                     PROVE  /\ Tells(ReplayedApproval(runLog[v], q), v, q)'
                            /\ Tells(ReplayedApproval(stored[v], q), v, q)'
            BY DEF LogsTrue
        <3>1. CASE q = r
            <4>1. ReplayedApproval(stored'[v], r) = A!NoRequest
                BY <2>1, <2>7 DEF ApprovalInv, LogsTrue, Tells
            <4>2. QED BY <2>8, <2>9, <2>10, <3>1, <4>1 DEF Tells, Decided
        <3>2. CASE q # r
            BY <2>1, <2>8, <2>9, <2>10, <3>2 DEF ApprovalInv, LogsTrue, Tells, Decided, Exists
        <3>3. QED BY <3>1, <3>2
    <2>12. RequestsTrue'
        BY <2>3, <2>8, <2>9 DEF ApprovalInv, RequestsTrue, Decided, Exists, A!Has
    <2>13. DecidedOnce'
        BY <2>1, <2>3, <2>7, <2>8 DEF ApprovalInv, DecidedOnce, Exists
    <2>14. SentApproved'
        BY <2>1, <2>3, <2>7, <2>8 DEF ApprovalInv, SentApproved, Sent, TypeInv, TypeOK, Order
    <2>15. QED BY <2>11, <2>12, <2>13, <2>14 DEF ApprovalInv
<1>4. QED BY <1>1, <1>2, <1>3 DEF Analyse

\* What recording a decision on r does to what the logs replay to: the object and the
\* row of the run end with it, and are otherwise what the object or the row was.
LEMMA DecisionReplays ==
    ASSUME TypeInv, NEW r \in Recs, NEW type \in ApprovalEvents, Exists(r),
           requests'[r] \in A!Request, RecordDecision(r, type)
    PROVE  \A v \in Runs, q \in Recs :
               IF v # info[r].run
               THEN runLog'[v] = runLog[v] /\ stored'[v] = stored[v]
               ELSE /\ ReplayedApproval(runLog'[v], q) = ReplayedApproval(stored'[v], q)
                    /\ IF q = r
                       THEN ReplayedApproval(stored'[v], q) = requests'[r]
                       ELSE ReplayedApproval(stored'[v], q) \in
                                {ReplayedApproval(runLog[v], q), ReplayedApproval(stored[v], q)}
<1> DEFINE u == info[r].run
           e == ApprovalEv(type, r, requests'[r])
           log == Append(RunObject(u), e)
<1>1. /\ u \in Runs /\ RunObject(u) \in Seq(Event) /\ RunObject(u) \in {runLog[u], stored[u]}
      /\ runLog \in [Runs -> Seq(Event)] /\ stored \in [Runs -> Seq(Event)]
    BY RunOf DEF TypeInv, RunObject, TypeOK
<1>2. e \in Event
    BY EventShape
<1>3. e.type \in ApprovalEvents /\ e.rec = r /\ e.approval = requests'[r]
    BY DEF ApprovalEv
<1> HIDE DEF e
<1>4. \A q \in Recs : ReplayedApproval(log, q) =
                      IF q = r THEN requests'[r] ELSE ReplayedApproval(RunObject(u), q)
    BY <1>1, <1>2, <1>3, ReplayAppend DEF Names
<1>5. runLog' = [runLog EXCEPT ![u] = log] /\ stored' = [stored EXCEPT ![u] = log]
    BY DEF RecordDecision, AppendAndStore, e
<1> HIDE DEF log
<1>6. QED BY <1>1, <1>4, <1>5

\* An operator's decision: the request was PENDING, so nobody decided it before,
\* and the run's object and row both end with the decision.
LEMMA DecisionTrue ==
    ASSUME TypeInv, ApprovalInv, NEW r \in Recs, NEW type \in ApprovalEvents,
           Exists(r), A!Has(r), requests[r].status = "PENDING",
           NEW st \in {"APPROVED", "REJECTED"},
           requests' = [requests EXCEPT ![r] = A!Moved(r, st)], UNCHANGED issued,
           RecordDecision(r, type),
           granted' = (IF st = "APPROVED" THEN granted \cup {r} ELSE granted),
           rejected' = (IF st = "REJECTED" THEN rejected \cup {r} ELSE rejected)
    PROVE  ApprovalInv'
<1> DEFINE u == info[r].run
<1>1. requests \in [Recs -> A!Request \cup {A!NoRequest}] /\ UNCHANGED <<info, wire, ledger>>
    BY DEF TypeInv, TypeOK, A!TypeOK, RecordDecision, broker
<1>2. /\ requests'[r] \in A!Request /\ requests'[r].status = st
      /\ \A q \in Recs \ {r} : requests'[q] = requests[q]
    <2>1. st \in A!Statuses
        BY DEF A!Statuses
    <2>2. A!Moved(r, st) \in A!Request
        BY <2>1, MovedType DEF TypeInv, TypeOK
    <2>3. requests[r] \in A!Request
        BY <1>1 DEF A!Has
    <2>4. A!Moved(r, st).status = st
        BY <2>3 DEF A!Moved, A!Request
    <2>5. QED BY <1>1, <2>2, <2>4
<1>3. r \notin granted /\ r \notin rejected
    BY DEF ApprovalInv, RequestsTrue, Decided
<1>4. Decided(requests[r], r)'
    BY <1>2, <1>3 DEF Decided
<1>5. \A q \in Recs \ {r} : (q \in granted' <=> q \in granted) /\ (q \in rejected' <=> q \in rejected)
    OBVIOUS
<1>6. LogsTrue'
    <2> SUFFICES ASSUME NEW v \in Runs, NEW q \in Recs
                 PROVE  /\ Tells(ReplayedApproval(runLog[v], q), v, q)'
                        /\ Tells(ReplayedApproval(stored[v], q), v, q)'
        BY DEF LogsTrue
    <2>1. IF v # u
          THEN runLog'[v] = runLog[v] /\ stored'[v] = stored[v]
          ELSE /\ ReplayedApproval(runLog'[v], q) = ReplayedApproval(stored'[v], q)
               /\ IF q = r
                  THEN ReplayedApproval(stored'[v], q) = requests'[r]
                  ELSE ReplayedApproval(stored'[v], q) \in
                           {ReplayedApproval(runLog[v], q), ReplayedApproval(stored[v], q)}
        BY <1>2, DecisionReplays
    <2>2. CASE v = u /\ q = r
        BY <1>1, <1>4, <2>1, <2>2 DEF Tells, Decided, Exists
    <2>3. CASE v = u /\ q # r
        BY <1>1, <1>5, <2>1, <2>3 DEF ApprovalInv, LogsTrue, Tells, Decided, Exists
    <2>4. CASE v # u
        <3>1. q = r => /\ ReplayedApproval(runLog[v], q) = A!NoRequest
                       /\ ReplayedApproval(stored[v], q) = A!NoRequest
            BY <2>4 DEF ApprovalInv, LogsTrue, Tells
        <3>2. QED BY <1>1, <1>5, <2>1, <2>4, <3>1 DEF ApprovalInv, LogsTrue, Tells, Decided, Exists
    <2>5. QED BY <2>2, <2>3, <2>4
<1>7. RequestsTrue'
    BY <1>1, <1>2, <1>4, <1>5 DEF ApprovalInv, RequestsTrue, Decided, Exists, A!Has
<1>8. DecidedOnce'
    BY <1>1, <1>3 DEF ApprovalInv, DecidedOnce, Exists
<1>9. SentApproved'
    BY <1>1 DEF ApprovalInv, SentApproved, Sent
<1>10. QED BY <1>6, <1>7, <1>8, <1>9 DEF ApprovalInv

\* Operators' calls.
LEMMA OperateKeepsApprovals == TypeInv /\ ApprovalInv /\ Operate => ApprovalInv'
<1> SUFFICES ASSUME TypeInv, ApprovalInv, Operate PROVE ApprovalInv'
    OBVIOUS
<1>1. ASSUME NEW r \in Recs, NEW t \in Recs, ApproveRecommendation(r, t) PROVE ApprovalInv'
    <2>1. /\ Exists(r) /\ A!Has(r) /\ requests[r].status = "PENDING"
          /\ requests' = [requests EXCEPT ![r] = A!Moved(r, "APPROVED")] /\ UNCHANGED issued
          /\ RecordDecision(r, "APPROVAL_GRANTED")
          /\ granted' = granted \cup {r} /\ rejected' = rejected
        BY <1>1 DEF ApproveRecommendation, Known, A!Approve, A!MayDecide, A!PendingFor
    <2>2. "APPROVAL_GRANTED" \in ApprovalEvents
        BY DEF ApprovalEvents
    <2>3. QED BY <2>1, <2>2, DecisionTrue
<1>2. ASSUME NEW r \in Recs, NEW t \in Recs, RejectRecommendation(r, t) PROVE ApprovalInv'
    <2>1. /\ Exists(r) /\ A!Has(r) /\ requests[r].status = "PENDING"
          /\ requests' = [requests EXCEPT ![r] = A!Moved(r, "REJECTED")] /\ UNCHANGED issued
          /\ RecordDecision(r, "APPROVAL_REJECTED")
          /\ rejected' = rejected \cup {r} /\ granted' = granted
        BY <1>2 DEF RejectRecommendation, Known, A!Reject, A!MayDecide, A!PendingFor
    <2>2. "APPROVAL_REJECTED" \in ApprovalEvents
        BY DEF ApprovalEvents
    <2>3. QED BY <2>1, <2>2, DecisionTrue
<1>3. ASSUME NEW r \in Recs, ExpireApproval(r) PROVE ApprovalInv'
    <2>1. /\ A!Has(r) /\ requests[r].status = "PENDING"
          /\ requests' = [requests EXCEPT ![r] = A!Moved(r, "EXPIRED")] /\ UNCHANGED issued
        BY <1>3 DEF ExpireApproval, A!Read, A!ReadExpires, A!DecideLate, A!DecidesTooLate, A!PendingFor
    <2>2. UNCHANGED <<info, runLog, stored, wire, ledger, granted, rejected>>
        BY <1>3 DEF ExpireApproval, broker, history
    <2>3. RequestsTrue'
        BY <2>1, <2>2, MovedRequestsTrue DEF A!Statuses
    <2>4. QED BY <2>1, <2>2, <2>3, SameLogsAlike, QuietStep DEF Sent
<1>4. CASE ClearHistory
    <2>1. /\ \A r \in Recs : requests'[r] = A!NoRequest
          /\ UNCHANGED <<issued, info, wire, ledger, granted, rejected>>
        BY <1>4 DEF ClearHistory, A!Clear, broker, history
    <2>2. RequestsTrue'
        BY <2>1 DEF RequestsTrue, A!Has
    <2>3. QED BY <1>4, <2>1, <2>2, ClearAlike, QuietStep DEF Sent
<1>5. QED BY <1>1, <1>2, <1>3, <1>4 DEF Operate

\* What consuming leaves true, and what the order it lets out was: approved.
LEMMA ConsumeTrue ==
    ASSUME TypeInv, ApprovalInv, NEW r \in Recs, NEW t, A!Consume(r, t),
           UNCHANGED <<info, granted, rejected>>
    PROVE  RequestsTrue' /\ UNCHANGED issued /\ r \in granted
<1>1. /\ A!Has(r) /\ requests[r].status = "APPROVED" /\ UNCHANGED issued
      /\ requests' = [requests EXCEPT ![r] = A!Moved(r, "CONSUMED")]
    BY DEF A!Consume, A!MayConsume
<1>2. RequestsTrue'
    BY <1>1, MovedRequestsTrue DEF A!Statuses
<1>3. r \in granted
    BY <1>1 DEF ApprovalInv, RequestsTrue, Decided
<1>4. QED BY <1>1, <1>2, <1>3

\* Submissions: an order is sent only on a token that is APPROVED.
LEMMA TradeKeepsApprovals == TypeInv /\ ApprovalInv /\ Trade => ApprovalInv'
<1> SUFFICES ASSUME TypeInv, ApprovalInv, NEW s \in Submissions,
                    \/ \E r \in Recs, b \in Brokers, t \in Recs \cup {NoRec} : Submit(s, r, b, t)
                    \/ Proceed(s)
             PROVE  ApprovalInv'
    BY DEF Trade
<1>1. ASSUME NEW r \in Recs, NEW b \in Brokers, NEW t \in Recs \cup {NoRec}, Submit(s, r, b, t)
      PROVE  ApprovalInv'
    BY <1>1, SubmitAlike, SameRequestsTrue, QuietStep DEF Submit, approvals, broker, history, Sent
<1>2. ASSUME NEW outcome \in Outcomes, InFlight(s), RecordOutcome(s, outcome), UNCHANGED <<approvals, wire, ledger>>
      PROVE  ApprovalInv'
    <2>1. UNCHANGED <<requests, issued, info, granted, rejected, wire, ledger>>
        BY <1>2 DEF RecordOutcome, approvals, history
    <2>2. QED BY <1>2, <2>1, OutcomeAlike, SameRequestsTrue, QuietStep DEF Sent
<1>3. CASE Refuse(s)
    BY <1>2, <1>3 DEF Refuse, InFlight, Outcomes, broker
<1>4. CASE PaperFills(s)
    BY <1>2, <1>4 DEF PaperFills, InFlight, Outcomes
<1>5. CASE LiveAccepted(s)
    BY <1>2, <1>5 DEF LiveAccepted, InFlight, Outcomes, broker
<1>6. CASE LiveFailed(s)
    BY <1>2, <1>6 DEF LiveFailed, InFlight, Outcomes, broker
<1>7. ASSUME Raise(s) PROVE ApprovalInv'
    BY <1>7, SameLogsAlike, SameRequestsTrue, QuietStep DEF Raise, approvals, broker, history, Sent
<1>8. CASE SendPaper(s)
    BY <1>8, SameLogsAlike, SameRequestsTrue, QuietStep DEF SendPaper, approvals, broker, history, Sent
<1>9. CASE RefusedByClient(s)
    <2>1. sub[s].rec \in Recs /\ InFlight(s)
        BY <1>9, HeldBySubmission DEF RefusedByClient, InFlight
    <2>2. /\ UNCHANGED <<info, granted, rejected, wire, ledger>>
          /\ RecordOutcome(s, "REJECTED") /\ A!Consume(sub[s].rec, sub[s].token)
        BY <1>9 DEF RefusedByClient, RecordOutcome, history, broker
    <2>3. QED BY <2>1, <2>2, ConsumeTrue, OutcomeAlike, QuietStep DEF Outcomes, Sent
<1>10. CASE SendLive(s)
    <2>1. sub[s].rec \in Recs
        BY <1>10, HeldBySubmission DEF SendLive, InFlight
    <2>2. /\ UNCHANGED <<info, granted, rejected, ledger, runLog, stored>>
          /\ A!Consume(sub[s].rec, sub[s].token) /\ ~ info[sub[s].rec].hold
          /\ wire' = wire \cup {OrderOf(s)}
        BY <1>10 DEF SendLive, Blocked, BlockedByAction, history
    <2>3. RequestsTrue' /\ UNCHANGED issued /\ sub[s].rec \in granted
        BY <2>1, <2>2, ConsumeTrue
    <2>4. \A o \in Sent' : o \in Sent \/ (o.rec \in granted /\ ~ info[o.rec].hold)
        BY <2>2, <2>3 DEF Sent, OrderOf
    <2>5. QED BY <2>2, <2>3, <2>4, SameLogsAlike, QuietStep
<1>11. QED
    BY <1>1, <1>3, <1>4, <1>5, <1>6, <1>7, <1>8, <1>9, <1>10
    DEF Proceed, RaiseBeforeBroker, RaiseAtBroker

\* The broker, the clock, and restarts: a start replays true logs.
LEMMA EnvironmentKeepsApprovals == TypeInv /\ ApprovalInv /\ Environment => ApprovalInv'
<1> SUFFICES ASSUME TypeInv, ApprovalInv, Environment PROVE ApprovalInv'
    OBVIOUS
<1>1. ASSUME NEW o \in wire, BrokerTakes(o) \/ BrokerDrops(o) PROVE ApprovalInv'
    <2>1. UNCHANGED <<requests, issued, info, runLog, stored, granted, rejected>>
        BY <1>1 DEF BrokerTakes, BrokerDrops, BrokerUnchanged, approvals, history
    <2>2. Sent' \subseteq Sent
        BY <1>1 DEF BrokerTakes, BrokerDrops, Sent
    <2>3. QED BY <2>1, <2>2, SameLogsAlike, SameRequestsTrue, QuietStep
<1>2. CASE Tick
    BY <1>2, SameLogsAlike, SameRequestsTrue, QuietStep DEF Tick, A!Tick, broker, history, Sent
<1>3. CASE Crash
    <2>1. /\ UNCHANGED <<issued, info, wire, ledger, granted, rejected>>
          /\ \A r \in Recs : requests'[r] # A!NoRequest =>
                 /\ Exists(r)
                 /\ requests'[r] = ReplayedApproval(stored[info[r].run], r)
        BY <1>3 DEF Crash, Bootstrap, Loaded, history
    <2>2. \A r \in Recs : Exists(r) => info[r].run \in Runs
        BY RunOf DEF TypeInv
    <2>3. RequestsTrue'
        BY <2>1, <2>2 DEF ApprovalInv, LogsTrue, Tells, RequestsTrue, Decided, Exists, A!Has
    <2>4. QED BY <1>3, <2>1, <2>3, CrashAlike, QuietStep DEF Sent
<1>4. QED BY <1>1, <1>2, <1>3 DEF Environment

\* ApprovalInv holds in every reachable state.
LEMMA ApprovalInvariant == Spec => [](TypeInv /\ ApprovalInv)
<1>1. Init => ApprovalInv
    <2> SUFFICES ASSUME Init PROVE ApprovalInv
        OBVIOUS
    <2>1. \A u \in Runs, r \in Recs : /\ ReplayedApproval(runLog[u], r) = A!NoRequest
                                      /\ ReplayedApproval(stored[u], r) = A!NoRequest
        BY ReplayNothing DEF Init
    <2>2. LogsTrue
        BY <2>1 DEF LogsTrue, Tells
    <2>3. RequestsTrue /\ DecidedOnce /\ SentApproved
        BY DEF Init, A!Init, RequestsTrue, A!Has, DecidedOnce, Exists, SentApproved, Sent
    <2>4. QED BY <2>2, <2>3 DEF ApprovalInv
<1>2. TypeInv /\ ApprovalInv /\ [Next]_vars => ApprovalInv'
    <2>1. TypeInv /\ ApprovalInv /\ UNCHANGED vars => ApprovalInv'
        BY SameLogsAlike, SameRequestsTrue, QuietStep DEF vars, approvals, broker, history, Sent
    <2>2. QED
        BY <2>1, AnalyseKeepsApprovals, OperateKeepsApprovals, TradeKeepsApprovals,
           EnvironmentKeepsApprovals DEF Next
<1>3. QED BY <1>1, <1>2, TypeInvariant, PTL DEF Spec

\* A live order is never one of a HOLD recommendation, and an operator (or a
\* simulated run) approved it and none rejected it, whatever crashed in between.
THEOREM OrdersAreApproved == Spec => []LiveOrderApproved
<1>1. ApprovalInv => LiveOrderApproved
    BY DEF ApprovalInv, SentApproved, DecidedOnce, LiveOrderApproved
<1>2. QED BY <1>1, ApprovalInvariant, PTL

\* Decisions are neither forgotten nor reversed while the request is there at all.
THEOREM DecisionsAreKept == Spec => []DecisionsSurvive
<1>1. ApprovalInv => DecisionsSurvive
    BY DEF ApprovalInv, RequestsTrue, Decided, DecisionsSurvive
<1>2. QED BY <1>1, ApprovalInvariant, PTL

-----------------------------------------------------------------------------
(***************************************************************************)
(* Tokens within a process                                                 *)
(***************************************************************************)
TokenInv == TokensSpent /\ TokenUsedOncePerProcess

\* No step of a process other than a consume touches a spent request, except to
\* drop the whole table.
Spent(a) == a = A!NoRequest \/ a.status = "CONSUMED"

\* A step that sends nothing and revives no spent token keeps TokenInv.
LEMMA TokensKept ==
    ASSUME TokenInv, Sent' \subseteq Sent, UNCHANGED boot,
           \A o \in Sent : Spent(requests[o.rec]) => Spent(requests'[o.rec])
    PROVE  TokenInv'
    BY DEF TokenInv, TokensSpent, TokenUsedOncePerProcess, Spent

\* A request that moves from PENDING or APPROVED was not spent by this process.
LEMMA MovedKeepsSpent ==
    ASSUME TypeInv, NEW r \in Recs, A!Has(r), requests[r].status # "CONSUMED", NEW a,
           requests' = [requests EXCEPT ![r] = a], NEW o \in Sent, Spent(requests[o.rec])
    PROVE  Spent(requests'[o.rec])
<1>1. o.rec \in Recs /\ requests \in [Recs -> A!Request \cup {A!NoRequest}]
    BY DEF TypeInv, TypeOK, A!TypeOK, Sent, Order
<1>2. o.rec # r
    BY DEF Spent, A!Has
<1>3. QED BY <1>1, <1>2

\* A live order spends the token its process had not spent before.
LEMMA SentSpent ==
    ASSUME TypeInv, TokenInv, NEW s \in Submissions, SendLive(s)
    PROVE  TokenInv'
<1> DEFINE r == sub[s].rec
           new == OrderOf(s)
<1>1. r \in Recs
    BY HeldBySubmission DEF SendLive, InFlight
<1>2. /\ A!Has(r) /\ requests[r].status = "APPROVED"
      /\ requests' = [requests EXCEPT ![r] = A!Moved(r, "CONSUMED")]
      /\ Sent' = Sent \cup {new} /\ UNCHANGED boot
      /\ new.rec = r /\ new.boot = boot
    BY DEF SendLive, A!Consume, A!MayConsume, Sent, OrderOf
<1> HIDE DEF new
<1>3. \A o \in Sent : o.boot = boot => o.rec # r
    BY <1>2 DEF TokenInv, TokensSpent, A!Has
<1>4. /\ boot \in Nat /\ requests \in [Recs -> A!Request \cup {A!NoRequest}]
      /\ \A o \in Sent : o.rec \in Recs /\ o.boot \in Nat
    BY DEF TypeInv, TypeOK, A!TypeOK, Sent, Order
<1>5. requests'[r].status = "CONSUMED" /\ \A q \in Recs \ {r} : requests'[q] = requests[q]
    <2>1. requests[r] \in A!Request
        BY <1>1, <1>2, <1>4 DEF A!Has
    <2>2. A!Moved(r, "CONSUMED").status = "CONSUMED"
        BY <2>1 DEF A!Moved, A!Request
    <2>3. QED BY <1>1, <1>2, <1>4, <2>2
<1>6. TokensSpent'
    BY <1>2, <1>3, <1>4, <1>5 DEF TokenInv, TokensSpent
<1>7. TokenUsedOncePerProcess'
    BY <1>2, <1>3 DEF TokenInv, TokenUsedOncePerProcess
<1>8. QED BY <1>6, <1>7 DEF TokenInv

\* Analyses: only fresh recommendations get a request, and no order is of those.
LEMMA AnalyseKeepsTokens == TypeInv /\ ApprovalInv /\ TokenInv /\ Analyse => TokenInv'
<1> SUFFICES ASSUME TypeInv, ApprovalInv, TokenInv, Analyse PROVE TokenInv'
    OBVIOUS
<1>1. ASSUME NEW u \in Runs, StartAnalysis(u) \/ FinishAnalysis(u) PROVE TokenInv'
    BY <1>1, TokensKept DEF StartAnalysis, FinishAnalysis, approvals, broker, Sent
<1>2. ASSUME NEW u \in Runs, NEW r \in Recs, AnalyseRecommendation(u, r) PROVE TokenInv'
    <2>1. PICK a : requests' = [requests EXCEPT ![r] = a]
        BY <1>2 DEF AnalyseRecommendation
    <2>2. r \notin issued /\ UNCHANGED <<wire, ledger, boot>>
        BY <1>2 DEF AnalyseRecommendation, broker
    <2>3. \A o \in Sent : o.rec # r /\ o.rec \in Recs
        BY <2>2 DEF ApprovalInv, SentApproved, DecidedOnce, TypeInv, TypeOK, Sent, Order
    <2>4. requests \in [Recs -> A!Request \cup {A!NoRequest}]
        BY DEF TypeInv, TypeOK, A!TypeOK
    <2>5. \A o \in Sent : requests'[o.rec] = requests[o.rec]
        BY <2>1, <2>3, <2>4
    <2>6. QED BY <2>2, <2>5, TokensKept DEF Sent
<1>3. QED BY <1>1, <1>2 DEF Analyse

\* Operators' calls touch PENDING requests only, or forget all.
LEMMA OperateKeepsTokens == TypeInv /\ TokenInv /\ Operate => TokenInv'
<1> SUFFICES ASSUME TypeInv, TokenInv, Operate PROVE TokenInv'
    OBVIOUS
<1>1. ASSUME NEW r \in Recs, A!Has(r), requests[r].status = "PENDING", NEW a,
             requests' = [requests EXCEPT ![r] = a], UNCHANGED <<wire, ledger, boot>>
      PROVE  TokenInv'
    BY <1>1, MovedKeepsSpent, TokensKept DEF Sent
<1>2. ASSUME NEW r \in Recs, NEW t \in Recs,
             ApproveRecommendation(r, t) \/ RejectRecommendation(r, t)
      PROVE  TokenInv'
    <2>1. A!Has(r) /\ requests[r].status = "PENDING" /\ UNCHANGED <<wire, ledger, boot>>
        BY <1>2 DEF ApproveRecommendation, RejectRecommendation, A!Approve, A!Reject, A!MayDecide,
                    A!PendingFor, RecordDecision, broker
    <2>2. PICK a : requests' = [requests EXCEPT ![r] = a]
        BY <1>2 DEF ApproveRecommendation, RejectRecommendation, A!Approve, A!Reject
    <2>3. QED BY <1>1, <2>1, <2>2
<1>3. ASSUME NEW r \in Recs, ExpireApproval(r) PROVE TokenInv'
    <2>1. /\ A!Has(r) /\ requests[r].status = "PENDING" /\ UNCHANGED <<wire, ledger, boot>>
          /\ requests' = [requests EXCEPT ![r] = A!Moved(r, "EXPIRED")]
        BY <1>3 DEF ExpireApproval, A!Read, A!ReadExpires, A!DecideLate, A!DecidesTooLate, A!PendingFor, broker
    <2>2. QED BY <1>1, <2>1
<1>4. CASE ClearHistory
    <2>1. \A r \in Recs : requests'[r] = A!NoRequest
        BY <1>4 DEF ClearHistory, A!Clear
    <2>2. \A o \in Sent : o.rec \in Recs
        BY DEF TypeInv, TypeOK, Sent, Order
    <2>3. QED BY <1>4, <2>1, <2>2, TokensKept DEF ClearHistory, broker, Sent, Spent
<1>5. QED BY <1>2, <1>3, <1>4 DEF Operate

\* Submissions.
LEMMA TradeKeepsTokens == TypeInv /\ TokenInv /\ Trade => TokenInv'
<1> SUFFICES ASSUME TypeInv, TokenInv, NEW s \in Submissions,
                    \/ \E r \in Recs, b \in Brokers, t \in Recs \cup {NoRec} : Submit(s, r, b, t)
                    \/ Proceed(s)
             PROVE  TokenInv'
    BY DEF Trade
<1>1. ASSUME UNCHANGED <<requests, wire, ledger, boot>> PROVE TokenInv'
    BY <1>1, TokensKept DEF Sent
<1>2. ASSUME NEW r \in Recs, NEW b \in Brokers, NEW t \in Recs \cup {NoRec}, Submit(s, r, b, t)
      PROVE  TokenInv'
    BY <1>1, <1>2 DEF Submit, approvals, broker
<1>3. CASE Refuse(s) \/ PaperFills(s) \/ LiveAccepted(s) \/ LiveFailed(s)
    BY <1>1, <1>3 DEF Refuse, PaperFills, LiveAccepted, LiveFailed, RecordOutcome, approvals, broker
<1>4. CASE RaiseBeforeBroker(s) \/ RaiseAtBroker(s) \/ SendPaper(s)
    BY <1>1, <1>4 DEF RaiseBeforeBroker, RaiseAtBroker, Raise, SendPaper, approvals, broker
<1>5. CASE RefusedByClient(s)
    <2>1. sub[s].rec \in Recs
        BY <1>5, HeldBySubmission DEF RefusedByClient, InFlight
    <2>2. /\ A!Has(sub[s].rec) /\ requests[sub[s].rec].status = "APPROVED"
          /\ requests' = [requests EXCEPT ![sub[s].rec] = A!Moved(sub[s].rec, "CONSUMED")]
          /\ UNCHANGED <<wire, ledger, boot>>
        BY <1>5 DEF RefusedByClient, A!Consume, A!MayConsume, RecordOutcome, broker
    <2>3. QED BY <2>1, <2>2, MovedKeepsSpent, TokensKept DEF Sent
<1>6. CASE SendLive(s)
    BY <1>6, SentSpent
<1>7. QED BY <1>2, <1>3, <1>4, <1>5, <1>6 DEF Proceed

\* The broker, the clock, and restarts.
LEMMA EnvironmentKeepsTokens == TypeInv /\ TokenInv /\ Environment => TokenInv'
<1> SUFFICES ASSUME TypeInv, TokenInv, Environment PROVE TokenInv'
    OBVIOUS
<1>1. ASSUME NEW o \in wire, BrokerTakes(o) \/ BrokerDrops(o) PROVE TokenInv'
    <2>1. Sent' \subseteq Sent
        BY <1>1 DEF BrokerTakes, BrokerDrops, Sent
    <2>2. QED
        BY <1>1, <2>1, TokensKept DEF BrokerTakes, BrokerDrops, BrokerUnchanged, approvals
<1>2. CASE Tick
    BY <1>2, TokensKept DEF Tick, A!Tick, broker, Sent
\* Every order sent so far belongs to an earlier process than the new one.
<1>3. CASE Crash
    <2>1. boot \in Nat /\ \A o \in Sent : o.boot \in Nat
        BY DEF TypeInv, TypeOK, Sent, Order
    <2>2. Sent' = Sent /\ boot' = boot + 1
        BY <1>3 DEF Crash, Sent
    <2>3. QED BY <2>1, <2>2 DEF TokenInv, TokensSpent, TokenUsedOncePerProcess
<1>4. QED BY <1>1, <1>2, <1>3 DEF Environment

\* However submissions interleave, one of them at most spends a token in the life
\* of a process.
THEOREM OneOrderPerToken == Spec => []TokenUsedOncePerProcess
<1>1. Init => TokenInv
    BY DEF Init, TokenInv, TokensSpent, TokenUsedOncePerProcess, Sent
<1>2. TypeInv /\ ApprovalInv /\ TokenInv /\ [Next]_vars => TokenInv'
    <2>1. TypeInv /\ TokenInv /\ UNCHANGED vars => TokenInv'
        BY TokensKept DEF vars, approvals, broker, Sent
    <2>2. QED
        BY <2>1, AnalyseKeepsTokens, OperateKeepsTokens, TradeKeepsTokens, EnvironmentKeepsTokens DEF Next
<1>3. TokenInv => TokenUsedOncePerProcess
    BY DEF TokenInv
<1>4. QED BY <1>1, <1>2, <1>3, ApprovalInvariant, PTL DEF Spec

-----------------------------------------------------------------------------
(***************************************************************************)
(* The approval service inside the runtime                                 *)
(***************************************************************************)
\* A simulated analysis requests an approval and grants it without a suspension
\* between: RequestApproval and Approve of Approvals in one step.
RequestedAndApproved(r) ==
    /\ simulated # {}
    /\ r \notin issued
    /\ requests' = [requests EXCEPT ![r] = [A!NewRequest EXCEPT !.status = "APPROVED"]]
    /\ issued' = issued \cup {r}
    /\ UNCHANGED now

\* What the runtime does to the approval service is what the service offers.
ServiceStep == A!Next \/ (\E r \in Recs : RequestedAndApproved(r)) \/ UNCHANGED approvals

\* Orders consume by the recommendation they hold; every other step of a submission
\* leaves the service alone.
LEMMA TradeUsesService == TypeInv /\ Trade => ServiceStep
<1> SUFFICES ASSUME TypeInv, NEW s \in Submissions,
                    \/ \E r \in Recs, b \in Brokers, t \in Recs \cup {NoRec} : Submit(s, r, b, t)
                    \/ Proceed(s)
             PROVE  ServiceStep
    BY DEF Trade
<1>1. ASSUME SendLive(s) \/ RefusedByClient(s) PROVE A!Next
    <2>1. sub[s].rec \in Recs
        BY <1>1, HeldBySubmission DEF SendLive, RefusedByClient, InFlight
    <2>2. A!Consume(sub[s].rec, sub[s].token) /\ sub[s].token = sub[s].rec
        BY <1>1 DEF SendLive, RefusedByClient, A!Consume, A!MayConsume
    <2>3. QED BY <2>1, <2>2 DEF A!Next
<1>2. ASSUME ~ (SendLive(s) \/ RefusedByClient(s)) PROVE UNCHANGED approvals
    BY <1>2 DEF Submit, Proceed, Refuse, RaiseBeforeBroker, RaiseAtBroker, Raise, SendPaper,
                PaperFills, LiveAccepted, LiveFailed
<1>3. QED BY <1>1, <1>2 DEF ServiceStep

\* Every step but a start is one of the approval service, or none of its business.
LEMMA StepUsesService == TypeInv /\ [Next]_vars => ServiceStep \/ Crash
<1> SUFFICES ASSUME TypeInv, [Next]_vars PROVE ServiceStep \/ Crash
    OBVIOUS
<1>1. CASE Analyse
    <2>1. ASSUME NEW u \in Runs, StartAnalysis(u) \/ FinishAnalysis(u) PROVE ServiceStep
        BY <2>1 DEF StartAnalysis, FinishAnalysis, ServiceStep
    <2>2. ASSUME NEW u \in Runs, NEW r \in Recs, AnalyseRecommendation(u, r) PROVE ServiceStep
        <3>1. A!RequestApproval(r) \/ RequestedAndApproved(r)
            BY <2>2 DEF AnalyseRecommendation, A!RequestApproval, RequestedAndApproved
        <3>2. QED BY <3>1 DEF ServiceStep, A!Next
    <2>3. QED BY <1>1, <2>1, <2>2 DEF Analyse
<1>2. CASE Operate
    <2>1. ASSUME NEW r \in Recs, NEW t \in Recs,
                 ApproveRecommendation(r, t) \/ RejectRecommendation(r, t)
          PROVE  A!Next
        BY <2>1 DEF ApproveRecommendation, RejectRecommendation, A!Next
    <2>2. ASSUME NEW r \in Recs, ExpireApproval(r) PROVE A!Next
        BY <2>2 DEF ExpireApproval, A!Next
    <2>3. ASSUME ClearHistory PROVE A!Next
        BY <2>3 DEF ClearHistory, A!Next
    <2>4. QED BY <1>2, <2>1, <2>2, <2>3 DEF Operate, ServiceStep
<1>3. CASE Trade
    BY <1>3, TradeUsesService
<1>4. CASE Environment
    <2>1. ASSUME NEW o \in wire, BrokerTakes(o) \/ BrokerDrops(o) PROVE ServiceStep
        BY <2>1 DEF BrokerTakes, BrokerDrops, BrokerUnchanged, ServiceStep
    <2>2. ASSUME Tick PROVE ServiceStep
        BY <2>2 DEF Tick, A!Next, ServiceStep
    <2>3. QED BY <1>4, <2>1, <2>2 DEF Environment
<1>5. CASE UNCHANGED vars
    BY <1>5 DEF vars, ServiceStep
<1>6. QED BY <1>1, <1>2, <1>3, <1>4, <1>5 DEF Next

\* Within a process the runtime uses the approval service as Approvals specifies
\* it: no step of an analysis, a decision, an order or a clear goes past it.
THEOREM RuntimeUsesApprovals ==
    Spec => [][boot' = boot => A!Next \/ \E r \in Recs : RequestedAndApproved(r)]_approvals
<1>1. TypeInv /\ [Next]_vars =>
          [boot' = boot => A!Next \/ \E r \in Recs : RequestedAndApproved(r)]_approvals
    <2>1. TypeInv /\ Crash => boot' # boot
        BY DEF TypeInv, TypeOK, Crash
    <2>2. QED BY <2>1, StepUsesService DEF ServiceStep
<1>2. QED BY <1>1, TypeInvariant, PTL DEF Spec

\* Refinement: as long as the process lives and no run is simulated, the runtime
\* is an approval service, and so (ApprovalsProofs) follows the documented lifecycle.
THEOREM RuntimeImplementsApprovals == Spec /\ [](boot = 1 /\ simulated = {}) => A!Spec
<1>1. Init => A!Init
    BY DEF Init
<1>2. /\ TypeInv /\ [Next]_vars
      /\ boot = 1 /\ simulated = {} /\ (boot = 1 /\ simulated = {})'
      => [A!Next]_approvals
    <2>1. Crash => boot' = boot + 1
        BY DEF Crash
    <2>2. QED BY <2>1, StepUsesService DEF ServiceStep, RequestedAndApproved
<1>3. QED BY <1>1, <1>2, TypeInvariant, PTL DEF Spec, A!Spec, A!vars, approvals

-----------------------------------------------------------------------------
\* A request, wherever it is found, was made for the deadline d.
Due(a, d) == a # A!NoRequest => a.expiresAt = d

\* The table, the run objects and the rows give r one deadline.
AllDue(r, d) == /\ Due(requests[r], d)
                /\ \A u \in Runs : /\ Due(ReplayedApproval(runLog[u], r), d)
                                  /\ Due(ReplayedApproval(stored[u], r), d)

\* The strengthening: whatever was ever requested has one deadline.
DeadlineInv == \A r \in issued : \E d \in Nat : AllDue(r, d)

\* A step that adds no approval event keeps a deadline which the table keeps.
LEMMA AlikeKeepsDue ==
    ASSUME Alike, NEW r \in Recs, NEW d, AllDue(r, d), Due(requests'[r], d)
    PROVE  AllDue(r, d)'
    BY DEF Alike, AllDue, Due

\* Another status is no other deadline.
LEMMA MovedDue ==
    ASSUME TypeInv, NEW r \in Recs, A!Has(r), NEW st,
           requests' = [requests EXCEPT ![r] = A!Moved(r, st)], NEW q \in Recs, NEW d, Due(requests[q], d)
    PROVE  Due(requests'[q], d)
<1>1. requests \in [Recs -> A!Request \cup {A!NoRequest}]
    BY DEF TypeInv, TypeOK, A!TypeOK
<1>2. A!Moved(r, st).expiresAt = requests[r].expiresAt
    BY <1>1 DEF A!Moved, A!Has, A!Request
<1>3. QED BY <1>1, <1>2 DEF Due, A!Has

\* What the service leaves in the table keeps its deadline.
LEMMA ServiceKeepsDue ==
    ASSUME TypeInv, A!Next, UNCHANGED issued, NEW q \in Recs, NEW d, Due(requests[q], d)
    PROVE  Due(requests'[q], d)
<1>1. ASSUME NEW r \in Recs PROVE ~ A!RequestApproval(r)
    BY <1>1 DEF A!RequestApproval
<1>2. ASSUME NEW r \in Recs, NEW t \in Recs,
             A!Read(r) \/ A!Approve(r, t) \/ A!Reject(r, t) \/ A!DecideLate(r, t) \/ A!Consume(r, t)
      PROVE  Due(requests'[q], d)
    <2>1. /\ A!Has(r)
          /\ \E st \in A!Statuses : requests' = [requests EXCEPT ![r] = A!Moved(r, st)]
        BY <1>2 DEF A!Read, A!ReadExpires, A!Approve, A!Reject, A!MayDecide, A!DecideLate,
                    A!DecidesTooLate, A!PendingFor, A!Consume, A!MayConsume, A!Statuses
    <2>2. QED BY <2>1, MovedDue
<1>3. CASE A!Clear
    BY <1>3 DEF A!Clear, Due
<1>4. CASE A!Tick
    BY <1>4 DEF A!Tick
<1>5. QED BY <1>1, <1>2, <1>3, <1>4 DEF A!Next

\* Analyses: of another recommendation than q.
LEMMA AnalyseKeepsDue ==
    ASSUME TypeInv, Analyse, NEW q \in Recs, q \in issued, NEW d, AllDue(q, d)
    PROVE  AllDue(q, d)'
<1>1. ASSUME NEW u \in Runs, StartAnalysis(u) \/ FinishAnalysis(u) PROVE AllDue(q, d)'
    <2>1. requests' = requests
        BY <1>1 DEF StartAnalysis, FinishAnalysis, approvals
    <2>2. QED BY <1>1, <2>1, StartAlike, FinishAlike, AlikeKeepsDue DEF AllDue
<1>2. ASSUME NEW u \in Runs, NEW r \in Recs, AnalyseRecommendation(u, r) PROVE AllDue(q, d)'
    <2>1. q # r /\ stored' = stored
        BY <1>2 DEF AnalyseRecommendation
    <2>2. /\ requests'[q] = requests[q]
          /\ \A v \in Runs : ReplayedApproval(runLog'[v], q) = ReplayedApproval(runLog[v], q)
        BY <1>2, <2>1, AnalysisReplays
    <2>3. QED BY <2>1, <2>2 DEF AllDue
<1>3. QED BY <1>1, <1>2 DEF Analyse

\* Operators' calls: a decision is logged with the deadline the table had.
LEMMA OperateKeepsDue ==
    ASSUME TypeInv, Operate, NEW q \in Recs, NEW d, AllDue(q, d)
    PROVE  AllDue(q, d)'
<1>1. ASSUME A!Next, UNCHANGED issued PROVE Due(requests'[q], d)
    BY <1>1, ServiceKeepsDue DEF AllDue
<1>2. ASSUME NEW r \in Recs, NEW t \in Recs, NEW type \in ApprovalEvents, Known(r),
             A!Approve(r, t) \/ A!Reject(r, t), RecordDecision(r, type)
      PROVE  AllDue(q, d)'
    <2>1. Due(requests'[q], d)
        BY <1>1, <1>2 DEF A!Next, A!Approve, A!Reject
    <2>2. requests'[r] \in A!Request
        <3>1. \E st \in A!Statuses : requests' = [requests EXCEPT ![r] = A!Moved(r, st)]
            BY <1>2 DEF A!Approve, A!Reject, A!Statuses
        <3>2. A!Has(r)
            BY <1>2 DEF A!Approve, A!Reject, A!MayDecide, A!PendingFor
        <3>3. requests \in [Recs -> A!Request \cup {A!NoRequest}] /\ A!TypeOK
            BY DEF TypeInv, TypeOK, A!TypeOK
        <3>4. QED BY <3>1, <3>2, <3>3, MovedType
    <2>3. \A v \in Runs :
              IF v # info[r].run
              THEN runLog'[v] = runLog[v] /\ stored'[v] = stored[v]
              ELSE /\ ReplayedApproval(runLog'[v], q) = ReplayedApproval(stored'[v], q)
                   /\ IF q = r
                      THEN ReplayedApproval(stored'[v], q) = requests'[r]
                      ELSE ReplayedApproval(stored'[v], q) \in
                               {ReplayedApproval(runLog[v], q), ReplayedApproval(stored[v], q)}
        BY <1>2, <2>2, DecisionReplays DEF Known
    <2>4. QED BY <2>1, <2>3 DEF AllDue, Due
<1>3. ASSUME NEW r \in Recs, NEW t \in Recs,
             ApproveRecommendation(r, t) \/ RejectRecommendation(r, t)
      PROVE  AllDue(q, d)'
    BY <1>2, <1>3 DEF ApproveRecommendation, RejectRecommendation, ApprovalEvents
<1>4. ASSUME NEW r \in Recs, ExpireApproval(r) PROVE AllDue(q, d)'
    <2>1. A!Next /\ UNCHANGED <<issued, runLog, stored>>
        BY <1>4 DEF ExpireApproval, A!Next, A!Read, A!DecideLate
    <2>2. QED BY <1>1, <2>1, SameLogsAlike, AlikeKeepsDue
<1>5. CASE ClearHistory
    <2>1. A!Next /\ UNCHANGED issued
        BY <1>5 DEF ClearHistory, A!Next, A!Clear
    <2>2. QED BY <1>1, <1>5, <2>1, ClearAlike, AlikeKeepsDue
<1>6. QED BY <1>3, <1>4, <1>5 DEF Operate

\* Submissions log no approval.
LEMMA TradeKeepsDue ==
    ASSUME TypeInv, Trade, NEW q \in Recs, NEW d, AllDue(q, d)
    PROVE  AllDue(q, d)'
<1> SUFFICES ASSUME NEW s \in Submissions,
                    \/ \E r \in Recs, b \in Brokers, t \in Recs \cup {NoRec} : Submit(s, r, b, t)
                    \/ Proceed(s)
             PROVE  Alike /\ UNCHANGED issued
    <2>1. Due(requests[q], d)
        BY DEF AllDue
    <2>2. ASSUME UNCHANGED issued PROVE Due(requests'[q], d)
        <3>1. A!Next \/ UNCHANGED approvals
            BY <2>2, TradeUsesService DEF ServiceStep, RequestedAndApproved
        <3>2. QED BY <2>1, <2>2, <3>1, ServiceKeepsDue DEF approvals
    <2>3. QED BY <2>2, AlikeKeepsDue DEF Trade
<1>1. ASSUME NEW r \in Recs, NEW b \in Brokers, NEW t \in Recs \cup {NoRec}, Submit(s, r, b, t)
      PROVE  Alike /\ UNCHANGED issued
    BY <1>1, SubmitAlike DEF Submit, approvals
<1>2. CASE RaiseBeforeBroker(s) \/ RaiseAtBroker(s) \/ SendPaper(s) \/ SendLive(s)
    BY <1>2, SameLogsAlike DEF RaiseBeforeBroker, RaiseAtBroker, Raise, SendPaper, SendLive,
                               A!Consume, approvals
<1>3. CASE Refuse(s) \/ RefusedByClient(s) \/ PaperFills(s) \/ LiveAccepted(s) \/ LiveFailed(s)
    <2>1. InFlight(s) /\ \E outcome \in Outcomes : RecordOutcome(s, outcome)
        BY <1>3 DEF Refuse, RefusedByClient, PaperFills, LiveAccepted, LiveFailed, InFlight, Outcomes
    <2>2. UNCHANGED issued
        BY <1>3 DEF Refuse, RefusedByClient, PaperFills, LiveAccepted, LiveFailed, A!Consume, approvals
    <2>3. QED BY <2>1, <2>2, OutcomeAlike
<1>4. QED BY <1>1, <1>2, <1>3 DEF Proceed

\* The broker, the clock, and restarts: a start reads deadlines from the rows.
LEMMA EnvironmentKeepsDue ==
    ASSUME TypeInv, Environment, NEW q \in Recs, NEW d, AllDue(q, d)
    PROVE  AllDue(q, d)'
<1>1. ASSUME NEW o \in wire, BrokerTakes(o) \/ BrokerDrops(o) PROVE AllDue(q, d)'
    BY <1>1 DEF BrokerTakes, BrokerDrops, BrokerUnchanged, approvals, AllDue
<1>2. CASE Tick
    BY <1>2 DEF Tick, A!Tick, AllDue
<1>3. CASE Crash
    <2>1. \/ requests'[q] = A!NoRequest
          \/ Exists(q) /\ requests'[q] = ReplayedApproval(stored[info[q].run], q)
        BY <1>3 DEF Crash, Bootstrap, Loaded
    <2>2. Due(requests'[q], d)
        BY <2>1, RunOf DEF TypeInv, AllDue, Due
    <2>3. QED BY <1>3, <2>2, CrashAlike, AlikeKeepsDue
<1>4. QED BY <1>1, <1>2, <1>3 DEF Environment

\* No step gives what was requested another deadline.
LEMMA StepKeepsDue ==
    ASSUME TypeInv, [Next]_vars, NEW q \in Recs, q \in issued, NEW d, AllDue(q, d)
    PROVE  AllDue(q, d)'
<1>1. CASE UNCHANGED vars
    BY <1>1 DEF vars, approvals, AllDue
<1>2. QED
    BY <1>1, AnalyseKeepsDue, OperateKeepsDue, TradeKeepsDue, EnvironmentKeepsDue DEF Next

\* A new request has its deadline; no log spoke of the recommendation before.
LEMMA RequestSetsDue ==
    ASSUME TypeInv, ApprovalInv, NEW u \in Runs, NEW r \in Recs, AnalyseRecommendation(u, r),
           NEW d, d = now + Ttl
    PROVE  AllDue(r, d)'
<1>1. /\ requests'[r].expiresAt = d
      /\ \A v \in Runs : ReplayedApproval(runLog'[v], r) =
             IF v = u THEN requests'[r] ELSE ReplayedApproval(runLog[v], r)
    BY AnalysisReplays
<1>2. r \notin issued /\ stored' = stored
    BY DEF AnalyseRecommendation
<1>3. \A v \in Runs : /\ ReplayedApproval(runLog[v], r) = A!NoRequest
                      /\ ReplayedApproval(stored[v], r) = A!NoRequest
    BY <1>2 DEF ApprovalInv, DecidedOnce, LogsTrue, Tells
<1>4. QED BY <1>1, <1>2, <1>3 DEF AllDue, Due

\* Nothing is issued but by an analysis.
LEMMA StepIssues ==
    ASSUME TypeInv, [Next]_vars, NEW r \in Recs, r \in issued', r \notin issued
    PROVE  \E u \in Runs : AnalyseRecommendation(u, r)
<1>1. CASE Analyse
    BY <1>1 DEF Analyse, StartAnalysis, FinishAnalysis, AnalyseRecommendation, approvals
<1>2. CASE Operate
    BY <1>2 DEF Operate, ApproveRecommendation, RejectRecommendation, ExpireApproval, ClearHistory,
                A!Approve, A!Reject, A!Read, A!DecideLate, A!Clear
<1>3. CASE Trade
    BY <1>3 DEF Trade, Submit, Proceed, Refuse, RaiseBeforeBroker, RaiseAtBroker, Raise, SendPaper,
                SendLive, RefusedByClient, PaperFills, LiveAccepted, LiveFailed, A!Consume, approvals
<1>4. CASE Environment
    BY <1>4 DEF Environment, BrokerTakes, BrokerDrops, BrokerUnchanged, Tick, A!Tick, Crash, approvals
<1>5. CASE UNCHANGED vars
    BY <1>5 DEF vars, approvals
<1>6. QED BY <1>1, <1>2, <1>3, <1>4, <1>5 DEF Next

\* DeadlineInv holds in every reachable state.
LEMMA DeadlineInvariant == Spec => [](TypeInv /\ ApprovalInv /\ DeadlineInv)
<1>1. Init => DeadlineInv
    BY DEF Init, A!Init, DeadlineInv
<1>2. TypeInv /\ ApprovalInv /\ DeadlineInv /\ [Next]_vars => DeadlineInv'
    <2> SUFFICES ASSUME TypeInv, ApprovalInv, DeadlineInv, [Next]_vars, NEW r \in issued'
                 PROVE  \E d \in Nat : AllDue(r, d)'
        BY DEF DeadlineInv
    <2>1. r \in Recs
        BY NextKeepsTypes DEF TypeInv, TypeOK, A!TypeOK
    <2>2. CASE r \in issued
        BY <2>1, <2>2, StepKeepsDue DEF DeadlineInv
    <2>3. CASE r \notin issued
        <3>1. PICK u \in Runs : AnalyseRecommendation(u, r)
            BY <2>1, <2>3, StepIssues
        <3>2. PICK d \in Nat : d = now + Ttl
            BY RuntimeAssumption DEF TypeInv, TypeOK, A!TypeOK
        <3>3. QED BY <2>1, <3>1, <3>2, RequestSetsDue
    <2>4. QED BY <2>2, <2>3
<1>3. QED BY <1>1, <1>2, ApprovalInvariant, PTL DEF Spec

\* A request keeps the deadline it was made with as long as it is there: no read,
\* decision, order or restart, and no row stored by a late task, prolongs it.
THEOREM DeadlinesAreKept ==
    Spec => [][\A r \in Recs : A!Has(r) /\ A!Has(r)' =>
                   requests'[r].expiresAt = requests[r].expiresAt]_approvals
<1>1. TypeInv /\ ApprovalInv /\ DeadlineInv /\ [Next]_vars =>
          [\A r \in Recs : A!Has(r) /\ A!Has(r)' =>
               requests'[r].expiresAt = requests[r].expiresAt]_approvals
    <2> SUFFICES ASSUME TypeInv, ApprovalInv, DeadlineInv, [Next]_vars, NEW r \in Recs,
                        A!Has(r), A!Has(r)'
                 PROVE  requests'[r].expiresAt = requests[r].expiresAt
        OBVIOUS
    <2>1. r \in issued
        BY DEF ApprovalInv, RequestsTrue, DecidedOnce
    <2>2. PICK d \in Nat : AllDue(r, d)
        BY <2>1 DEF DeadlineInv
    <2>3. AllDue(r, d)'
        BY <2>1, <2>2, StepKeepsDue
    <2>4. QED BY <2>2, <2>3 DEF AllDue, Due, A!Has
<1>2. QED BY <1>1, DeadlineInvariant, PTL DEF Spec

\* No request is decided after its deadline, by any step of the runtime: that the
\* service keeps this is not enough, since a start writes the table past it.
THEOREM RuntimeDecidesInTime == Spec => A!DecidedInTime
<1>1. TypeInv /\ ApprovalInv /\ ApprovalInv' /\ [Next]_vars =>
          [\A r \in Recs :
               (requests[r].status = "PENDING" /\ requests'[r].status \in {"APPROVED", "REJECTED"})
                   => now <= requests[r].expiresAt]_approvals
    <2> SUFFICES ASSUME TypeInv, ApprovalInv, ApprovalInv', [Next]_vars, NEW r \in Recs,
                        requests[r].status = "PENDING", requests'[r].status \in {"APPROVED", "REJECTED"}
                 PROVE  now <= requests[r].expiresAt
        OBVIOUS
    <2>1. /\ A!Has(r) /\ A!Has(r)' /\ r \in issued
          /\ now \in Nat /\ requests[r].expiresAt \in Nat
          /\ requests \in [Recs -> A!Request \cup {A!NoRequest}]
        <3>1. A!NoRequest.status = "NONE"
            BY DEF A!NoRequest
        <3>2. A!Has(r) /\ A!Has(r)'
            BY <3>1 DEF A!Has
        <3>3. QED
            BY <3>2 DEF ApprovalInv, RequestsTrue, DecidedOnce, TypeInv, TypeOK, A!TypeOK, A!Has, A!Request
    <2>2. ASSUME NEW q \in Recs, NEW t \in Recs, A!Approve(q, t) \/ A!Reject(q, t)
          PROVE  now <= requests[r].expiresAt
        <3>1. q = r
            BY <2>1, <2>2 DEF A!Approve, A!Reject
        <3>2. QED BY <2>1, <2>2, <3>1 DEF A!Approve, A!Reject, A!MayDecide, A!Overdue
    <2>3. ASSUME NEW q \in Recs, NEW t \in Recs,
                 A!RequestApproval(q) \/ RequestedAndApproved(q) \/ A!Read(q)
                 \/ A!DecideLate(q, t) \/ A!Consume(q, t)
          PROVE  FALSE
        <3>1. CASE A!RequestApproval(q) \/ RequestedAndApproved(q)
            BY <2>1, <3>1 DEF A!RequestApproval, RequestedAndApproved
        <3>2. CASE A!Read(q) \/ A!DecideLate(q, t)
            BY <2>1, <3>2 DEF A!Read, A!DecideLate, A!DecidesTooLate, A!PendingFor, A!ReadExpires, A!Moved,
                              A!Has, A!Request
        <3>3. CASE A!Consume(q, t)
            BY <2>1, <3>3 DEF A!Consume, A!MayConsume, A!Moved, A!Has, A!Request
        <3>4. QED BY <2>3, <3>1, <3>2, <3>3
    <2>4. ~ A!Clear /\ ~ A!Tick /\ ~ UNCHANGED approvals
        BY <2>1 DEF A!Clear, A!Tick, approvals, A!Has
    \* A start takes no decision: the rows tell those that were taken.
    <2>5. ~ Crash
        <3>1. Crash => UNCHANGED <<granted, rejected>>
            BY DEF Crash, history
        <3>2. Decided(requests[r], r) /\ Decided(requests[r], r)'
            BY <2>1 DEF ApprovalInv, RequestsTrue
        <3>3. QED BY <3>1, <3>2 DEF Decided
    <2>6. QED BY <2>2, <2>3, <2>4, <2>5, StepUsesService DEF ServiceStep, A!Next
<1>2. QED BY <1>1, ApprovalInvariant, PTL DEF Spec, A!DecidedInTime, A!vars, approvals
=============================================================================
