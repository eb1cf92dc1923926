------------------------- MODULE InvestmentPlanner -------------------------
(***************************************************************************)
(* InvestmentPlanner.plan and RecommendationCapability.recommend: one loop *)
(* that analyses the symbols of a list one after another, suspended while  *)
(* the market data provider answers, and then ranks what it found.  While  *)
(* it is suspended the operator may clear the history and paper orders may *)
(* fill, so what the loop read at its start can be stale at its end.       *)
(*                                                                         *)
(* Quantities are in thousandths of a unit (a fund's are rounded to three  *)
(* decimals, every other instrument trades whole units); see Signals for   *)
(* the other scales.  A recommendation id is the number of its analysis.   *)
(* The runtime keeps a recommendation, its risk and its approval request   *)
(* together and clears them together: known is their common table.         *)
(***************************************************************************)
EXTENDS RiskPolicies, FiniteSets

CONSTANTS
    AssetClass,      \* AssetClass[s]: the class of the instrument of s
    Markets,         \* Markets[s]: the snapshots a provider may answer with
    OwnVerdicts,     \* what the application's own policies may answer
    Requests,        \* the requests: [kind, budget, symbols]; a ranking's budget is not read
    Wallet,          \* the budget of /invest wallet: no amount, the funds are asked for
    OpeningBalance,  \* of the paper broker, in hundredths
    DefaultBudget,   \* defaults.default_budget of bot.yaml
    AutoBudget,      \* broker_settings.auto_budget_mode of bot.yaml
    FillSizes,       \* quantities of the paper orders filled meanwhile
    MaxRecs,         \* bound on the recommendations ever made
    MaxLots          \* bound on the paper positions

VARIABLES
    known,           \* the recommendations the runtime holds
    made,            \* how many recommendations were ever made
    cleared,         \* how many of them the last clear_history found
    lots,            \* PaperBrokerClient.positions, one per fill
    job,             \* the request in progress
    answer           \* what the last request returned, until the next one

vars == <<known, made, cleared, lots, job, answer, chain>>

\* Prices are amounts, and policies of the application answer verdicts.
ASSUME PlannerAssumption ==
    /\ {MaxCapital, OpeningBalance, DefaultBudget} \subseteq Nat /\ FillSizes \subseteq Nat
    /\ Wallet \notin Nat
    /\ DOMAIN Markets \subseteq STRING
    /\ \A s \in DOMAIN Markets : \A m \in Markets[s] : m.price \in Nat /\ m.closes \in Seq(Nat)
    /\ \A own \in OwnVerdicts : own \in Seq(Verdict)
    /\ \A r \in Requests : /\ r.kind \in {"PLAN", "RANKING"} /\ r.budget \in Nat \cup {Wallet}
                            /\ r.symbols \in Seq(DOMAIN Markets)

Nothing == [kind |-> "NONE"]

Running == job # Nothing
Evaluating == Running /\ job.rec # <<>>
Suspended == ~Evaluating      \* no request, or one waiting for its provider

-----------------------------------------------------------------------------
\* Forms of the operators below with a plausible bug, for the mutants of
\* PROJECT.json.
CashUnclamped(deployed) == OpeningBalance - deployed
LastTakesAll(short, budget) ==
    [i \in DOMAIN short |-> IF i = Len(short) THEN budget ELSE Quotient(budget, Len(short))]
TrimFromTotal(p, total, target) == 10 * Quotient(100 * (total - Quotient(total * target, One)), p.price)
RankScoreFlat(e) == e.rec.confidence - (IF e.decision = "APPROVED" THEN 0 ELSE 1000)
KeepFirstOfSymbol(e) == IF \E k \in known : k.rec.symbol = e.rec.symbol THEN known ELSE known \cup {e}

-----------------------------------------------------------------------------
\* PaperBrokerClient.
Value(p) == Quotient(p.quantity * p.price, 1000)

TotalValue(positions) == SumFunction([i \in DOMAIN positions |-> Value(positions[i])])

CashAfter(deployed) == AtLeast(OpeningBalance - deployed, 0)
AvailableCash == CashAfter(TotalValue(lots))

\* InvestmentCapability.plan: an amount counts as it is, 0 too; only a wallet
\* request is given the available cash.
EffectiveBudget(budget) ==
    IF budget # Wallet THEN budget
    ELSE IF AutoBudget /\ AvailableCash # 0 THEN AvailableCash
    ELSE DefaultBudget

-----------------------------------------------------------------------------
\* _suggest_quantity
SuggestQuantity(budget, price, class) ==
    IF budget <= 0 \/ price <= 0 THEN 0
    ELSE IF class = "MUTUAL_FUND" THEN Quotient(1000 * budget, price)
    ELSE 1000 * (budget \div price)

\* _position_index: of several lots of one symbol the last one counts.
IndexedValue(positions, symbol) ==
    LET mine == {i \in DOMAIN positions : positions[i].symbol = symbol}
    IN  IF mine = {} THEN 0
        ELSE Value(positions[CHOOSE i \in mine : \A j \in mine : j <= i])

Weight(value, total) == IF total > 0 THEN (value * One) \div total ELSE 0

Fits(e, budget) ==
    /\ e.rec.action = "BUY"
    /\ e.decision = "APPROVED"
    /\ SuggestQuantity(budget, e.rec.entry, AssetClass[e.rec.symbol]) > 0

Score(rec, positions) ==
    LET upside == AtLeast(((rec.target - rec.entry) * One) \div rec.entry, 0)
        weight == Weight(IndexedValue(positions, rec.symbol), TotalValue(positions))
    IN  Quotient(75 * rec.confidence + 20 * upside - 25 * AtMost(weight, One \div 2), 100)

\* _candidate_from_recommendation, for an evaluation that Fits.
Candidate(e, positions) ==
    [id |-> e.id, symbol |-> e.rec.symbol, price |-> e.rec.entry,
     score |-> Score(e.rec, positions)]

\* A stable sort of the items at some indexes, the highest key first.
Ranked(items, key) ==
    LET before(i, j) == key[i] > key[j] \/ (key[i] = key[j] /\ i < j)
        place(i) == 1 + Cardinality({j \in DOMAIN items : before(j, i)})
    IN  [k \in 1..Cardinality(DOMAIN items) |->
           items[CHOOSE i \in DOMAIN items : place(i) = k]]

Candidates(found, budget, positions) ==
    LET all == [i \in {i \in DOMAIN found : Fits(found[i], budget)} |->
                  Candidate(found[i], positions)]
    IN  Ranked(all, [i \in DOMAIN all |-> all[i].score])

\* _build_allocations: a share of the budget by score for each of the best
\* three, and to the last of them whatever the others leave.
Shortlist(candidates) == SubSeq(candidates, 1, AtMost(3, Len(candidates)))

Shares(short, budget) ==
    LET total == SumFunction([i \in DOMAIN short |-> short[i].score])
        byScore == [i \in DOMAIN short |->
                      Quotient(budget * short[i].score, IF total = 0 THEN One ELSE total)]
        others == SumFunctionOnSet(byScore, DOMAIN short \ {Len(short)})
    IN  [byScore EXCEPT ![Len(short)] = AtLeast(budget - others, 0)]

Allocations(candidates, budget) ==
    LET short == Shortlist(candidates)
        share == Shares(short, budget)
        item(i) == [symbol |-> short[i].symbol, price |-> short[i].price,
                    weight |-> Quotient(share[i] * One, budget),
                    quantity |-> SuggestQuantity(share[i], short[i].price,
                                                 AssetClass[short[i].symbol])]
    IN  IF budget <= 0 THEN <<>>
        ELSE [i \in {i \in DOMAIN short : item(i).quantity > 0} |-> item(i)]

\* The quantity between a position's value and its target, to two decimals.
TrimQuantity(p, total, target) ==
    10 * Quotient(100 * (Value(p) - Quotient(total * target, One)), p.price)

\* _build_rebalance_actions for one lot; later allocations of a symbol win.
Rebalanced(p, total, allocations, short) ==
    LET weight == Weight(Value(p), total)
        exceeds(limit) == Value(p) * One > limit * total
        mine == {i \in DOMAIN allocations : allocations[i].symbol = p.symbol}
        goal == IF mine = {} THEN 0
                ELSE allocations[CHOOSE i \in mine : \A j \in mine : j <= i].weight
        listed == \E i \in DOMAIN short : short[i].symbol = p.symbol
        move(action, target, sign) ==
            [action |-> action, symbol |-> p.symbol, held |-> p.quantity, target |-> target,
             delta |-> AtLeast(sign * TrimQuantity(p, total, target), 0)]
    IN  CASE exceeds(4500)                               -> move("TRIM", Clamp(goal, 2000, 4500), 1)
          [] ~exceeds(4500) /\ exceeds(3500) /\ ~listed  -> move("TRIM", 2000, 1)
          [] OTHER -> IF goal # 0 /\ 10 * weight < 7 * goal THEN move("ADD", goal, -1)
                      ELSE IF goal # 0 /\ 10 * weight > 13 * goal THEN move("TRIM", goal, 1)
                      ELSE [action |-> "HOLD"]

RebalanceActions(positions, allocations, candidates) ==
    LET total == TotalValue(positions)
        each(i) == Rebalanced(positions[i], total, allocations, Shortlist(candidates))
    IN  IF total <= 0 THEN <<>>
        ELSE [i \in {i \in DOMAIN positions : each(i).action # "HOLD"} |-> each(i)]

\* The score RecommendationCapability.recommend ranks by.
RankScore(e) ==
    e.rec.confidence
      + (CASE e.rec.action = "BUY" -> 2000 [] e.rec.action = "HOLD" -> -2000 [] OTHER -> 0)
      - (IF e.decision # "APPROVED" THEN 1000 ELSE 0)

-----------------------------------------------------------------------------
Finding == [id : Nat, rec : RecommendationType, decision : Decisions]
Lot == [symbol : DOMAIN Markets, quantity : Nat, price : Nat]
JobType ==
    [kind : {"PLAN", "RANKING"}, budget : Nat, positions : Seq(Lot),
     todo : Seq(DOMAIN Markets), rec : Seq(RecommendationType), found : Seq(Finding)]

TypeOK ==
    /\ known \in SUBSET Finding
    /\ made \in Nat /\ cleared \in 0..made
    /\ lots \in Seq(Lot)
    /\ job \in JobType \cup {Nothing}
    /\ ChainTypeOK

Init ==
    /\ known = {} /\ made = 0 /\ cleared = 0
    /\ lots = <<>>
    /\ job = Nothing /\ answer = Nothing
    /\ chain = NoChain

\* A request arrives; the plan reads the holdings before anything else.
Start(r) ==
    /\ ~Running
    /\ job' = [kind |-> r.kind, budget |-> EffectiveBudget(r.budget), positions |-> lots,
               todo |-> r.symbols, rec |-> <<>>, found |-> <<>>]
    /\ answer' = Nothing
    /\ UNCHANGED <<known, made, cleared, lots, chain>>

\* The provider answers for the next symbol, and the runtime puts what the
\* pipeline makes of it to the risk policies.
Fetched(m, own) ==
    /\ Running /\ Suspended /\ job.todo # <<>>
    /\ LET symbol == Head(job.todo)
           recs == Analyze(symbol, m)
       IN  /\ job' = [job EXCEPT !.rec = recs, !.todo = Tail(@)]
           /\ made < MaxRecs
           /\ IF recs = <<>> THEN UNCHANGED <<made, chain>>
              ELSE /\ made' = made + 1
                   /\ BeginChain(BuiltInVerdicts(recs[1], DefaultPortfolio, m) \o own)
    /\ UNCHANGED <<known, cleared, lots, answer>>

Check ==
    /\ Evaluating /\ CheckPolicy
    /\ UNCHANGED <<known, made, cleared, lots, job, answer>>

\* OperatorRuntime.analyze keeps the recommendation, its risk and request.
Keep(e) == known \cup {e}

Evaluated ==
    /\ Evaluating /\ ChainEnded
    /\ LET e == [id |-> made, rec |-> job.rec[1], decision |-> chain.decision]
       IN  /\ known' = Keep(e)
           /\ job' = [job EXCEPT !.rec = <<>>, !.found = Append(@, e)]
    /\ chain' = NoChain
    /\ UNCHANGED <<made, cleared, lots, answer>>

\* The end of the plan.  The selected recommendation is looked up again, and
\* with it its approval, for the alert; a failed alert loses the answer.
Plan ==
    LET candidates == Candidates(job.found, job.budget, job.positions)
        allocations == Allocations(candidates, job.budget)
    IN  [kind |-> "PLAN",
         budget |-> job.budget,
         candidates |-> candidates,
         allocations |-> allocations,
         rebalance |-> RebalanceActions(job.positions, allocations, candidates),
         approvable |-> candidates # <<>> /\ \E e \in known : e.id = candidates[1].id]

FinishPlan ==
    /\ Running /\ Suspended /\ job.kind = "PLAN" /\ job.todo = <<>>
    /\ \/ answer' = Plan
       \/ Plan.approvable /\ answer' = Nothing
    /\ job' = Nothing
    /\ UNCHANGED <<known, made, cleared, lots, chain>>

FinishRanking ==
    /\ Running /\ Suspended /\ job.kind = "RANKING" /\ job.todo = <<>>
    /\ answer' = [kind |-> "RANKING",
                  items |-> Ranked(job.found,
                                   [i \in DOMAIN job.found |-> RankScore(job.found[i])])]
    /\ job' = Nothing
    /\ UNCHANGED <<known, made, cleared, lots, chain>>

\* The provider fails; what was analysed before it stays with the runtime.
ProviderFails ==
    /\ Running /\ Suspended /\ job.todo # <<>>
    /\ job' = Nothing /\ answer' = Nothing
    /\ UNCHANGED <<known, made, cleared, lots, chain>>

ClearHistory ==
    /\ Suspended /\ known # {}
    /\ known' = {} /\ cleared' = made
    /\ UNCHANGED <<made, lots, job, answer, chain>>

\* A paper order for a known recommendation fills and becomes a lot: neither
\* the risk decision nor an approval stands in its way.
Fill(e, quantity) ==
    /\ Suspended /\ Len(lots) < MaxLots
    /\ e.rec.action # "HOLD"
    /\ lots' = Append(lots, [symbol |-> e.rec.symbol, quantity |-> quantity,
                             price |-> e.rec.entry])
    /\ UNCHANGED <<known, made, cleared, job, answer, chain>>

Next ==
    \/ \E r \in Requests : Start(r)
    \/ Running /\ job.todo # <<>>
         /\ \E m \in Markets[Head(job.todo)], own \in OwnVerdicts : Fetched(m, own)
    \/ Check
    \/ Evaluated
    \/ FinishPlan
    \/ FinishRanking
    \/ ProviderFails
    \/ ClearHistory
    \/ \E e \in known, q \in FillSizes : Fill(e, q)

Spec == Init /\ [][Next]_vars

-----------------------------------------------------------------------------
\* A price in thousandths of the smallest quantity a fund is rounded to.
RoundedUp(a) == IF AssetClass[a.symbol] = "MUTUAL_FUND" THEN a.price \div 2000 + 1 ELSE 0

Cost(a) == (a.quantity * a.price) \div 1000

(***************************************************************************)
(* What a plan allocates can be paid from its budget. The shares of the    *)
(* best three are rounded one by one and the last takes the remainder, so  *)
(* this rests on every score being positive, hence on the confidence a BUY *)
(* is left with by the signal engines and on the cap on the exposure       *)
(* penalty; a fund may exceed its share by half a thousandth of a unit,    *)
(* which is rounded up.                                                    *)
(***************************************************************************)
BudgetRespected ==
    answer.kind = "PLAN" =>
        SumFunction([i \in DOMAIN answer.allocations |->
                       Cost(answer.allocations[i]) - RoundedUp(answer.allocations[i])])
          <= answer.budget

(***************************************************************************)
(* A plan never advises to sell more of a lot of whole units than it       *)
(* holds, although the target weight it sells down to comes from           *)
(* allocations computed from a budget that has nothing to do with the      *)
(* portfolio's value, and every value on the way is rounded. A fund's lot  *)
(* may be exceeded by that rounding: a trim is advised in hundredths of a  *)
(* unit, a fund held in thousandths.                                       *)
(***************************************************************************)
TrimWithinHolding ==
    answer.kind = "PLAN" =>
        \A i \in DOMAIN answer.rebalance :
            LET r == answer.rebalance[i]
            IN  r.action = "TRIM" /\ r.held % 1000 = 0 => r.delta <= r.held

(***************************************************************************)
(* When the policies approved some BUY, the ranking's top idea is never a  *)
(* HOLD. The bonus and the penalty of recommend.py are fixed numbers, so   *)
(* this depends on the range of the momentum strategy's confidence and on  *)
(* the sentiment adjustment, in three other files.                         *)
(***************************************************************************)
HoldNeverOutranksBuy ==
    answer.kind = "RANKING" /\ answer.items # <<>> =>
        \/ answer.items[1].rec.action # "HOLD"
        \/ \A i \in DOMAIN answer.items :
              answer.items[i].rec.action = "BUY" => answer.items[i].decision # "APPROVED"

(***************************************************************************)
(* A plan that selects an idea returns its recommendation and its approval *)
(* request, with which alone it can be submitted, unless the history was   *)
(* cleared after that idea was analysed; and what the runtime then knows   *)
(* of the idea is an approved BUY.                                         *)
(***************************************************************************)
PlanActionable ==
    [][ answer' # answer /\ answer'.kind = "PLAN" /\ answer'.candidates # <<>> =>
          LET id == answer'.candidates[1].id
          IN  /\ answer'.approvable <=> id > cleared
              /\ \A e \in known : e.id = id =>
                    e.rec.action = "BUY" /\ e.decision = "APPROVED" ]_vars
=============================================================================
