---------------------------- MODULE RiskPolicies ----------------------------
(***************************************************************************)
(* The risk policies of risk/policies/default.py, each a function of a     *)
(* recommendation, the portfolio state and the market snapshot, and the    *)
(* loop of RiskPolicyChain that turns their verdicts into one decision.    *)
(*                                                                         *)
(* The policies are pure and none suspends, so the chain starts from their *)
(* verdicts; it still stops reading them at the first rejection.  An       *)
(* application may put policies of its own behind the eight built-in ones, *)
(* and only those ever answer REVIEW.                                      *)
(***************************************************************************)
EXTENDS Signals, Functions

CONSTANTS
    MinConfidence,     \* threshold of MinConfidencePolicy, in ten-thousandths
    MaxPositions,      \* max_positions
    MaxCapital,        \* max_capital, in currency units
    MaxDailyLoss,      \* max_daily_loss, in currency units
    MaxExposure,       \* max_exposure, in percent
    Restricted,        \* the restricted symbols
    MinVolume,         \* min_volume
    MaxSpread          \* max_spread_percent, in ten-thousandths

VARIABLE chain         \* the evaluation in progress: the locals of evaluate

-----------------------------------------------------------------------------
Decisions == {"APPROVED", "REVIEW", "REJECTED"}
NoSize == 0            \* max_position_size is None
Verdict == [decision : Decisions, size : Nat]

Rejecting(condition) ==
    [decision |-> IF condition THEN "REJECTED" ELSE "APPROVED", size |-> NoSize]

\* What MarketContext holds of the portfolio when nobody sets it, as the
\* pipeline never does.
DefaultPortfolio == [cash |-> 1000000, positions |-> <<>>, dailyPnl |-> 0]

\* The market value of those positions.
Worth(portfolio, chosen) ==
    SumFunctionOnSet([i \in DOMAIN portfolio.positions |-> portfolio.positions[i].value], chosen)

MinConfidencePolicy(rec) ==
    Rejecting(rec.action # "HOLD" /\ rec.confidence < MinConfidence)

MaxPositionsPolicy(rec, portfolio) ==
    Rejecting(rec.action = "BUY" /\ Len(portfolio.positions) >= MaxPositions)

MaxCapitalPerTradePolicy(rec) ==
    [decision |-> "APPROVED",
     size |-> AtLeast((100 * MaxCapital) \div AtLeast(rec.entry, 100), 1)]

MaxDailyLossPolicy(portfolio) ==
    Rejecting(portfolio.dailyPnl <= -MaxDailyLoss)

MaxSymbolExposurePolicy(rec, portfolio) ==
    LET all == DOMAIN portfolio.positions
        held == Worth(portfolio, {i \in all : portfolio.positions[i].symbol = rec.symbol})
    IN  Rejecting(100 * held > MaxExposure * AtLeast(portfolio.cash + Worth(portfolio, all), 1))

RestrictedSymbolsPolicy(rec) == Rejecting(rec.symbol \in Restricted)

LiquidityPolicy(m) == Rejecting(m.volume < MinVolume)

SpreadPolicy(m) == Rejecting(m.spread > MaxSpread)

\* The chain the builder makes, in its order.
BuiltInVerdicts(rec, portfolio, m) ==
    << MinConfidencePolicy(rec),
       MaxPositionsPolicy(rec, portfolio),
       MaxCapitalPerTradePolicy(rec),
       MaxDailyLossPolicy(portfolio),
       MaxSymbolExposurePolicy(rec, portfolio),
       RestrictedSymbolsPolicy(rec),
       LiquidityPolicy(m),
       SpreadPolicy(m) >>

-----------------------------------------------------------------------------
\* A form of Combined with a plausible bug, for the mutants of PROJECT.json.
CombinedLast(sofar, new) == new

\* The decision after one more verdict: a rejection is final, a review stays.
Combined(sofar, new) == IF new = "APPROVED" THEN sofar ELSE new

Fresh(verdicts) ==
    [verdicts |-> verdicts, checked |-> 0, decision |-> "APPROVED", size |-> NoSize]

NoChain == Fresh(<<>>)

BeginChain(verdicts) == chain' = Fresh(verdicts)

ChainEnded ==
    chain.decision = "REJECTED" \/ chain.checked = Len(chain.verdicts)

\* One turn of the loop of RiskPolicyChain.evaluate.
CheckPolicy ==
    /\ ~ChainEnded
    /\ LET v == chain.verdicts[chain.checked + 1]
       IN  chain' = [chain EXCEPT !.checked = @ + 1,
                                  !.decision = Combined(@, v.decision),
                                  !.size = IF v.size # NoSize THEN v.size ELSE @]

ChainTypeOK ==
    chain \in [verdicts : Seq(Verdict), checked : Nat, decision : Decisions, size : Nat]

(***************************************************************************)
(* The decision of a finished evaluation is the strictest verdict of the   *)
(* whole list, whatever the policies' order and although the loop never    *)
(* read the ones behind a rejection: one REJECTED rejects, otherwise one   *)
(* REVIEW asks for a review, and only a list without either approves.      *)
(***************************************************************************)
Given(decision) ==
    \E i \in 1..Len(chain.verdicts) : chain.verdicts[i].decision = decision

ChainVerdict ==
    ChainEnded =>
      /\ chain.decision = "REJECTED" <=> Given("REJECTED")
      /\ chain.decision = "APPROVED" <=> ~(Given("REJECTED") \/ Given("REVIEW"))
=============================================================================
