------------------------------ MODULE Signals ------------------------------
(***************************************************************************)
(* What core/orchestration/pipeline.py makes of one market snapshot: the   *)
(* momentum strategy, the FinRL-style adjustment and the debate engine, as *)
(* functions of the snapshot                                               *)
(*   [price, closes, volume, sentiment, spread].                           *)
(*                                                                         *)
(* Money is in hundredths of a currency unit, confidences, weights and     *)
(* spreads are in ten-thousandths, sentiment is in hundredths: the         *)
(* precision the code rounds to.  The sentences a recommendation carries   *)
(* (thesis, evidence, rationale) decide nothing and are left out, as is    *)
(* the score of MomentumSignalEngine, which the next engine overwrites.    *)
(***************************************************************************)
EXTENDS Integers, Sequences

One == 10000          \* 1.0, and 100%

\* Nearest integer to a / b, for b > 0 (round of a quotient).
Quotient(a, b) == (a + (b \div 2)) \div b

AtMost(x, hi) == IF x < hi THEN x ELSE hi
AtLeast(x, lo) == IF x > lo THEN x ELSE lo
Clamp(x, lo, hi) == AtMost(AtLeast(x, lo), hi)
Distance(x) == AtLeast(x, -x)

-----------------------------------------------------------------------------
\* The demo provider's market for a symbol whose characters sum to seed.
DemoClose(seed, i) ==
    100 * (90 + (seed % 250))
      + Quotient(100 * i * ((seed % 20) - 10), 60)
      + (80 * ((i + seed) % 7))

DemoMarket(seed) ==
    [price |-> 100 * (80 + (seed % 400)) + 75,
     closes |-> [i \in 1..60 |-> DemoClose(seed, i - 1)],
     volume |-> 250000 + (seed % 150000),
     sentiment |-> 10,
     spread |-> 40]

-----------------------------------------------------------------------------
LastCloses(m) == SubSeq(m.closes, AtLeast(Len(m.closes) - 9, 1), Len(m.closes))

\* MomentumStrategy: no signal for a symbol with fewer than two closes.
Scan(m) ==
    LET closes == LastCloses(m)
        first == closes[1]
        change == closes[Len(closes)] - first
        base == AtLeast(first, 100)
    IN  IF Len(closes) < 2 THEN <<>>
        ELSE <<[action |-> CASE 100 * change > base  -> "BUY"
                             [] 100 * change < -base -> "SELL"
                             [] OTHER                -> "HOLD",
                confidence |-> Clamp(Quotient(8 * One * Distance(change), base), 5200, 9000)]>>

\* FinRLSignalEngine: the sentiment moves the score, and a signal it moves
\* below one half is held back.
Adjusted(s, m) ==
    LET score == s.confidence + (IF m.sentiment > 0 THEN 500 ELSE -500)
    IN  [action |-> IF score < 5000 THEN "HOLD" ELSE s.action,
         confidence |-> Clamp(score, 4500, 9500)]

\* DebateReasoningEngine: anything that is not a BUY gets a SELL's levels.
Recommendation(symbol, s, m) ==
    [symbol |-> symbol,
     action |-> s.action,
     confidence |-> s.confidence,
     entry |-> m.price,
     target |-> Quotient(m.price * (IF s.action = "BUY" THEN 105 ELSE 95), 100),
     stop |-> Quotient(m.price * (IF s.action = "BUY" THEN 97 ELSE 103), 100)]

RecommendationType ==
    [symbol : STRING, action : {"BUY", "SELL", "HOLD"}, confidence : Nat,
     entry : Nat, target : Nat, stop : Nat]

\* AnalysisPipeline.analyze: at most one recommendation, for the one signal.
Analyze(symbol, m) ==
    [i \in DOMAIN Scan(m) |-> Recommendation(symbol, Adjusted(Scan(m)[i], m), m)]
============================================================================
