------------------------------ MODULE MCAdvice ------------------------------
(***************************************************************************)
(* InvestmentPlanner on three symbols: INFY, which the demo provider makes *)
(* a BUY, a fund a plug-in strategy may attach, and RELIANCE, a demo SELL. *)
(***************************************************************************)
EXTENDS InvestmentPlanner

\* A provider's answer with only the closes that momentum depends on.
Market(price, closes, volume, sentiment) ==
    [price |-> price, closes |-> closes, volume |-> volume,
     sentiment |-> sentiment, spread |-> 40]

Rising == <<10000, 10500>>
Flat == <<10000, 10050>>

MCMarkets ==
    [INFY     |-> {DemoMarket(310)},
     FUND     |-> {Market(13333, Rising, 250000, 10), Market(13333, Rising, 250000, -10)},
     RELIANCE |-> {DemoMarket(579), Market(25975, Rising, 250000, 10),
                   Market(25975, Flat, 250000, 10), Market(25975, <<>>, 0, 10),
                   Market(25975, Rising, 0, 10)}]

MCAssetClass == [INFY |-> "EQUITY", FUND |-> "MUTUAL_FUND", RELIANCE |-> "UNKNOWN"]

Verdicts(d) == <<[decision |-> d, size |-> NoSize]>>
MCOwnVerdicts == {<<>>, Verdicts("REVIEW") \o Verdicts("APPROVED")}

MCRequests ==
    {[kind |-> "PLAN", budget |-> 150000, symbols |-> <<"INFY", "FUND", "RELIANCE">>],
     [kind |-> "PLAN", budget |-> Wallet, symbols |-> <<"RELIANCE", "FUND">>],
     [kind |-> "RANKING", budget |-> 0, symbols |-> <<"RELIANCE", "INFY">>]}

MCFillSizes == {3000}
=============================================================================
