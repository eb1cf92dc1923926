---------------------------- MODULE MCFrontEnds ----------------------------
(***************************************************************************)
(* FrontEnds with one recommendation, which the page and the bot approve,  *)
(* reject and submit.                                                      *)
(***************************************************************************)
EXTENDS FrontEnds

On(kind) == [kind |-> kind, rec |-> "r1"]
Submit(broker, thenQuantity) ==
    [kind |-> "SUBMIT", rec |-> "r1", broker |-> broker, thenQuantity |-> thenQuantity]
Watch(kind, symbol) == [kind |-> kind, symbol |-> symbol]

Stock == [segment |-> "NSE", type |-> "EQ", namedETF |-> FALSE]
Fund == [segment |-> "MF", type |-> "MF", namedETF |-> FALSE]

MCProfiles ==
    {[action |-> "BUY", risk |-> "APPROVED", instrument |-> Stock],
     [action |-> "BUY", risk |-> "APPROVED", instrument |-> Fund],
     [action |-> "HOLD", risk |-> "REJECTED", instrument |-> Stock]}

MCPageOps ==
    {[kind |-> "SCAN"], On("APPROVE"), On("PREVIEW"), Submit("ZERODHA", FALSE),
     [kind |-> "DISCONNECT"], [kind |-> "CLEAR"], Watch("REMOVE", "INFY")}

MCBotOps ==
    {On("REJECT"), Submit("ZERODHA", FALSE), Submit("ZERODHA", TRUE),
     [kind |-> "PLAN"], Watch("ADD", "TCS")}
=============================================================================
