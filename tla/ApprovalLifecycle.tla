------------------------- MODULE ApprovalLifecycle -------------------------
(***************************************************************************)
(* What docs/framework_deep_dive.md promises of an ApprovalRequest: one    *)
(* request per recommendation, which goes                                  *)
(*                                                                         *)
(*     PENDING -> APPROVED -> CONSUMED,   PENDING -> REJECTED   or         *)
(*     PENDING -> EXPIRED,                                                 *)
(*                                                                         *)
(* and never anywhere else.  Clearing the operator history discards every  *)
(* request for good.  Approvals.tla is shown to implement this module.     *)
(***************************************************************************)
CONSTANT Recs            \* recommendation ids; each is requested at most once

VARIABLE status          \* the lifecycle state of each recommendation's request

Unrequested == "UNREQUESTED"
Discarded == "DISCARDED"
States == {Unrequested, "PENDING", "APPROVED", "REJECTED", "EXPIRED",
           "CONSUMED", Discarded}

\* The arrows of the documented state machine, with the request's creation.
Edges == { <<Unrequested, "PENDING">>,
           <<"PENDING", "APPROVED">>, <<"PENDING", "REJECTED">>,
           <<"PENDING", "EXPIRED">>, <<"APPROVED", "CONSUMED">> }

Init == status = [r \in Recs |-> Unrequested]

Move(r) == \E s \in States :
              /\ <<status[r], s>> \in Edges
              /\ status' = [status EXCEPT ![r] = s]

Discard == status' = [r \in Recs |-> IF status[r] = Unrequested
                                     THEN Unrequested
                                     ELSE Discarded]

Next == (\E r \in Recs : Move(r)) \/ Discard

Spec == Init /\ [][Next]_status
=============================================================================
