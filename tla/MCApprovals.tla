---------------------------- MODULE MCApprovals ----------------------------
(* Approvals with three recommendations, and a clock that runs past the    *)
(* expiry of a request made one tick after the start.                      *)
EXTENDS Approvals
=============================================================================
