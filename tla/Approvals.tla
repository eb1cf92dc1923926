----------------------------- MODULE Approvals -----------------------------
(***************************************************************************)
(* The ApprovalService of core/approvals/service.py: the in-memory table   *)
(* of approval requests behind every live order.                           *)
(*                                                                         *)
(* A recommendation id and the token issued for it are fresh UUIDs, and    *)
(* `request` runs once for an id, so the token of r is written r: a caller *)
(* presents some t, and t = r is the comparison approval.token == token.   *)
(* A call that raises before it assigns anything is a call that changes    *)
(* nothing, and has no action; a raise that changes the state (a decision  *)
(* that comes too late) has one.                                           *)
(***************************************************************************)
EXTENDS Naturals

CONSTANTS
    Recs,        \* recommendation ids
    Ttl,         \* ttl_minutes: how long a request may wait for its decision
    MaxTime      \* bound on the clock

ASSUME TtlAssumption == Ttl \in Nat

VARIABLES
    requests,    \* ApprovalService._requests
    issued,      \* the ids `request` was ever called with
    now          \* utcnow()

vars == <<requests, issued, now>>

-----------------------------------------------------------------------------
Statuses == {"PENDING", "APPROVED", "REJECTED", "EXPIRED", "CONSUMED"}

Request == [status : Statuses, expiresAt : Nat]
NoRequest == [status |-> "NONE", expiresAt |-> 0]

Has(r) == requests[r] # NoRequest

Overdue(r) == requests[r].expiresAt < now

\* The same request with another status.
Moved(r, s) == [requests[r] EXCEPT !.status = s]

TypeOK ==
    /\ requests \in [Recs -> Request \cup {NoRequest}]
    /\ issued \in SUBSET Recs
    /\ now \in Nat

Init ==
    /\ requests = [r \in Recs |-> NoRequest]
    /\ issued = {}
    /\ now = 0

-----------------------------------------------------------------------------
\* Forms of the operators below with a plausible bug, for the mutants of
\* PROJECT.json.
RequestWithoutExpiry == [status |-> "PENDING"]
ReadExpiresAnything(r) == Has(r) /\ Overdue(r)

NewRequest == [status |-> "PENDING", expiresAt |-> now + Ttl]

\* The request is known, the token is its own, and it is still PENDING.
PendingFor(r, t) == Has(r) /\ t = r /\ requests[r].status = "PENDING"

\* `get` expires what it reads only while it is PENDING and past its expiry.
ReadExpires(r) == Has(r) /\ requests[r].status = "PENDING" /\ Overdue(r)

\* _require_pending returns: known, right token, pending, not expired.
MayDecide(r, t) == PendingFor(r, t) /\ ~Overdue(r)

\* _require_pending marks the request EXPIRED and raises.
DecidesTooLate(r, t) == PendingFor(r, t) /\ Overdue(r)

\* The bugs of a consume that does not test the status, or lets CONSUMED pass.
ConsumeUnapproved(r, t) == Has(r) /\ t = r /\ requests[r].status # "CONSUMED"
ConsumeAgain(r, t) == Has(r) /\ t = r /\ requests[r].status \in {"APPROVED", "CONSUMED"}

\* `consume` returns: known, right token, APPROVED.  (consumed_at is set in the
\* same step as CONSUMED, so its own test never fires.)  No expiry test.
MayConsume(r, t) == Has(r) /\ t = r /\ requests[r].status = "APPROVED"

-----------------------------------------------------------------------------
RequestApproval(r) ==
    /\ r \notin issued
    /\ requests' = [requests EXCEPT ![r] = NewRequest]
    /\ issued' = issued \cup {r}
    /\ UNCHANGED now

\* `get`, behind every dashboard, listing and stored-token command.
Read(r) ==
    /\ ReadExpires(r)
    /\ requests' = [requests EXCEPT ![r] = Moved(r, "EXPIRED")]
    /\ UNCHANGED <<issued, now>>

Approve(r, t) ==
    /\ MayDecide(r, t)
    /\ requests' = [requests EXCEPT ![r] = Moved(r, "APPROVED")]
    /\ UNCHANGED <<issued, now>>

Reject(r, t) ==
    /\ MayDecide(r, t)
    /\ requests' = [requests EXCEPT ![r] = Moved(r, "REJECTED")]
    /\ UNCHANGED <<issued, now>>

DecideLate(r, t) ==
    /\ DecidesTooLate(r, t)
    /\ requests' = [requests EXCEPT ![r] = Moved(r, "EXPIRED")]
    /\ UNCHANGED <<issued, now>>

Consume(r, t) ==
    /\ MayConsume(r, t)
    /\ requests' = [requests EXCEPT ![r] = Moved(r, "CONSUMED")]
    /\ UNCHANGED <<issued, now>>

\* The bug of a clear that leaves the table alone.
ClearNothing == UNCHANGED vars

Clear ==
    /\ requests' = [r \in Recs |-> NoRequest]
    /\ UNCHANGED <<issued, now>>

Tick ==
    /\ now < MaxTime
    /\ now' = now + 1
    /\ UNCHANGED <<requests, issued>>

Next ==
    \/ \E r \in Recs : RequestApproval(r) \/ Read(r)
    \/ \E r, t \in Recs : \/ Approve(r, t)
                          \/ Reject(r, t)
                          \/ DecideLate(r, t)
                          \/ Consume(r, t)
    \/ Clear
    \/ Tick

Spec == Init /\ [][Next]_vars

-----------------------------------------------------------------------------
(***************************************************************************)
(* Properties                                                              *)
(***************************************************************************)
\* The service implements the documented lifecycle: a request that left the
\* table by `clear` maps to Discarded, one never made to Unrequested.
LifecycleState(r) ==
    IF r \notin issued THEN "UNREQUESTED"
    ELSE IF Has(r) THEN requests[r].status
    ELSE "DISCARDED"

Lifecycle == INSTANCE ApprovalLifecycle WITH
                 status <- [r \in Recs |-> LifecycleState(r)]

\* Every interleaving of reads, decisions, executions, clears and the clock
\* follows the documented state machine (docs/framework_deep_dive.md).
FollowsLifecycle == Lifecycle!Spec

\* A request is decided (approved or rejected) no later than its expires_at, by
\* whichever path: _require_pending and `get` test the clock separately.
DecidedInTime ==
    [][\A r \in Recs :
          (requests[r].status = "PENDING" /\ requests'[r].status \in {"APPROVED", "REJECTED"})
              => now <= requests[r].expiresAt]_vars

\* What every recommendation's explanation states
\* (core/explainability/service.py:30): an expired token does not execute.
ConsumedInTime ==
    [][\A r \in Recs :
          (requests[r].status = "APPROVED" /\ requests'[r].status = "CONSUMED")
              => now <= requests[r].expiresAt]_vars
=============================================================================
