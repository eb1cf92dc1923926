-------------------------- MODULE ApprovalsProofs --------------------------
(***************************************************************************)
(* For every set of recommendations, every Ttl and every bound on the      *)
(* clock: the approval service is type correct, implements the documented  *)
(* lifecycle, and decides no request after its expiry.                     *)
(***************************************************************************)
EXTENDS Approvals, TLAPS

\* The shape a moved request keeps: what approve, reject, consume and the two
\* expiring paths leave behind is a request, with the same expiry.
LEMMA MovedRequest ==
    ASSUME TypeOK, NEW r \in Recs, Has(r), NEW s \in Statuses
    PROVE  /\ Moved(r, s) \in Request
           /\ Moved(r, s).status = s
           /\ Moved(r, s).expiresAt = requests[r].expiresAt
    BY DEF TypeOK, Has, Moved, Request

\* The type invariant: a table of well-formed requests, whatever the calls.
THEOREM TypeCorrect == Spec => []TypeOK
<1>1. Init => TypeOK
    BY DEF Init, TypeOK
<1>2. TypeOK /\ [Next]_vars => TypeOK'
    <2> SUFFICES ASSUME TypeOK, [Next]_vars PROVE TypeOK'
        OBVIOUS
    <2>1. ASSUME NEW r \in Recs, RequestApproval(r) PROVE TypeOK'
        <3>1. NewRequest \in Request
            BY TtlAssumption DEF TypeOK, NewRequest, Request, Statuses
        <3>2. QED BY <2>1, <3>1 DEF RequestApproval, TypeOK
    <2>2. ASSUME NEW r \in Recs, Read(r) PROVE TypeOK'
        <3>1. Moved(r, "EXPIRED") \in Request
            BY <2>2, MovedRequest DEF Read, ReadExpires, Statuses
        <3>2. QED BY <2>2, <3>1 DEF Read, TypeOK
    <2>3. ASSUME NEW r \in Recs, NEW t \in Recs, Approve(r, t) PROVE TypeOK'
        <3>1. Moved(r, "APPROVED") \in Request
            BY <2>3, MovedRequest DEF Approve, MayDecide, PendingFor, Statuses
        <3>2. QED BY <2>3, <3>1 DEF Approve, TypeOK
    <2>4. ASSUME NEW r \in Recs, NEW t \in Recs, Reject(r, t) PROVE TypeOK'
        <3>1. Moved(r, "REJECTED") \in Request
            BY <2>4, MovedRequest DEF Reject, MayDecide, PendingFor, Statuses
        <3>2. QED BY <2>4, <3>1 DEF Reject, TypeOK
    <2>5. ASSUME NEW r \in Recs, NEW t \in Recs, DecideLate(r, t) PROVE TypeOK'
        <3>1. Moved(r, "EXPIRED") \in Request
            BY <2>5, MovedRequest DEF DecideLate, DecidesTooLate, PendingFor, Statuses
        <3>2. QED BY <2>5, <3>1 DEF DecideLate, TypeOK
    <2>6. ASSUME NEW r \in Recs, NEW t \in Recs, Consume(r, t) PROVE TypeOK'
        <3>1. Moved(r, "CONSUMED") \in Request
            BY <2>6, MovedRequest DEF Consume, MayConsume, Statuses
        <3>2. QED BY <2>6, <3>1 DEF Consume, TypeOK
    <2>7. CASE Clear
        BY <2>7 DEF Clear, TypeOK
    <2>8. CASE Tick
        BY <2>8 DEF Tick, TypeOK
    <2>9. CASE UNCHANGED vars
        BY <2>9 DEF vars, TypeOK
    <2>10. QED
        BY <2>1, <2>2, <2>3, <2>4, <2>5, <2>6, <2>7, <2>8, <2>9 DEF Next
<1>3. QED BY <1>1, <1>2, PTL DEF Spec

-----------------------------------------------------------------------------
\* A request in the table was made: the strengthening the refinement needs, so
\* that an id cleared from the table maps to DISCARDED and never back.
IssuedInv == \A r \in Recs : Has(r) => r \in issued

\* Only issued recommendations ever have a request.
LEMMA IssuedInvariant == Spec => []IssuedInv
<1>1. Init => IssuedInv
    BY DEF Init, IssuedInv, Has
<1>2. TypeOK /\ IssuedInv /\ [Next]_vars => IssuedInv'
    <2> SUFFICES ASSUME TypeOK, IssuedInv, [Next]_vars PROVE IssuedInv'
        OBVIOUS
    <2>1. ASSUME NEW r \in Recs, RequestApproval(r) PROVE IssuedInv'
        BY <2>1 DEF RequestApproval, IssuedInv, Has, TypeOK
    <2>2. ASSUME NEW r \in Recs, Has(r), NEW s,
                 requests' = [requests EXCEPT ![r] = Moved(r, s)], UNCHANGED issued
          PROVE  IssuedInv'
        BY <2>2 DEF IssuedInv, Has, TypeOK
    <2>3. ASSUME NEW r \in Recs, Read(r) PROVE IssuedInv'
        BY <2>2, <2>3 DEF Read, ReadExpires
    <2>4. ASSUME NEW r \in Recs, NEW t \in Recs,
                 Approve(r, t) \/ Reject(r, t) \/ DecideLate(r, t) \/ Consume(r, t)
          PROVE  IssuedInv'
        BY <2>2, <2>4 DEF Approve, Reject, DecideLate, Consume, MayDecide,
                          DecidesTooLate, PendingFor, MayConsume
    <2>5. CASE Clear
        BY <2>5 DEF Clear, IssuedInv, Has
    <2>6. CASE Tick \/ UNCHANGED vars
        BY <2>6 DEF Tick, vars, IssuedInv, Has
    <2>7. QED BY <2>1, <2>3, <2>4, <2>5, <2>6 DEF Next
<1>3. QED BY <1>1, <1>2, TypeCorrect, PTL DEF Spec

-----------------------------------------------------------------------------
\* The lifecycle state of every recommendation, the refinement mapping.
Mapped == [r \in Recs |-> LifecycleState(r)]

\* A step that moves one request along an edge of the documented state machine
\* is a Move of the abstract specification.
LEMMA MoveRefines ==
    ASSUME TypeOK, IssuedInv, NEW r \in Recs, Has(r), NEW s \in Statuses,
           <<requests[r].status, s>> \in Lifecycle!Edges,
           requests' = [requests EXCEPT ![r] = Moved(r, s)], UNCHANGED issued
    PROVE  Lifecycle!Move(r)
<1>1. Has(r)' /\ requests'[r].status = s
    BY MovedRequest DEF TypeOK, Has, Request, NoRequest, Statuses
<1>2. LifecycleState(r) = requests[r].status /\ LifecycleState(r)' = s
    BY <1>1 DEF LifecycleState, IssuedInv
<1>3. \A q \in Recs \ {r} : LifecycleState(q)' = LifecycleState(q)
    BY DEF LifecycleState, Has, TypeOK
<1>4. Mapped' = [Mapped EXCEPT ![r] = s]
    BY <1>2, <1>3 DEF Mapped
<1>5. s \in Lifecycle!States
    BY DEF Lifecycle!States, Statuses
<1>6. QED
    BY <1>2, <1>4, <1>5 DEF Lifecycle!Move, Mapped

\* The approval service implements the documented lifecycle: no interleaving of
\* reads, decisions, executions, clears and the clock leaves it.
THEOREM ImplementsLifecycle == Spec => FollowsLifecycle
<1>1. Init => Lifecycle!Init
    BY DEF Init, Lifecycle!Init, LifecycleState, Lifecycle!Unrequested
<1>2. TypeOK /\ IssuedInv /\ [Next]_vars => [Lifecycle!Next]_Mapped
    <2> SUFFICES ASSUME TypeOK, IssuedInv, [Next]_vars
                 PROVE  Lifecycle!Next \/ UNCHANGED Mapped
        OBVIOUS
    <2>1. ASSUME NEW r \in Recs, RequestApproval(r) PROVE Lifecycle!Next
        <3>1. LifecycleState(r) = "UNREQUESTED"
            BY <2>1 DEF RequestApproval, LifecycleState
        <3>2. LifecycleState(r)' = "PENDING"
            BY <2>1 DEF RequestApproval, LifecycleState, NewRequest, NoRequest, Has, TypeOK
        <3>3. \A q \in Recs \ {r} : LifecycleState(q)' = LifecycleState(q)
            BY <2>1 DEF RequestApproval, LifecycleState, Has, TypeOK
        <3>4. Mapped' = [Mapped EXCEPT ![r] = "PENDING"]
            BY <3>2, <3>3 DEF Mapped
        <3>5. Lifecycle!Move(r)
            BY <3>1, <3>4 DEF Lifecycle!Move, Mapped, Lifecycle!Edges, Lifecycle!States,
                              Lifecycle!Unrequested
        <3>6. QED BY <3>5 DEF Lifecycle!Next
    <2>2. ASSUME NEW r \in Recs, Read(r) PROVE Lifecycle!Next
        <3>1. Lifecycle!Move(r)
            BY <2>2, MoveRefines DEF Read, ReadExpires, Statuses, Lifecycle!Edges
        <3>2. QED BY <3>1 DEF Lifecycle!Next
    <2>3. ASSUME NEW r \in Recs, NEW t \in Recs,
                 Approve(r, t) \/ Reject(r, t) \/ DecideLate(r, t)
          PROVE  Lifecycle!Next
        <3>1. Has(r) /\ requests[r].status = "PENDING"
            BY <2>3 DEF Approve, Reject, DecideLate, MayDecide, DecidesTooLate, PendingFor
        <3>2. PICK s \in {"APPROVED", "REJECTED", "EXPIRED"} :
                  requests' = [requests EXCEPT ![r] = Moved(r, s)] /\ UNCHANGED issued
            BY <2>3 DEF Approve, Reject, DecideLate
        <3>3. Lifecycle!Move(r)
            BY <3>1, <3>2, MoveRefines DEF Statuses, Lifecycle!Edges
        <3>4. QED BY <3>3 DEF Lifecycle!Next
    <2>4. ASSUME NEW r \in Recs, NEW t \in Recs, Consume(r, t) PROVE Lifecycle!Next
        <3>1. Lifecycle!Move(r)
            BY <2>4, MoveRefines DEF Consume, MayConsume, Statuses, Lifecycle!Edges
        <3>2. QED BY <3>1 DEF Lifecycle!Next
    <2>5. ASSUME Clear PROVE Lifecycle!Next
        <3>1. \A r \in Recs : LifecycleState(r)' = IF LifecycleState(r) = "UNREQUESTED"
                                                   THEN "UNREQUESTED" ELSE "DISCARDED"
            BY <2>5 DEF Clear, LifecycleState, Has, TypeOK, Request, NoRequest, Statuses
        <3>2. Lifecycle!Discard
            BY <3>1 DEF Lifecycle!Discard, Lifecycle!Unrequested, Lifecycle!Discarded
        <3>3. QED BY <3>2 DEF Lifecycle!Next
    <2>6. ASSUME Tick \/ UNCHANGED vars PROVE UNCHANGED Mapped
        BY <2>6 DEF Tick, vars, Mapped, LifecycleState, Has
    <2>7. QED
        BY <2>1, <2>2, <2>3, <2>4, <2>5, <2>6 DEF Next
<1>3. QED
    BY <1>1, <1>2, TypeCorrect, IssuedInvariant, PTL
    DEF Spec, FollowsLifecycle, Lifecycle!Spec, Mapped

-----------------------------------------------------------------------------
\* No path decides a request after its expires_at, for any Ttl.
THEOREM DecisionsInTime == Spec => DecidedInTime
<1> DEFINE InTime == \A r \in Recs :
              (requests[r].status = "PENDING" /\ requests'[r].status \in {"APPROVED", "REJECTED"})
                  => now <= requests[r].expiresAt
<1>1. TypeOK /\ [Next]_vars => [InTime]_vars
    <2> SUFFICES ASSUME TypeOK, Next, NEW q \in Recs, requests[q].status = "PENDING",
                        requests'[q].status \in {"APPROVED", "REJECTED"}
                 PROVE  now <= requests[q].expiresAt
        OBVIOUS
    <2>1. ASSUME NEW r \in Recs, Has(r), NEW s \in {"EXPIRED", "CONSUMED"},
                 requests' = [requests EXCEPT ![r] = Moved(r, s)]
          PROVE  FALSE
        <3>1. Moved(r, s).status = s
            BY <2>1, MovedRequest DEF Statuses
        <3>2. QED BY <2>1, <3>1 DEF TypeOK
    <2>2. ASSUME NEW r \in Recs, RequestApproval(r) PROVE FALSE
        BY <2>2 DEF RequestApproval, NewRequest, TypeOK
    <2>3. ASSUME NEW r \in Recs, Read(r) PROVE FALSE
        BY <2>1, <2>3 DEF Read, ReadExpires
    <2>4. ASSUME NEW r \in Recs, NEW t \in Recs, DecideLate(r, t) \/ Consume(r, t) PROVE FALSE
        BY <2>1, <2>4 DEF DecideLate, DecidesTooLate, PendingFor, Consume, MayConsume
    <2>5. ASSUME NEW r \in Recs, NEW t \in Recs, Approve(r, t) \/ Reject(r, t)
          PROVE  now <= requests[q].expiresAt
        <3>1. r = q
            BY <2>5 DEF Approve, Reject, TypeOK
        <3>2. Has(q) /\ ~Overdue(q)
            BY <2>5, <3>1 DEF Approve, Reject, MayDecide, PendingFor
        <3>3. requests[q] \in Request
            BY <3>2 DEF TypeOK, Has
        <3>4. QED BY <3>2, <3>3 DEF Overdue, Request, TypeOK
    <2>6. ASSUME Clear PROVE FALSE
        BY <2>6 DEF Clear, NoRequest
    <2>7. ASSUME Tick PROVE FALSE
        BY <2>7 DEF Tick
    <2>8. QED BY <2>2, <2>3, <2>4, <2>5, <2>6, <2>7 DEF Next
<1>2. QED
    BY <1>1, TypeCorrect, PTL DEF Spec, DecidedInTime
=============================================================================
