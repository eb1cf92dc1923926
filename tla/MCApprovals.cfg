SPECIFICATION Spec
CONSTANTS
    Recs = {r1, r2, r3}
    Ttl = 1
    MaxTime = 3
INVARIANT TypeOK
PROPERTY FollowsLifecycle
PROPERTY DecidedInTime
CHECK_DEADLOCK FALSE
