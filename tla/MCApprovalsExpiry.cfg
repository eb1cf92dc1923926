SPECIFICATION Spec
CONSTANTS
    Recs = {r1}
    Ttl = 1
    MaxTime = 3
PROPERTY ConsumedInTime
CHECK_DEADLOCK FALSE
