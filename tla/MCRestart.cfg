SPECIFICATION Spec
CONSTANTS
    Recs = {r1}
    Runs = {u1}
    Submissions = {s1, s2}
    NoRec = NoRec
    Profiles <- AllProfiles
    SimulateModes = {FALSE, TRUE}
    Ttl = 0
    BootstrapLimit = 100
    MaxTime = 1
    MaxBoots = 3
    MaxRecsPerRun = 1
INVARIANTS TypeOK LiveOrderApproved LiveOrderRiskApproved TokenUsedOncePerProcess
    DecisionsSurvive ApprovalHasRun ExecutionsReplayable ReportedOrdersExist
PROPERTY ClearedStaysCleared
SYMMETRY Symmetry
CHECK_DEADLOCK FALSE
