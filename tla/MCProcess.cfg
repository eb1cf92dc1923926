SPECIFICATION Spec
CONSTANTS
    Recs = {r1, r2}
    Runs = {u1}
    Submissions = {s1, s2}
    NoRec = NoRec
    Profiles <- ApprovedOrNot
    SimulateModes = {FALSE}
    Ttl = 0
    BootstrapLimit = 100
    MaxTime = 0
    MaxBoots = 1
    MaxRecsPerRun = 2
INVARIANTS LiveOrderApproved LiveOrderRiskApproved TokenUsedOncePerProcess
    ExecutionsReplayable ReportedOrdersExist
SYMMETRY Symmetry
CHECK_DEADLOCK FALSE
