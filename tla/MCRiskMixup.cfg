SPECIFICATION Spec
CONSTANTS
    Recs = {r1, r2}
    Runs = {u1}
    Submissions = {s1}
    NoRec = NoRec
    Profiles <- ApprovedOrRejected
    SimulateModes = {FALSE}
    Ttl = 0
    BootstrapLimit = 100
    MaxTime = 0
    MaxBoots = 2
    MaxRecsPerRun = 2
INVARIANT LiveOrderRiskApproved
CHECK_DEADLOCK FALSE
