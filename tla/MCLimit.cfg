SPECIFICATION Spec
CONSTANTS
    Recs = {r1, r2}
    Runs = {u1, u2}
    Submissions = {s1}
    NoRec = NoRec
    Profiles <- AllProfiles
    SimulateModes = {FALSE}
    Ttl = 0
    BootstrapLimit = 1
    MaxTime = 0
    MaxBoots = 2
    MaxRecsPerRun = 1
INVARIANTS LiveOrderApproved DecisionsSurvive ApprovalHasRun
PROPERTY ClearedStaysCleared
SYMMETRY Symmetry
CHECK_DEADLOCK FALSE
