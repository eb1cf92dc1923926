SPECIFICATION FairSpec
CONSTANTS
    Recs = {r1}
    Runs = {u1}
    Submissions = {s1, s2}
    NoRec = NoRec
    Profiles <- AllProfiles
    SimulateModes = {FALSE}
    Ttl = 0
    BootstrapLimit = 100
    MaxTime = 0
    MaxBoots = 2
    MaxRecsPerRun = 1
PROPERTY SubmissionsEnd
CHECK_DEADLOCK FALSE
