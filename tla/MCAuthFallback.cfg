SPECIFICATION Spec
CONSTANTS
    Callbacks = {c1, c2}
    Requests = {q1}
    StateTokens = {t1, t2}
    SessionTokens = {k1, k2}
    OperatorIds = {o1, o2, o3}
    s1 = s1
    s2 = s2
    s3 = s3
    e1 = e1
    e2 = e2
    e3 = e3
    corp = corp
    Subjects = {s1, s2, s3}
    Emails = {e1, e2, e3}
    Passwords = {p1, p2}
    Accounts <- AdminMoves
    AdminEmail = e1
    AllowedEmails = {}
    AllowedDomains = {corp}
    DomainOf <- OneDomain
    PasswordEnabled = TRUE
    OidcEnabled = TRUE
    StateTtl = 0
    SessionTtl = 0
    None = None
    MaxTime = 1
SYMMETRY Symmetry
INVARIANT AdminPasswordWorks
CHECK_DEADLOCK FALSE
