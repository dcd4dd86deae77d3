SPECIFICATION FairSpec
CONSTANTS
    Clients = {c1, c2}
    Tokens = {t1, t2}
    None = None
    MaxFailures = 2
    Minute = 2
    TTL = 3
INVARIANTS
    AttemptsBounded
PROPERTIES
    LockoutEnds
    SessionsKept
