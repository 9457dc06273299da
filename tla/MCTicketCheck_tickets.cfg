SPECIFICATION MCSpec
CONSTANTS
    Session = {s1, s2}
    TokenTtl = 1
    CookieTtl = 2
    Skews <- OffByOne
    Null = Null
    MaxTime = 3
    MaxRequests = 2
    MaxRemovals = 1
INVARIANTS
    TypeOK
    SignedInClientsPass
    PassesAreVouched
    OnlySoundJwtsPass
    CookiesClearedForCause
    ProgramsAgree
SYMMETRY Interchangeable
CHECK_DEADLOCK FALSE
