SPECIFICATION MCSpec
CONSTANTS
    Session = {s1, s2}
    Process = {p1}
    TokenTtl = 1
    PruneTime = 3
    RequestTime = 1
    Offset <- Slow
    Null = Null
    MaxTime = 6
    MaxTokens = 2
    MaxJobs = 2
    MaxRemovals = 2
    MaxRestarts = 1
INVARIANTS
    TypeOK
    TokensDieWithLogout
    CookiesRefusedForPruneTime
PROPERTY
    StaleListsShrink
SYMMETRY Interchangeable
