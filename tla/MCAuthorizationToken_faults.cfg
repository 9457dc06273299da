SPECIFICATION MCSpec
CONSTANTS
    Token = {t1}
    Writing = {lower, capital, bare}
    Bearer = {lower, capital}
    Issued = lower
    Request = {r1, r2}
    TokenTtl = 2
    LibraryKeyTtl = 2
    ServiceKeyTtl = 3
    Never = Never
    Null = Null
    MaxTime = 6
    MaxFaults = 1
    Programs = {"service", "library"}
INVARIANTS
    TypeOK
    NotAcceptedLater
SYMMETRY Interchangeable
