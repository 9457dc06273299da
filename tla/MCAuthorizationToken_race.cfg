SPECIFICATION MCSpec
CONSTANTS
    Token = {t1}
    Writing = {lower}
    Bearer = {lower}
    Issued = lower
    Request = {r1, r2}
    TokenTtl = 2
    LibraryKeyTtl = 2
    ServiceKeyTtl = 3
    Never = Never
    Null = Null
    MaxTime = 3
    MaxFaults = 0
    Programs = {"service"}
INVARIANTS
    OnlyOnce
SYMMETRY Interchangeable
