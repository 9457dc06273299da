SPECIFICATION MCSpec
CONSTANTS
    User = {u1}
    Session = {s1, s2}
    Request = {r1, r2}
    Null = Null
    MaxRequests = 2
    MaxEvents = 0
INVARIANTS
    DisabledOpensNothing
CHECK_DEADLOCK FALSE
