SPECIFICATION MCFairSpec
CONSTANTS
    User = {u1}
    Session = {s1, s2}
    Request = {r1, r2}
    Null = Null
    MaxRequests = 3
    MaxEvents = 1
INVARIANTS
    TypeOK
    InactiveStayOut
    SessionsHaveTickets
    LogoutsClose
PROPERTY
    RequestsAnswered
CHECK_DEADLOCK FALSE
