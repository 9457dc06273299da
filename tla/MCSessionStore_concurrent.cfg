CONSTANTS
    s1 = s1
    s2 = s2
    u1 = u1
    u2 = u2
    r1 = r1
    r2 = r2
    Null = Null
    Session = {s1,s2}
    User = {u1,u2}
    Request = {r1,r2}
    MaxRequests = 3
    MaxFaults = 1
SPECIFICATION MCFairSpec
INVARIANTS
    TypeOK
    ListsHoldOwnSessions
    LoggedOutStaysOut
    TicketsAreBacked
    HealthyStoreKeepsWord
PROPERTIES
    OnlyOwnRequestsClose
    RequestsFinish
