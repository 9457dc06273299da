CONSTANTS
    s1 = s1
    s2 = s2
    s3 = s3
    s4 = s4
    u1 = u1
    u2 = u2
    r1 = r1
    r2 = r2
    Null = Null
    Session = {s1,s2,s3,s4}
    User = {u1,u2}
    Request = {r1,r2}
    MaxRequests = 5
    MaxFaults = 0
SPECIFICATION MCSerialSpec
SYMMETRY Interchangeable
INVARIANTS
    BusAgreesWithStore
    ActiveSessionsAgree
    LogoutsTakeEffect
    ClearKillsOpenSessions
PROPERTY
    ImplementsRegistry
