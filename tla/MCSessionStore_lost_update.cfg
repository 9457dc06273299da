CONSTANTS
    s1 = s1
    s2 = s2
    s3 = s3
    u1 = u1
    r1 = r1
    r2 = r2
    Null = Null
    Session = {s1,s2,s3}
    User = {u1}
    Request = {r1,r2}
    MaxRequests = 4
    MaxFaults = 0
SPECIFICATION MCSpec
INVARIANTS
    ClearKillsOpenSessions
