SPECIFICATION MCFairSpec
CONSTANTS
    User = {u1, u2}
    Name = {n1}
    Password = {p1, p2, Empty}
    Empty = Empty
    Request = {r1, r2}
    Client = {c1, c2}
    NameOf <- Namesakes
    Null = Null
    MaxRequests = 2
    MaxWrites = 1
    MaxFaults = 2
INVARIANTS
    TypeOK
    PooledClientsAreClean
    PasswordsAreGiven
    ProgramsAgree
PROPERTIES
    MigratedPasswordsOpen
    RequestsFinish
