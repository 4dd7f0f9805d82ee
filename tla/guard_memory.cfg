SPECIFICATION FairSpec
CONSTANTS
    u1 = u1
    u2 = u2
    p1 = p1
    p2 = p2
    Users = {u1}
    Projects = {p1}
    Owner <- MCOwner
    Requests = {r1}
    Loop = loop
    NoUser = NoUser
    NoProject = NoProject
    Grace = 0
    Retention = 3
    Lag = 1
    NoDeadline = NoDeadline
    KeepsSchedule = TRUE
    MaxFaults = 0
INVARIANT TypeOK
PROPERTIES DeletedOnlyAfterRetention UnpaidIsDeleted
