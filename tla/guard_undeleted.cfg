SPECIFICATION FairSpec
CONSTANTS
    u1 = u1
    u2 = u2
    p1 = p1
    p2 = p2
    Users = {u1}
    Projects = {p1}
    Owner <- MCOwner
    Requests = {}
    Loop = loop
    NoUser = NoUser
    NoProject = NoProject
    Grace = 1
    Retention = 1
    Lag = 0
    NoDeadline = NoDeadline
    KeepsSchedule = FALSE
    MaxFaults = 0
PROPERTY UnpaidIsDeleted
