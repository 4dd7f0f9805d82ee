SPECIFICATION FairSpec
CONSTANTS
    u1 = u1
    u2 = u2
    p1 = p1
    p2 = p2
    Users = {u1, u2}
    Projects = {p1, p2}
    Owner <- MCOwner
    Requests = {}
    Loop = loop
    NoUser = NoUser
    NoProject = NoProject
    Grace = 2
    Retention = 1
    Lag = 1
    NoDeadline = NoDeadline
    KeepsSchedule = FALSE
    MaxFaults = 1
PROPERTIES SuspendedOnlyAfterGrace BrokeIsSuspended
