SPECIFICATION FairSpec
CONSTANTS
    u1 = u1
    r1 = r1
    r2 = r2
    Loop = Loop
    NoUser = NoUser
    Users <- OneUser
    Requests <- TwoRequests
    Exempt <- NoOne
    Balances <- TwoBalances
    Spends <- FewSpends
    Reserves <- FewReserves
    MaxFaults = 1
INVARIANTS TypeOK PendingIsReserved NoOvercommit
PROPERTIES GraceFollowsMoney
