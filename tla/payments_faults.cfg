SPECIFICATION FairSpec
CONSTANTS
    u1 = u1
    p1 = p1
    r1 = r1
    r2 = r2
    Meter = Meter
    NoUser = NoUser
    NoPayment = NoPayment
    Users <- OneUser
    Payments <- OnePayment
    Requests <- TwoRequests
    Owner <- ToTheUser
    Amount <- Three
    Deposits <- Small
    Costs <- Medium
    Opening = 1
    MaxMoves = 2
    MaxFaults = 2
CHECK_DEADLOCK FALSE
INVARIANTS TypeOK CreditedOnce AcknowledgedIsCredited LedgerExplainsBalance
PROPERTIES PaidIsCredited
