SPECIFICATION Spec
CONSTANTS
    g1 = g1
    g2 = g2
    Project = Project
    Modes <- AllModes
    Goroutines <- TwoGoroutines
    Serves <- Roles
    MaxTries = 2
    MaxServed = 3
    Faults <- AnyFault
INVARIANTS TypeOK CreatedIsWhole DeletedIsGone
PROPERTIES ImplementsHostEnvironment
