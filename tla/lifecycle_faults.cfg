SPECIFICATION Spec
CONSTANTS
    p1 = p1
    h1 = h1
    h2 = h2
    NoProject = NoProject
    Projects <- OneProject
    Handlers <- TwoHandlers
    MaxAttempts = 2
    MergesEmptyFields = FALSE
    Faults <- AnyFault
SYMMETRY SwapHandlers
INVARIANTS TypeOK NoHollowProject NeverOverpromises
PROPERTIES OnlyStaleWritesLeaveTheGraph OnlyStaleWritesDropFacts
