SPECIFICATION Spec
CONSTANTS
    g1 = g1
    g2 = g2
    Production = Production
    NoStage = NoStage
    Stages <- OneStage
    MaxRuns = 2
    Paths <- OneOrNone
    WithImage <- OneRun
    Goroutines <- TwoGoroutines
    Serves <- Roles
    MaxReleases = 2
    MaxServed = 2
    Faults <- AnyFault
INVARIANTS TypeOK  SuccessIsEarned StageAgrees
PROPERTIES OnlyOldNewsReopens
CHECK_DEADLOCK FALSE
