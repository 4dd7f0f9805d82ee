SPECIFICATION Spec
CONSTANTS
    g1 = g1
    g2 = g2
    Goroutines <- TwoGoroutines
    Serves <- Roles
    Asks <- ThreeAsks
    RepositoryName = "web"
    ExposedPort = 3000
    HasDomain = TRUE
    HasPublicURL = TRUE
    MaxSecond = 1
    MaxServed = 3
    Faults <- AnyFault
CHECK_DEADLOCK FALSE
INVARIANTS TypeOK PullRequestsAreWhole WorkflowFindsItsFiles WaitingCanBeMatched
