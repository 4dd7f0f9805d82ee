SPECIFICATION FairSpec
CONSTANTS
    p1 = p1
    h1 = h1
    h2 = h2
    NoProject = NoProject
    Projects <- OneProject
    Handlers <- OneHandler
    MaxAttempts = 4
    MergesEmptyFields = TRUE
    Faults <- CallFaults
INVARIANTS SettledRecordMatches
PROPERTIES WorkSettles
