SPECIFICATION Spec
CONSTANTS
    h1 = h1
    h2 = h2
    staging = staging
    Production = Production
    Provisioner = Provisioner
    Slugs <- TwoSlugs
    Unique = FALSE
    Handlers <- TwoHandlers
    Serves <- Roles
    MaxStages = 2
    MaxServed = 2
    Faults <- AnyFault
INVARIANTS TypeOK OneStagePerSlug QuietStagesAreTrue
PROPERTIES DeletedStaysDeleted BackfillGivesAStage DeletedStagesLeaveURLs
CHECK_DEADLOCK FALSE
