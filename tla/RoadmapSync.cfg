CONSTANTS
    Phases <- MCPhases
    TierOf <- MCTierOf
    Roadmaps <- MCRoadmaps
    SyncConfigs <- MCSyncConfigs
    ApplyContexts = {"release-workflow", "nightly"}
    Runners = {"r1", "r2"}
    ListLimit = 2
    MaxSyncs = 2
    MaxTrackerEdits = 1
    MaxFailures = 1
SPECIFICATION SyncSpec
CHECK_DEADLOCK FALSE
INVARIANTS
    PlanAfterApplyIsEmpty
