SPECIFICATION FairSpec
CONSTANTS
    Plan <- DeployAndCleanup
    OperatorVersion = {"v1", "v2"}
    PlansOf <- TwoVersions
    TriggersOf <- MCTriggersOf
    UID = {1, 2, 3, 4, 5, 6, 7, 8}
    InvalidPlans <- Nothing
    MissingDependency <- Nothing
    MaxWrites = 2
    MaxFaults = 1
PROPERTIES PlanIsFinished DeletionEnds
CHECK_DEADLOCK FALSE
