SPECIFICATION Spec
CONSTANTS
    Plan <- MCPlan
    OperatorVersion = {"v1", "v2"}
    PlansOf <- MCPlansOf
    TriggersOf <- MCTriggersOf
    UID = {1, 2, 3, 4, 5, 6, 7, 8}
    InvalidPlans <- Nothing
    MissingDependency <- Nothing
    MaxWrites = 2
    MaxFaults = 0
PROPERTY FinalizerKeptUntilCleanup
CHECK_DEADLOCK FALSE
