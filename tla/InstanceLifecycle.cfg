SPECIFICATION Spec
CONSTANTS
    Plan <- MCPlan
    OperatorVersion = {"v1", "v2"}
    PlansOf <- MCPlansOf
    TriggersOf <- MCTriggersOf
    UID = {1, 2, 3, 4, 5, 6, 7, 8}
    InvalidPlans <- InvalidUpgrade
    MissingDependency = {"v2"}
    MaxWrites = 3
    MaxFaults = 2
INVARIANTS TypeOK StatusNeverAheadOfSpec NoForgottenPlan UnknownWhileRunning
PROPERTIES NoPlanOverride PlanStatusDiagram CleanupBeforeRemoval
CHECK_DEADLOCK FALSE
