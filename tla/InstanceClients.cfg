SPECIFICATION SpecClients
CONSTANTS
    Plan <- MCPlan
    OperatorVersion = {"v1", "v2"}
    PlansOf <- MCPlansOf
    UID = {1, 2}
    Parameter = {"a", "b"}
    Value = {"", "x", "y"}
    Empty = ""
    None = none
    Undefined = undefined
    Catalogs <- MCCatalogs
    ParentWants <- MCParentWants
    CliUpdates <- MCCliUpdates
    UserChanges <- MCUserChanges
    MaxWrites = 3
    MaxExecutions = 4
PROPERTIES TaskDoneMeansApplied ReportedIsExecuted
CHECK_DEADLOCK FALSE
