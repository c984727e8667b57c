SPECIFICATION Spec
CONSTANTS
    Plan <- MCPlan
    OperatorVersion = {"v1", "v2"}
    PlansOf <- MCPlansOf
    UID = {1, 2}
    Parameter = {"a", "b"}
    Value = {"", "x", "y"}
    Empty = ""
    None = none
    Undefined = undefined
    Catalogs <- MCCatalogs
INVARIANTS TypeOK ParametersValid ImmutablePinned IdleIsUpToDate
PROPERTIES ImmutableNotReplaced NamedTriggerScheduled
CHECK_DEADLOCK FALSE
