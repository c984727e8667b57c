SPECIFICATION Spec
CONSTANTS
    PlanSpecs <- SmallPlans
    Misconfigured <- Bad
    MaxTroubles = 3
    MaxExecutions = 2
    MaxEdits = 0
INVARIANTS FatalErrorOnAllLevels CompleteOnAllLevels
PROPERTIES KeepsOrder ProgressIsKept
CHECK_DEADLOCK FALSE
