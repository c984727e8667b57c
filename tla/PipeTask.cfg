SPECIFICATION Spec
CONSTANTS
    Absent = Absent
    Foreign = Foreign
    Resources <- MCResources
    Kind <- MCKind
    DependsOn <- MCDependsOn
    Known <- MCKnown
    Unhashed = {}
    Values <- MCValues
    Plans <- MCPlans
    MaxExecutions = 2
    MaxBehind = 1
    MaxTroubles = 1
INVARIANTS Converged ArtifactsOfOnePod
PROPERTIES OnlyNeededChanges PlanEnds
CHECK_DEADLOCK FALSE
