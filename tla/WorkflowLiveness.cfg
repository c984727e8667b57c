SPECIFICATION FairSpec
CONSTANTS
    PlanSpecs <- AllPlans
    Misconfigured <- None
    MaxTroubles = 1
    MaxExecutions = 2
    MaxEdits = 1
PROPERTY PlanEnds
CHECK_DEADLOCK FALSE
