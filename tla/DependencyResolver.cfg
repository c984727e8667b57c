SPECIFICATION FairSpec
CONSTANTS
    Package = {a, b, c}
    Root = a
    TaskName = {"x", "y"}
    Missing = none
    TaskLists <- MCTaskLists
INVARIANTS TypeOK ResolvedIsComplete RefusedForAReason PinnedToResolved
PROPERTIES NeverAgain WalkEnds
CHECK_DEADLOCK FALSE
