SPECIFICATION Spec
CONSTANTS
    None = none
    Text <- MCText
    Folded <- MCFolded
    BadName = {}
    Fits <- MCFits
    Truthy = {"text", "1"}
    Stripped <- MCStripped
    File <- MCFile
    Pipelines <- MCPipelines
    Trees <- MCTrees
    Param = {"P"}
    Task = {"deploy", "t"}
    Plan = {"deploy", "extra"}
    Phase = {"x"}
    Step = {"s", "r"}
    Manifest = {"b.yaml"}
    Path = {"operator", "/operator"}
    ResourceLists <- MCResourceLists
    PipeAnswers <- MCPipeAnswers
    TaskKinds = {"Apply", "Pipe", "Toggle"}
    HandParams <- MCHandParams
    HandPlans <- MCHandPlans
    HandTemplates <- MCHandTemplates
    MaxCommands = 2
    MaxEdits = 2
    MaxFaults = 1
    MaxPicks = 2
INVARIANT CreatedRuns
PROPERTY NothingLost
CHECK_DEADLOCK FALSE
