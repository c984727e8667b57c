SPECIFICATION FairSpec
CONSTANTS
    Package <- Packages
    None = none
    MaxWalk = 4
    Client = {"u", "w"}
    Commands <- MCCommands
    Repairer = "u"
    Published <- AtFirst
    MaxFaults = 1
INVARIANTS OperatorsKnown DependenciesFirst
PROPERTY RetriedInstallEnds
CHECK_DEADLOCK FALSE
