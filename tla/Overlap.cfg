SPECIFICATION FairSpec
CONSTANTS
    Layers <- UpToTwoLayers
    Sessions = 2
INVARIANTS
    TypeOK
    CommFirst
    WellPaired
    QuietBetweenRuns
PROPERTIES
    RunReturns
CHECK_DEADLOCK FALSE
