SPECIFICATION Spec
CONSTANTS
    Rank = {r0, r1}
    Coord = r0
    TrainSteps = 5
    SaveSteps = 2
    IsAsync = TRUE
    Growth <- AllGrowth
    MaxLife = 1
    MaxFault = 1
PROPERTIES
    JobEnds
CHECK_DEADLOCK FALSE
