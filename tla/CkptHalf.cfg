SPECIFICATION Spec
CONSTANTS
    Rank = {r0, r1}
    Coord = r0
    TrainSteps = 3
    SaveSteps = 2
    IsAsync = TRUE
    Growth <- SteadyOnly
    MaxLife = 2
    MaxFault = 1
INVARIANT NeverHalfWritten
CHECK_DEADLOCK FALSE
