SPECIFICATION Spec
CONSTANTS
    Rank = {r0, r1}
    Coord = r0
    TrainSteps = 5
    SaveSteps = 2
    IsAsync = TRUE
    Growth <- SomeGrowth
    MaxLife = 2
    MaxFault = 1
INVARIANTS
    PointerWhole
    NoLostResult
    CollectivesPair
    PlanWillCome
    SameStart
PROPERTIES
    FoundNeverBack
CHECK_DEADLOCK FALSE
