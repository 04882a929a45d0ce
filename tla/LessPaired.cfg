SPECIFICATION Spec
CONSTANTS
    Configs <- LessPairedConfigs
INVARIANTS
    NoStepFails
CHECK_DEADLOCK FALSE
