SPECIFICATION Spec
CONSTANTS
  NKids = 3
  NMicro = 2
  NSteps = 2
  Configs <- SkipConfigs
INVARIANT UntriggeredReduce
CHECK_DEADLOCK FALSE
