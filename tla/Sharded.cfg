SPECIFICATION Spec
CONSTANTS
  NKids = 3
  NMicro = 2
  NSteps = 2
  Configs <- MCConfigs
INVARIANTS  ComputesFresh GradientsConserved StepSeesAll LiveBound
\* The run ends after NSteps optimizer steps.
CHECK_DEADLOCK FALSE
