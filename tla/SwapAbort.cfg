SPECIFICATION Spec
CONSTANTS
    Configs <- AbortConfigs
PROPERTIES
    AbortSynchronizes
