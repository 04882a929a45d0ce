SPECIFICATION Spec
CONSTANTS
    Configs <- AllConfigs
INVARIANTS
    ReadsIntact
    TransfersIntact
    BuffersAccounted
    TwoLayers
