SPECIFICATION Spec
CONSTANTS
    Configs <- Sweep
INVARIANTS
    PairwiseFifo
    ComputeInPlace
    MirroredBatches
    GatheredAtCompute
    ReduceAfterLast
    SwapInOrder
