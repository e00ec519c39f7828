CONSTANTS
    MaxBufs = 2
    Lens = {1, 2}
    Pages <- MCPages
    WindowEnd = 5
    HoleLo = 1
    HoleHi = 2
    PoolRegion <- MCPoolRegion
    PoolSizes = {2, 3}
    SinkSizes = {1}
    HoldMax = 1
    Tries = 2
SPECIFICATION Spec
INVARIANT UserSeesTheBuffer
