CONSTANT MaxFiles = 2
SPECIFICATION Spec
INVARIANTS
    HandlerHasItsMsi
    OpenableMeansMapped
    WholeCycleIsClean
PROPERTY RemoveStopsDmaFirst
