CONSTANTS
    Frames = {f1, f2, f3}
    Getters = {g1, g2}
    NoThread = NoThread
SPECIFICATION FairSpec
INVARIANTS
    TypeOK
    EveryFrameInOnePlace
    CompletionAccounted
    PopsTheFrameItWaitedFor
    NothingLeftReleased
PROPERTIES
    ImplementsFramePool
    CallEnds
    EntrustedFrameComesBack
