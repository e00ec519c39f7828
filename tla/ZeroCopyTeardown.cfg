CONSTANTS
    Frames = {f1, f2}
    Getters = {g1}
    NoThread = NoThread
SPECIFICATION Spec
INVARIANT NoCallbackAfterFree
