CONSTANTS
    MinSize = 40
    MaxSize = 16360
    Requests <- MCRequests
SPECIFICATION Spec
INVARIANT NotMultipleOfMaxTransfer
CHECK_DEADLOCK FALSE
