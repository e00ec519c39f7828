CONSTANTS
    MinSize = 40
    MaxSize = 16360
    Requests <- MCRequests
SPECIFICATION Spec
INVARIANTS
    WholeWordsWithinLimits
    OnlyAlignedMultiplesSurvive
    CloseToRequest
CHECK_DEADLOCK FALSE
