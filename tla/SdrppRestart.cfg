CONSTANTS
    TimeoutKick = 12
    OverflowKick = 24
    MaxFaults = 3
    MaxStale = 2
SPECIFICATION Spec
PROPERTY StreamRestarted
