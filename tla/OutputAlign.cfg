SPECIFICATION Spec
CONSTANTS
    NLinks = 3
    MaxLatency = 4
    StartBypass = 2
    MaxOffset = 2
    Orbit = 12
    Depth = 13
CHECK_DEADLOCK FALSE
INVARIANTS
    StoppedScanMeets
    LinksMeet
    AlignedIf
    BypassAligns
