CONSTANTS
    NReaders = 3
    NRuns = 2
    Nobody = Nobody
    Dir = {d1}
    Careful = FALSE
    Interrupts = FALSE
    MaxCrashes = 1
SPECIFICATION Spec
INVARIANTS
    RunningHasReader
    NoScanTwice
CHECK_DEADLOCK FALSE
