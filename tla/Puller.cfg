CONSTANTS
    NReaders = 2
    NRuns = 3
    Nobody = Nobody
    Dir = {d1, d2}
    Careful = TRUE
    Interrupts = TRUE
    MaxCrashes = 1
SPECIFICATION Spec
INVARIANTS
    FilesAreScans
    NothingVanishes
PROPERTIES
    LossIsLate
    StartNeverRefused
    SessionSpec
    StopEnds
    InterruptEnds
CHECK_DEADLOCK FALSE
