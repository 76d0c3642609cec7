CONSTANTS
    NReaders = 1
    NRuns = 1
    Nobody = Nobody
    Dir = {d1}
    Careful = TRUE
    Interrupts = FALSE
    MaxCrashes = 0
SPECIFICATION Spec
PROPERTIES StopStops
CHECK_DEADLOCK FALSE
