SPECIFICATION Spec
CONSTANTS
    CapSel = {27, 30, 31}
    Startup = 27
    Forced = 30
    I2cPeriod = 6
    CapturePeriod = 12
    ScanPeriod = 24
CHECK_DEADLOCK FALSE
INVARIANTS CountsTuned RunsBetweenPasses OneFailedLadder LadderIsTimely
    VoltageOnSchedule
PROPERTY ComparisonResumes
