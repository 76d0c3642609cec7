CONSTANTS
    Client = {a, b}
    NLinks = 2
    Depth = 2
    None = None
    MaxCalls = 5
    MaxMismatches = 2
SPECIFICATION Spec
INVARIANTS
    StopDiesOnly
    DataOfTheStop
PROPERTIES
    RowsAreWhole
    StopLeavesNothing
CHECK_DEADLOCK FALSE
