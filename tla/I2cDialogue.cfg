CONSTANTS
    Client = {a, b}
    Cfg = {x}
    Default = Default
    Empty = Empty
    None = None
    MaxCalls = 2
SPECIFICATION Spec
INVARIANTS
    ServerInStep
PROPERTIES
    CallsAreAtomic
    CallsEnd
CHECK_DEADLOCK FALSE
