SPECIFICATION Spec
CONSTANTS
    Name = {sc}
    None = None
    MaxAddresses = 2
    MaxPages = 2
    MaxSpawns = 2
    MaxLines = 1
CHECK_DEADLOCK FALSE
INVARIANTS LockIsReturned LiveIsListed OpenIsListed ShownIsTrue
PROPERTY StopForgets
