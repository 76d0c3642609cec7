CONSTANTS
    l0 = l0
    l1 = l1
    Link = {l0, l1}
    Position = {p, q}
    NoPos = NoPos
    LastTap = 1
    Elinks <- MCElinks
SPECIFICATION Spec
INVARIANTS
    ReadyIsEarned
    CountedAtDelay
PROPERTIES
    DelayScanEnds
CHECK_DEADLOCK FALSE
