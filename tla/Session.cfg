SPECIFICATION Spec
CONSTANTS
    SignBit = 8
    Alloc = 2
    MaxFragments = 1
    Tpdus = {}
    LossCap = 1
    TxAlloc = 2
    MaxSent = 3
    MaxNet = 2
    None = None

INVARIANT NeverAhead
PROPERTY LossesExplained
CHECK_DEADLOCK FALSE
