SPECIFICATION Spec
CONSTANTS
    SignBit = 8
    Alloc = 4
    MaxFragments = 2
    Tpdus <- WrapTpdus
    Sent <- WrapSent
    Trails = {13, 15}
    LossCap = 1
INVARIANTS TypeOK RingConsistent CountersMatch OnlyLostAborts
PROPERTIES CommittedKept DeliversInOrder
CHECK_DEADLOCK FALSE
