SPECIFICATION Spec
CONSTANTS
    SignBit = 8
    Alloc = 2
    MaxFragments = 2
    Peers = {p1, p2}
    MsgLen = 2
    Tpdus <- TwoTpdus
    Sent <- TwoSent
    Trails = {0, 1}
    LossCap = 1
INVARIANTS LosersPending HandedIsKept ReadableNoticed
CHECK_DEADLOCK FALSE
SYMMETRY PeerSymmetry
