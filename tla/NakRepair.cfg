SPECIFICATION FairSpec
CONSTANTS
    SignBit = 8
    Alloc = 2
    MaxFragments = 1
    Tpdus <- WrapTpdus
    Sent <- WrapSent
    Trails = {13}
    LossCap = 1
    BoIvl = 3
    RptIvl = 2
    RdataIvl = 2
    SpmrIvl = 1
    PeerExpiry = 3
    NcfRetries = 2
    DataRetries = 2
    NakListLen = 3
INVARIANTS TypeOK NaksBounded
PROPERTIES Suppressed DispatchSettles RepairEnds
CHECK_DEADLOCK FALSE
