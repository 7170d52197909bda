SPECIFICATION FairSpec
CONSTANTS
    SignBit = 8
    Alloc = 4
    TgSize = 2
    ProactiveH = 1
    CntMod = 3
    Naks <- MixedNaks
    None = None
INVARIANTS TypeOK OwnSlots QueueIsWaiting HeldNotRepaired GroupAtHand
PROPERTY RequestLeaves
CHECK_DEADLOCK FALSE
