CONSTANTS
    t1 = t1
    t2 = t2
    t3 = t3
    Threads <- MCThreads
    TicketMod = 4
SPECIFICATION FairSpec
INVARIANT TypeOK
INVARIANT Exclusion
PROPERTY IsRwLock
PROPERTY EveryoneEnters
CHECK_DEADLOCK FALSE
