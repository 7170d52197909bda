CONSTANTS
    t1 = t1  t2 = t2  s1 = s1  s2 = s2  src = src  adm = adm
    NoSock = NoSock
    Threads <- MCThreads
    Socks <- MCSocks
    Sources <- MCSources
    Admins <- MCAdmins
    RecvModes <- BothWays
    MaxCloses = 1
    Careful = TRUE
SPECIFICATION FairSpec
INVARIANT NeverTouchesFreed InventoryComplete
PROPERTY CloseReturns
CHECK_DEADLOCK FALSE
