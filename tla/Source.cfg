SPECIFICATION Spec
CONSTANTS
    t1 = t1
    t2 = t2
    a = a
    b = b
    c = c
    Threads <- MCThreads
    Apdus <- MCApdus
    Fragments <- MCFragments
    Calls <- MCCalls
    UseRate = TRUE
    GroupSize = 2
    Careful = TRUE
INVARIANTS TypeOK AcceptedOnce PaidBeforeSent SentIsFollowedUp
CHECK_DEADLOCK FALSE
