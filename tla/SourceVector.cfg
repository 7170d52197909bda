SPECIFICATION Spec
CONSTANTS
    t1 = t1
    t2 = t2
    a = a
    b = b
    c = c
    Threads <- MCThreads
    Apdus <- MCApdus
    Fragments <- MCFragments
    Calls <- VectorCalls
    UseRate = TRUE
    GroupSize = 2
    Careful = FALSE
INVARIANT OffsetAtEnd
CHECK_DEADLOCK FALSE
