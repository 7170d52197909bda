SPECIFICATION Spec
CONSTANTS
    Settings <- Choices
    Preset <- Timers
    Groups = {g1}
    Careful = TRUE
    MaxLost = 1
    Uint16 = 65536
    MaxFragments = 16
    MaxApdu = 1500
    IpHeader = 20
    UdpHeader = 8
    PgmHeader = 16
    DataHeader = 8
    OptionHeaders = 7
    FragmentOption = 13
    CongestionOption = 13
INVARIANTS AssertionsHold NothingLeaks FragmentsFit
\* the socket is closed, or its bind failed and it cannot be bound again
CHECK_DEADLOCK FALSE
