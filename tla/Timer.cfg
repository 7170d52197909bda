SPECIFICATION Spec
CONSTANTS
    Intervals <- Decaying
    Ambient = 4
    PeerExpiry = 5
    Deadlines = {2}
    MaxLate = 2
    Careful = TRUE
INVARIANTS TypeOK 
