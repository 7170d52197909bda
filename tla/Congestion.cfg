SPECIFICATION Spec
CONSTANTS
    One = 4
    BitmapLen = 4
    Wrap = 64
    MaxSent = 5
    MaxAcks = 2
INVARIANT TypeOK
INVARIANT CreditedOnce
CHECK_DEADLOCK FALSE
