CONSTANTS
    Base = 32
    MaxVarInt = 5
    Fixed32 = 2
    Messages <- MCMessages
    Before <- MCBefore
    Values64 <- MCLargeValues64
SPECIFICATION Spec
CHECK_DEADLOCK FALSE
INVARIANT BytesReadBack
