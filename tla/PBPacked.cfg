CONSTANTS
    Base = 32
    MaxVarInt = 5
    Fixed32 = 2
    Messages <- MCMessages
    Before <- MCBefore
    Values64 <- MCValues64
SPECIFICATION RoundTrip
CHECK_DEADLOCK FALSE
INVARIANT PackedComesBack
