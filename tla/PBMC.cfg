CONSTANTS
    Numbers = {1, 8191, 8192, 8193}
    MaxFields = 3
    Range32 = 262144
    Range64 = 4194304
    Inputs <- MCInputs
    Base = 32
    MaxVarInt = 5
    Fixed32 = 2
    Messages <- MCMessages
    Before <- MCBefore
    Values64 <- MCValues64
SPECIFICATION Protobuf
CHECK_DEADLOCK FALSE
INVARIANTS ReaderTypeOK AllocInBounds NumbersFilled RunsLinked AcceptsWhole AdjacentFieldsFound
           TypeOK SizeExact BytesReadBack MessageComesBack
PROPERTY WholeReturns
