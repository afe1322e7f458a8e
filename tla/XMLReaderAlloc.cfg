CONSTANTS
    MaxLength = 3
    MaxPieces = 3
    Inputs <- MCInputs
SPECIFICATION ReaderSpec
CHECK_DEADLOCK FALSE
INVARIANT AllocNeverFails
