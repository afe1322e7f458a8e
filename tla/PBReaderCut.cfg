CONSTANTS
    Numbers = {1}
    MaxFields = 2
    Range32 = 262144
    Range64 = 4194304
    Inputs <- MCInputs
SPECIFICATION ReaderSpec
CHECK_DEADLOCK FALSE
PROPERTY OverrunReturns
