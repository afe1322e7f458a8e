CONSTANTS
    MaxChars = 1
    Names <- MCNames
    Values <- MCValues
SPECIFICATION RoundTrip
CHECK_DEADLOCK FALSE
INVARIANT TopLevelComesBack
