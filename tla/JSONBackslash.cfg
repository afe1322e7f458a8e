CONSTANTS
    Alike <- MCAlike
    Unescape <- MCUnescape
    ToNumber <- MCToNumber
    IsTrue <- MCIsTrue
SPECIFICATION RoundTrip
CHECK_DEADLOCK FALSE
INVARIANT StringsComeBack
