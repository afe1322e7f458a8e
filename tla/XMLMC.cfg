CONSTANTS
    MaxLength = 4
    MaxPieces = 4
    Inputs <- MCInputs
    MaxChars = 3
    Names <- MCNames
    Values <- MCValues
SPECIFICATION XML
CHECK_DEADLOCK FALSE
INVARIANTS ReaderTypeOK AllocInBounds PassesAgree LinksInverse DocumentsRead AcceptsBalanced
           TypeOK TrueIfWhole TextReadsBack ElementsComeBack
PROPERTIES CountingEnds BalancedRead WritesXML
