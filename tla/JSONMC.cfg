CONSTANTS
    MaxLen = 4
    Inputs <- MCInputs
    Roots = {"struct", "map", "scalars"}
    Scalars = {"number"}
    Keys = {"string"}
    MaxDepth = 3
    MaxItems = 2
SPECIFICATION JSON
CHECK_DEADLOCK FALSE
INVARIANTS ReaderTypeOK AllocInBounds PassesAgree LinksInverse DocumentsRead AcceptedText
           TypeOK TrueIfWhole DocumentComesBack
PROPERTIES Terminates WritesJSON
