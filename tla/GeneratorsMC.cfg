CONSTANTS
    Names <- MCNames
    Files <- MCFiles
SPECIFICATION Generators
CHECK_DEADLOCK FALSE
INVARIANTS EachOnce DefinedBefore MembersBefore
