CONSTANTS
  Roots = {"struct", "map", "scalars", "containers"}
  Scalars = {"number"}
  Keys = {"string"}
  MaxDepth = 3
  MaxItems = 2
SPECIFICATION Spec
CHECK_DEADLOCK FALSE
INVARIANT GrammarKept
