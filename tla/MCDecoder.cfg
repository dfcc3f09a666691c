SPECIFICATION DSpec
CONSTANTS
  Inputs <- MCInputs
  Skips <- MCSkips
INVARIANTS
  CursorBounded
PROPERTIES
  ReadsStayInside
  ReadsMakeProgress
