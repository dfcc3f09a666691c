SPECIFICATION Spec
CONSTANTS
  Kinds = {7}
  Scalars <- MCScalars
  Strings <- MCStrings
  Raws <- MCRaws
  Members <- MCMembers
  Sizes <- MCSizes
  MaxItems = 3
  MaxDepth = 2
INVARIANTS
  CursorsMeet
PROPERTIES
  ImplementsChannel
