SPECIFICATION Spec
CONSTANTS
  Kinds = {7, 8}
  Scalars <- MCScalars
  Strings <- MCStrings
  Raws <- MCRaws
  Members <- MCMembers
  Sizes <- MCSizes
  MaxLen = 12
  MaxDepth = 2
INVARIANTS
  TypeOK
  PosIsLength
  OpenHeadersInBuffer
  DHeadersDelimitBodies
  BodiesNest
PROPERTIES
  OnlyOpenHeadersRewritten
