SPECIFICATION Spec
CONSTANTS
  Structs <- MCStructs
  Unions <- MCUnions
  EncodePart <- EncodePart3
  DecodePart <- DecodePart3
  ZeroPart <- ZeroPart3
  EncodablePart <- EncodablePart3
  IsTypePart <- IsTypePart3
  IsValuePart <- IsValuePart3
  ShapedPart <- ShapedPart3
  AgreePart <- AgreePart3
  Keys <- MCKeys
  Samples <- MCSamples
  Pairs <- MCPlain
  Orders = {"LE", "BE"}
  MaxPayload = 70
  MaxSamples = 2
INVARIANT
  SameKeySameInstance
