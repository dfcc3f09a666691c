SPECIFICATION Spec
CONSTANTS
  Structs <- MCStructs
  Unions <- MCUnions
  EncodePart <- EncodePart3
  DecodePart <- DecodePart3
  ZeroPart <- ZeroPart3
  EncodablePart <- EncodablePart3
  IsTypePart <- IsTypePart3
  IsValuePart <- IsValuePart3
  ShapedPart <- ShapedPart3
  AgreePart <- AgreePart3
  Samples <- MCSamples
  Pairs <- MCLabels
  Orders = {"LE", "BE"}
  MaxPayload = 60
  MaxFaults = 1
  MaxSamples = 1
INVARIANT
  SampleArrives
