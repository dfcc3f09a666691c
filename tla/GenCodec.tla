------------------------------ MODULE GenCodec ------------------------------
(***************************************************************************)
(* The code generated for an IDL file: the methods of a type call those of *)
(* the types it is made of.  Types of level 0 are made of no others, those *)
(* of level n of types of level n - 1.  What is sent is made of types of   *)
(* level 3, so it is at most five levels deep, which is the bound on the   *)
(* types of all runs.                                                      *)
(***************************************************************************)
EXTENDS CdrOps

CONSTANTS Structs, Unions               \* see TypeCodec

\* There is no type below level 0.
NoEncode(t, v, e) == e
NoDecode(t, d, old) == Failed(d)
NoZero(t) == <<>>
NoType(t) == FALSE
NoValue(t, v) == FALSE
NoAgree(leftovers, tw, v, tr, x) == FALSE

L0 == INSTANCE TypeCodec WITH
  EncodePart <- NoEncode, DecodePart <- NoDecode, ZeroPart <- NoZero,
  EncodablePart <- NoValue, IsTypePart <- NoType, IsValuePart <- NoValue,
  ShapedPart <- NoValue, AgreePart <- NoAgree

L1 == INSTANCE TypeCodec WITH
  EncodePart <- L0!EncodeType, DecodePart <- L0!DecodeType, ZeroPart <- L0!Zero,
  EncodablePart <- L0!Encodable, IsTypePart <- L0!IsType, IsValuePart <- L0!IsValue,
  ShapedPart <- L0!Shaped, AgreePart <- L0!Agree

L2 == INSTANCE TypeCodec WITH
  EncodePart <- L1!EncodeType, DecodePart <- L1!DecodeType, ZeroPart <- L1!Zero,
  EncodablePart <- L1!Encodable, IsTypePart <- L1!IsType, IsValuePart <- L1!IsValue,
  ShapedPart <- L1!Shaped, AgreePart <- L1!Agree

L3 == INSTANCE TypeCodec WITH
  EncodePart <- L2!EncodeType, DecodePart <- L2!DecodeType, ZeroPart <- L2!Zero,
  EncodablePart <- L2!Encodable, IsTypePart <- L2!IsType, IsValuePart <- L2!IsValue,
  ShapedPart <- L2!Shaped, AgreePart <- L2!Agree
=============================================================================
