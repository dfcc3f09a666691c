---------------------------- MODULE TypeContract ----------------------------
(***************************************************************************)
(* What the code of TypeCodec relies on, of the types a type is made of    *)
(* (PartFaithful), and what it promises of the type itself (Faithful).     *)
(* Both say the same, the one of the ...Part operators, the other of those *)
(* of TypeCodec.                                                           *)
(***************************************************************************)
EXTENDS TypeCodec, CdrContract

\* A decoder that may have passed the end by the padding, and one it becomes.
Within(d) == d \in Decoders /\ d.pos <= Bound(d.data)
Follows(d, r) == r.ok \in BOOLEAN /\ Within(r.d) /\ r.d.data = d.data

SendablePart(t, v) == IsValuePart(t, v) /\ EncodablePart(t, v)
SendableField(f, v) == IsFieldValue(f, v) /\ EncodableField(f, v)

\* As good as v, for a destination that may have held something else.
Alike(t, v, x) == AgreePart(TRUE, t, v, t, x)
SamePart(t, v, x) == AgreePart(FALSE, t, v, t, x)

PartZeroes(t) == ShapedPart(t, ZeroPart(t))

\* Decoding, of whatever data, keeps the shape of the destination.
PartKeepsShape(t) ==
  \A d, old : Within(d) /\ ShapedPart(t, old) =>
    /\ Follows(d, DecodePart(t, d, old))
    /\ ShapedPart(t, DecodePart(t, d, old).v)

PartWrites(t) ==
  \A v, e : SendablePart(t, v) /\ Full(e) => Extends(e, EncodePart(t, v, e))

\* What was encoded is read back, and all of it: into a new object as it was.
PartReads(t) ==
  \A v, e, d, old :
    /\ SendablePart(t, v) /\ Full(e) /\ EncodePart(t, v, e).pos \in Uint32
    /\ Shows(e, EncodePart(t, v, e), d) /\ ShapedPart(t, old)
    => LET r == DecodePart(t, d, old)
       IN  /\ Shown(e, EncodePart(t, v, e), d, r)
           /\ r.ok => /\ old = ZeroPart(t) => r.v = v
                      /\ Alike(t, v, r.v)

PartAgrees(t) ==
  \A v : IsValuePart(t, v) => SamePart(t, v, v) /\ Alike(t, v, v)

PartIsPlain(t) ==
  IsFixedPrimitive(t) =>
    /\ t.n \in {1, 2, 4, 8}
    /\ \A v : IsValuePart(t, v) => v \in Seq(Byte) /\ Len(v) = t.n
    /\ \A v, e : EncodePart(t, v, e) = WriteScalar(e, v)

PartFaithful(t) ==
  /\ PartZeroes(t) /\ PartKeepsShape(t)
  /\ PartWrites(t) /\ PartReads(t) /\ PartAgrees(t) /\ PartIsPlain(t)
PartsFaithful == \A t : IsTypePart(t) => PartFaithful(t)

-----------------------------------------------------------------------------
AlikeType(tw, v, tr, x) == Agree(TRUE, tw, v, tr, x)
SameType(tw, v, tr, x) == Agree(FALSE, tw, v, tr, x)

Sendable(t, v) == IsValue(t, v) /\ Encodable(t, v)
KeepsShape(t) ==
  \A d, old : Within(d) /\ Shaped(t, old) =>
    Follows(d, DecodeType(t, d, old)) /\ Shaped(t, DecodeType(t, d, old).v)
Writes(t) ==
  \A v, e : Sendable(t, v) /\ Full(e) => Extends(e, EncodeType(t, v, e))
ReadBack(t) ==
  \A v, e, d, old :
    /\ Sendable(t, v) /\ Full(e) /\ EncodeType(t, v, e).pos \in Uint32
    /\ Shows(e, EncodeType(t, v, e), d) /\ Shaped(t, old)
    => LET r == DecodeType(t, d, old)
       IN  /\ Shown(e, EncodeType(t, v, e), d, r)
           /\ r.ok => /\ old = Zero(t) => r.v = v
                      /\ AlikeType(t, v, t, r.v)
SelfAgrees(t) == \A v : IsValue(t, v) => SameType(t, v, t, v) /\ AlikeType(t, v, t, v)
IsPlain(t) ==
  IsFixedPrimitive(t) =>
    /\ t.n \in {1, 2, 4, 8}
    /\ \A v : IsValue(t, v) => v \in Seq(Byte) /\ Len(v) = t.n
    /\ \A v, e : EncodeType(t, v, e) = WriteScalar(e, v)
Faithful(t) ==
  /\ Shaped(t, Zero(t)) /\ KeepsShape(t)
  /\ Writes(t) /\ ReadBack(t) /\ SelfAgrees(t) /\ IsPlain(t)
=============================================================================
