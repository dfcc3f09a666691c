----------------------- MODULE SampleExchange_proofs -----------------------
(***************************************************************************)
(* What arrives of what is published, for types of any depth, values of    *)
(* any size and payloads cut anywhere: the guarantees of SampleExchange,   *)
(* from the round trip of TypeCodec_proofs.                                *)
(***************************************************************************)
EXTENDS SampleExchange, TypeCodec_proofs

(***************************************************************************)
(* The inductive invariant                                                 *)
(***************************************************************************)
Published(v) == v \in Samples[W] /\ IsSample(W, v)
PayloadOf(v) == MarshalCDR(W, v, order)

\* Whole, or what was left in front of a cut.
IsWire(w) ==
  \E v, n : /\ Published(v) /\ n \in 0 .. Len(PayloadOf(v))
            /\ w = [data |-> SubSeq(PayloadOf(v), 1, n), v |-> v,
                    whole |-> n = Len(PayloadOf(v))]

\* What an UnmarshalCDR that ended with r, into a new object if `fresh', says
\* of the object.
IsTaken(t) ==
  /\ t.ok <=> t.whole
  /\ t.ok => /\ t.left = 0
             /\ AlikeType(StructRef(W), t.v, StructRef(R), dest)
             /\ t.fresh => SameType(StructRef(W), t.v, StructRef(R), dest)

ExchangeInv ==
  /\ types \in Pairs /\ order \in Orders
  /\ Shaped(StructRef(R), dest)
  /\ wire = <<>> \/ \E w : wire = <<w>> /\ IsWire(w)
  /\ took = <<>> \/ \E t : took = <<t>> /\ IsTaken(t)

-----------------------------------------------------------------------------
LEMMA PairsKnown ==
  ASSUME AllCompatible, types \in Pairs, order \in Orders
  PROVE  /\ Compatible(W, R) /\ IsStruct(W) /\ IsStruct(R) /\ order \in ByteOrders
BY ExchangeAssumption DEF AllCompatible, Compatible, W, R

LEMMA SampleFits ==
  ASSUME SamplesTyped, PayloadsFit, AllCompatible, types \in Pairs, order \in Orders,
         NEW v \in Samples[W], Encodable(StructRef(W), v)
  PROVE  /\ IsSample(W, v) /\ Len(PayloadOf(v)) \in Uint32
BY PairsKnown DEF SamplesTyped, PayloadsFit, IsSample, Sendable, PayloadOf, W

LEMMA PublishedFits ==
  ASSUME SamplesTyped, PayloadsFit, AllCompatible, types \in Pairs, order \in Orders,
         NEW v, Published(v)
  PROVE  /\ Len(PayloadOf(v)) \in Uint32
BY SampleFits DEF Published, IsSample, Sendable

\* What MarshalCDR returned, all of it.
LEMMA WholePayload ==
  ASSUME PartsFaithful, AllCompatible, types \in Pairs, order \in Orders, NEW v, Published(v)
  PROVE  /\ PayloadOf(v) \in Seq(Byte) /\ Len(PayloadOf(v)) \in 0 .. Len(PayloadOf(v))
         /\ SubSeq(PayloadOf(v), 1, Len(PayloadOf(v))) = PayloadOf(v)
<1> DEFINE M == PayloadOf(v)
<1>1. M \in Seq(Byte)
  <2>1. W \in DOMAIN Structs /\ IsSample(W, v) /\ order \in ByteOrders
    BY PairsKnown DEF Published, IsStruct
  <2> QED
    BY <2>1, MarshalType DEF PayloadOf
<1> HIDE DEF M
<1> QED
  BY <1>1 DEF M

\* Steps keep the types and the order of the bytes.
LEMMA WireKept ==
  ASSUME types' = types, order' = order, NEW w, IsWire(w)
  PROVE  IsWire(w)'
<1>1. W' = W
  BY DEF W
<1> QED
  BY <1>1 DEF IsWire, Published, PayloadOf

LEMMA TakenKept ==
  ASSUME types' = types, dest' = dest, NEW t, IsTaken(t)
  PROVE  IsTaken(t)'
<1>1. W' = W /\ R' = R
  BY DEF W, R
<1> QED
  BY <1>1 DEF IsTaken

LEMMA WholeWire ==
  ASSUME PartsFaithful, AllCompatible, types \in Pairs, order \in Orders, NEW v, Published(v)
  PROVE  IsWire([data |-> PayloadOf(v), v |-> v, whole |-> TRUE])
<1> DEFINE M == PayloadOf(v)
           n == Len(M)
<1>1. n \in 0 .. Len(M) /\ SubSeq(M, 1, n) = M
  BY WholePayload
<1>2. (n = Len(M)) = TRUE
  OBVIOUS
<1>3. [data |-> M, v |-> v, whole |-> TRUE]
        = [data |-> SubSeq(M, 1, n), v |-> v, whole |-> n = Len(M)]
  BY <1>1, <1>2
<1> HIDE DEF n
<1> QED
  BY <1>1, <1>3 DEF IsWire

LEMMA ExchangeStarts ==
  ASSUME PartsFaithful, AllCompatible, Init
  PROVE  ExchangeInv
<1>1. types \in Pairs /\ order \in Orders /\ wire = <<>> /\ took = <<>>
  BY DEF Init
<1>2. Shaped(StructRef(R), Zero(StructRef(R)))
  <2> DEFINE u == StructRef(R)
  <2>1. u.k = "struct" /\ u.name = R /\ IsStruct(R)
    BY <1>1, PairsKnown DEF StructRef
  <2>2. IsType(u)
    BY <2>1 DEF IsType
  <2> HIDE DEF u
  <2>3. Shaped(u, Zero(u))
    BY <2>2, TypeKeepsShape
  <2> QED
    BY <2>3 DEF u
<1> QED
  BY <1>1, <1>2 DEF ExchangeInv, Init

LEMMA PublishKeeps ==
  ASSUME PartsFaithful, AllCompatible, SamplesTyped, PayloadsFit,
         ExchangeInv, NEW v \in Samples[W], Publish(v)
  PROVE  ExchangeInv'
<1>1. /\ types \in Pairs /\ order \in Orders /\ Shaped(StructRef(R), dest)
      /\ types' = types /\ order' = order /\ dest' = dest /\ took' = <<>>
  BY DEF ExchangeInv, Publish
<1>2. R' = R
  BY <1>1 DEF R
<1>3. wire' = <<>> \/ \E w : wire' = <<w>> /\ IsWire(w)'
  <2>1. CASE Encodable(StructRef(W), v)
    <3>1. Published(v)
      BY <1>1, <2>1, SampleFits DEF Published
    <3> DEFINE w == [data |-> PayloadOf(v), v |-> v, whole |-> TRUE]
    <3>2. wire' = <<w>>
      BY <2>1 DEF Publish, PayloadOf
    <3>3. IsWire(w)
      BY <1>1, <3>1, WholeWire
    <3>4. PICK x : wire' = <<x>> /\ IsWire(x)
      BY <3>2, <3>3
    <3>5. IsWire(x)'
      BY <1>1, <3>4, WireKept
    <3> QED
      BY <3>4, <3>5
  <2>2. CASE ~Encodable(StructRef(W), v)
    BY <2>2 DEF Publish
  <2> QED
    BY <2>1, <2>2
<1> QED
  BY <1>1, <1>2, <1>3 DEF ExchangeInv

LEMMA RecordCut ==
  ASSUME NEW D, NEW X, NEW w \in [data : D, v : X, whole : BOOLEAN], NEW x \in D
  PROVE  [[w EXCEPT !.data = x] EXCEPT !.whole = FALSE]
           = [data |-> x, v |-> w.v, whole |-> FALSE]
<1> DEFINE y == [w EXCEPT !.data = x]
<1>1. y \in [data : D, v : X, whole : BOOLEAN] /\ y.data = x /\ y.v = w.v
  OBVIOUS
<1> HIDE DEF y
<1> DEFINE z == [y EXCEPT !.whole = FALSE]
<1>2. /\ z \in [data : D, v : X, whole : BOOLEAN]
      /\ z.data = y.data /\ z.v = y.v /\ z.whole = FALSE
  BY <1>1
<1> HIDE DEF z
<1>3. z = [data |-> y.data, v |-> y.v, whole |-> FALSE]
  BY <1>2
<1> QED
  BY <1>1, <1>3 DEF y, z

LEMMA CutShortKeeps ==
  ASSUME PartsFaithful, AllCompatible, ExchangeInv, NEW n \in 0 .. MaxPayload, CutShort(n)
  PROVE  ExchangeInv'
<1>1. /\ types \in Pairs /\ order \in Orders /\ Shaped(StructRef(R), dest)
      /\ types' = types /\ order' = order /\ dest' = dest /\ took' = took
  BY DEF ExchangeInv, CutShort
<1>2. R' = R
  BY <1>1 DEF R
<1>3. took' = <<>> \/ \E t : took' = <<t>> /\ IsTaken(t)'
  BY <1>1, TakenKept DEF ExchangeInv
<1>4. PICK w : wire = <<w>> /\ IsWire(w)
  BY DEF ExchangeInv, CutShort
<1>5. w.whole /\ n < Len(w.data)
      /\ wire' = <<[w EXCEPT !.data = SubSeq(@, 1, n), !.whole = FALSE]>>
  BY <1>4 DEF CutShort
<1>6. PICK v, m : /\ Published(v) /\ m \in 0 .. Len(PayloadOf(v))
                  /\ w = [data |-> SubSeq(PayloadOf(v), 1, m), v |-> v,
                          whole |-> m = Len(PayloadOf(v))]
  BY <1>4 DEF IsWire
<1> DEFINE M == PayloadOf(v)
<1>7. M \in Seq(Byte) /\ SubSeq(M, 1, Len(M)) = M
  BY <1>1, <1>6, WholePayload
<1>8. w = [data |-> M, v |-> v, whole |-> TRUE]
  <2>1. m = Len(M)
    BY <1>5, <1>6
  <2> QED
    BY <1>6, <1>7, <2>1
<1> DEFINE x == [data |-> SubSeq(M, 1, n), v |-> v, whole |-> FALSE]
<1>9. n \in 0 .. Len(M) /\ (n = Len(M)) = FALSE
  BY <1>5, <1>7, <1>8
<1>10. wire' = <<x>>
  <2>1. w.data = M
    BY <1>8
  <2>2. w \in [data : {M, SubSeq(M, 1, n)}, v : {v}, whole : BOOLEAN]
    BY <1>8
  <2>3. [w EXCEPT !.data = SubSeq(@, 1, n), !.whole = FALSE]
          = [data |-> SubSeq(M, 1, n), v |-> v, whole |-> FALSE]
    <3> DEFINE c == SubSeq(M, 1, n)
    <3>1. [w EXCEPT !.data = SubSeq(@, 1, n), !.whole = FALSE]
            = [[w EXCEPT !.data = c] EXCEPT !.whole = FALSE]
      BY <2>1, Zenon
    <3>2. w.v = v
      BY <1>8
    <3>3. [[w EXCEPT !.data = c] EXCEPT !.whole = FALSE]
            = [data |-> c, v |-> w.v, whole |-> FALSE]
      <4> DEFINE D == {M, c}
      <4>1. w \in [data : D, v : {v}, whole : BOOLEAN] /\ c \in D
        BY <2>2
      <4> HIDE DEF D, c
      <4> QED
        BY <4>1, RecordCut
    <3> QED
      BY <3>1, <3>2, <3>3
  <2> QED
    BY <1>5, <2>3 DEF x
<1>11. IsWire(x)
  <2>1. x = [data |-> SubSeq(M, 1, n), v |-> v, whole |-> n = Len(M)]
    BY <1>9
  <2> HIDE DEF x
  <2> QED
    BY <1>6, <1>9, <2>1 DEF IsWire
<1>12. PICK y : wire' = <<y>> /\ IsWire(y)
  BY <1>10, <1>11
<1>13. IsWire(y)'
  BY <1>1, <1>12, WireKept
<1> QED
  BY <1>1, <1>2, <1>3, <1>12, <1>13 DEF ExchangeInv

LEMMA LoseKeeps ==
  ASSUME ExchangeInv, Lose
  PROVE  ExchangeInv'
<1>1. /\ types \in Pairs /\ order \in Orders /\ Shaped(StructRef(R), dest)
      /\ types' = types /\ order' = order /\ dest' = dest /\ took' = took /\ wire' = <<>>
  BY DEF ExchangeInv, Lose
<1>2. R' = R
  BY <1>1 DEF R
<1>3. took' = <<>> \/ \E t : took' = <<t>> /\ IsTaken(t)'
  BY <1>1, TakenKept DEF ExchangeInv
<1> QED
  BY <1>1, <1>2, <1>3 DEF ExchangeInv

LEMMA TakeKeeps ==
  ASSUME PartsFaithful, AllCompatible, SamplesTyped, PayloadsFit,
         ExchangeInv, NEW fresh \in BOOLEAN, Take(fresh)
  PROVE  ExchangeInv'
<1>1. /\ types \in Pairs /\ order \in Orders /\ Shaped(StructRef(R), dest)
      /\ types' = types /\ order' = order /\ wire' = <<>>
  BY DEF ExchangeInv, Take
<1>2. W' = W /\ R' = R
  BY <1>1 DEF W, R
<1>3. PICK w : wire = <<w>> /\ IsWire(w)
  BY DEF ExchangeInv, Take
<1>4. PICK v, n : /\ Published(v) /\ n \in 0 .. Len(PayloadOf(v))
                  /\ w = [data |-> SubSeq(PayloadOf(v), 1, n), v |-> v,
                          whole |-> n = Len(PayloadOf(v))]
  BY <1>3 DEF IsWire
<1> DEFINE M   == MarshalCDR(W, v, order)
           old == IF fresh THEN Zero(StructRef(R)) ELSE dest
           r   == UnmarshalCDR(R, SubSeq(M, 1, n), old)
<1>5. /\ Compatible(W, R) /\ IsStruct(R) /\ IsSample(W, v) /\ order \in ByteOrders
      /\ Len(M) \in Uint32 /\ n \in 0 .. Len(M)
  BY <1>1, <1>4, PairsKnown, PublishedFits DEF Published, PayloadOf
<1>6. Shaped(StructRef(R), old)
  <2> DEFINE u == StructRef(R)
  <2>1. u.k = "struct" /\ u.name = R
    BY DEF StructRef
  <2>2. IsType(u)
    BY <1>5, <2>1 DEF IsType
  <2>3. Shaped(u, dest)
    BY <1>1
  <2> HIDE DEF u
  <2>4. Shaped(u, Zero(u))
    BY <2>2, TypeKeepsShape
  <2> QED
    BY <2>3, <2>4 DEF u
<1>7. dest' = r.v
  BY <1>3, <1>4 DEF Take, PayloadOf
<1> DEFINE t == [ok |-> r.ok, v |-> v, whole |-> n = Len(M), fresh |-> fresh,
                 left |-> Remaining(r.d)]
<1>8. took' = <<t>>
  BY <1>3, <1>4 DEF Take, PayloadOf
<1>9. fresh => old = Zero(StructRef(R))
  OBVIOUS
<1> HIDE DEF old
<1>10. /\ r.ok \in BOOLEAN /\ (r.ok <=> n = Len(M))
       /\ r.ok => /\ Remaining(r.d) = 0
                  /\ AlikeType(StructRef(W), v, StructRef(R), r.v)
                  /\ old = Zero(StructRef(R)) => SameType(StructRef(W), v, StructRef(R), r.v)
  BY <1>5, <1>6, SampleRead
<1>11. Shaped(StructRef(R), r.v)
  BY <1>5, <1>6, SampleKeepsShape
<1> HIDE DEF r, M
<1>12. PICK y : /\ took' = <<y>> /\ y.v = v /\ y.fresh = fresh
                /\ y.ok = r.ok /\ y.whole = (n = Len(M)) /\ y.left = Remaining(r.d)
  BY <1>8
<1>13. IsTaken(y)'
  BY <1>2, <1>7, <1>9, <1>10, <1>12 DEF IsTaken
<1> QED
  BY <1>1, <1>2, <1>7, <1>11, <1>12, <1>13 DEF ExchangeInv

LEMMA StepKeeps ==
  ASSUME PartsFaithful, AllCompatible, SamplesTyped, PayloadsFit, ExchangeInv, [Next]_vars
  PROVE  ExchangeInv'
<1>1. ASSUME NEW v \in Samples[W], Publish(v)
      PROVE  ExchangeInv'
  BY <1>1, PublishKeeps
<1>2. ASSUME NEW n \in 0 .. MaxPayload, CutShort(n)
      PROVE  ExchangeInv'
  BY <1>2, CutShortKeeps
<1>3. CASE Lose
  BY <1>3, LoseKeeps
<1>4. ASSUME NEW fresh \in BOOLEAN, Take(fresh)
      PROVE  ExchangeInv'
  BY <1>4, TakeKeeps
<1>5. CASE UNCHANGED vars
  <2>1. types' = types /\ order' = order /\ wire' = wire /\ dest' = dest /\ took' = took
    BY <1>5 DEF vars
  <2>2. R' = R
    BY <2>1 DEF R
  <2>3. wire' = <<>> \/ \E w : wire' = <<w>> /\ IsWire(w)'
    BY <2>1, WireKept DEF ExchangeInv
  <2>4. took' = <<>> \/ \E t : took' = <<t>> /\ IsTaken(t)'
    BY <2>1, TakenKept DEF ExchangeInv
  <2> QED
    BY <2>1, <2>2, <2>3, <2>4 DEF ExchangeInv
<1>6. CASE Done
  BY <1>5, <1>6 DEF Done
<1> QED
  BY <1>1, <1>2, <1>3, <1>4, <1>5, <1>6 DEF Next

\* Between versions of a type that may be mixed, what is under way is what
\* MarshalCDR returned for a value or a part of it, the subscriber's object can
\* be decoded into, and it is what UnmarshalCDR said of it.
THEOREM ExchangeInvariant ==
  ASSUME PartsFaithful, AllCompatible, SamplesTyped, PayloadsFit
  PROVE  Spec => []ExchangeInv
<1>1. Init => ExchangeInv
  BY ExchangeStarts
<1>2. ExchangeInv /\ [Next]_vars => ExchangeInv'
  BY StepKeeps
<1> QED
  BY <1>1, <1>2, PTL DEF Spec

-----------------------------------------------------------------------------
(***************************************************************************)
(* The guarantees                                                          *)
(***************************************************************************)
LEMMA TookOne ==
  ASSUME ExchangeInv, NEW i \in DOMAIN took
  PROVE  IsTaken(took[i])
<1>1. took # <<>>
  OBVIOUS
<1>2. PICK t : took = <<t>> /\ IsTaken(t)
  BY <1>1 DEF ExchangeInv
<1>3. took[i] = t
  BY <1>2
<1> QED
  BY <1>2, <1>3

\* An object into which a whole payload was unmarshalled has what was published.
THEOREM SamplesArrive ==
  ASSUME PartsFaithful, AllCompatible, SamplesTyped, PayloadsFit
  PROVE  Spec => []SampleArrives
<1>1. ExchangeInv => SampleArrives
  <2> SUFFICES ASSUME ExchangeInv, NEW i \in DOMAIN took,
                      took[i].ok, took[i].whole, took[i].fresh
               PROVE  AgreesWithSample(took[i])
    BY DEF SampleArrives
  <2>1. SameType(StructRef(W), took[i].v, StructRef(R), dest)
    BY TookOne DEF IsTaken
  <2> QED
    BY <2>1, Zenon DEF SameType, AgreesWithSample
<1> QED
  BY <1>1, ExchangeInvariant, PTL

\* A payload is accepted just if nothing of it is missing, wherever it was cut,
\* and UnmarshalCDR reads it to its end.
THEOREM WholeJustAccepted ==
  ASSUME PartsFaithful, AllCompatible, SamplesTyped, PayloadsFit
  PROVE  Spec => []AcceptedJustIfWhole
<1>1. ExchangeInv => AcceptedJustIfWhole
  BY TookOne DEF IsTaken, AcceptedJustIfWhole
<1> QED
  BY <1>1, ExchangeInvariant, PTL

\* From header to header is from the first member of a payload to its end.
THEOREM HeadersTile ==
  ASSUME PartsFaithful, AllCompatible, SamplesTyped, PayloadsFit
  PROVE  Spec => []HeadersTilePayload
<1>1. ExchangeInv => HeadersTilePayload
  <2> SUFFICES ASSUME ExchangeInv, wire # <<>>, wire[1].whole, Structs[W].ext = "MUTABLE"
               PROVE  LET dh == ReadDHeader(NewDecoder(wire[1].data))
                      IN  /\ dh.d.pos + Num(dh.v) = Len(wire[1].data)
                          /\ WalkHeaders(dh.d, Len(wire[1].data))
    BY DEF HeadersTilePayload
  <2>1. PICK w : wire = <<w>> /\ IsWire(w)
    BY DEF ExchangeInv
  <2>2. PICK v, n : /\ Published(v) /\ n \in 0 .. Len(PayloadOf(v))
                    /\ w = [data |-> SubSeq(PayloadOf(v), 1, n), v |-> v,
                            whole |-> n = Len(PayloadOf(v))]
    BY <2>1 DEF IsWire
  <2> DEFINE M == PayloadOf(v)
  <2>3. types \in Pairs /\ order \in Orders
    BY DEF ExchangeInv
  <2>4. wire[1].data = M
    <3>1. n = Len(M)
      BY <2>1, <2>2
    <3>2. SubSeq(M, 1, Len(M)) = M
      BY <2>2, <2>3, WholePayload
    <3> QED
      BY <2>1, <2>2, <3>1, <3>2
  <2>5. IsSample(W, v) /\ order \in ByteOrders /\ Len(M) \in Uint32
    BY <2>2, <2>3, PairsKnown, PublishedFits DEF Published
  <2>6. M = MarshalCDR(W, v, order)
    BY DEF PayloadOf
  <2> HIDE DEF M
  <2>7. LET dh == ReadDHeader(NewDecoder(M))
        IN  /\ dh.d.pos + Num(dh.v) = Len(M)
            /\ WalkHeaders(dh.d, Len(M))
    BY <2>5, <2>6, SampleWalked
  <2> QED
    BY <2>4, <2>7
<1> QED
  BY <1>1, ExchangeInvariant, PTL

\* Into whatever object a payload that is whole was unmarshalled, it has the
\* members that were published.
THEOREM PublishedMembersShown ==
  ASSUME PartsFaithful, AllCompatible, SamplesTyped, PayloadsFit
  PROVE  Spec => []PresentMembersShown
<1>1. ExchangeInv => PresentMembersShown
  <2> SUFFICES ASSUME ExchangeInv, NEW i \in DOMAIN took, W = R,
                      took[i].ok, took[i].whole
               PROVE  Agree(TRUE, StructRef(W), took[i].v, StructRef(R), dest)
    BY DEF PresentMembersShown
  <2>1. AlikeType(StructRef(W), took[i].v, StructRef(R), dest)
    BY TookOne DEF IsTaken
  <2> QED
    BY <2>1, Zenon DEF AlikeType
<1> QED
  BY <1>1, ExchangeInvariant, PTL

-----------------------------------------------------------------------------
(***************************************************************************)
(* Types of five levels                                                    *)
(***************************************************************************)
\* The levels of GenCodec, each with the lemmas of TypeCodec_proofs.
Deep == INSTANCE GenCodec

L0 == INSTANCE TypeCodec_proofs WITH
  EncodePart <- Deep!NoEncode, DecodePart <- Deep!NoDecode, ZeroPart <- Deep!NoZero,
  EncodablePart <- Deep!NoValue, IsTypePart <- Deep!NoType, IsValuePart <- Deep!NoValue,
  ShapedPart <- Deep!NoValue, AgreePart <- Deep!NoAgree

L1 == INSTANCE TypeCodec_proofs WITH
  EncodePart <- L0!EncodeType, DecodePart <- L0!DecodeType, ZeroPart <- L0!Zero,
  EncodablePart <- L0!Encodable, IsTypePart <- L0!IsType, IsValuePart <- L0!IsValue,
  ShapedPart <- L0!Shaped, AgreePart <- L0!Agree

L2 == INSTANCE TypeCodec_proofs WITH
  EncodePart <- L1!EncodeType, DecodePart <- L1!DecodeType, ZeroPart <- L1!Zero,
  EncodablePart <- L1!Encodable, IsTypePart <- L1!IsType, IsValuePart <- L1!IsValue,
  ShapedPart <- L1!Shaped, AgreePart <- L1!Agree

L3 == INSTANCE TypeCodec_proofs WITH
  EncodePart <- L2!EncodeType, DecodePart <- L2!DecodeType, ZeroPart <- L2!Zero,
  EncodablePart <- L2!Encodable, IsTypePart <- L2!IsType, IsValuePart <- L2!IsValue,
  ShapedPart <- L2!Shaped, AgreePart <- L2!Agree

\* What is sent is made of types of level 3.
FiveLevels ==
  /\ \A t, v, e : EncodePart(t, v, e) = L3!EncodeType(t, v, e)
  /\ \A t, d, old : DecodePart(t, d, old) = L3!DecodeType(t, d, old)
  /\ \A t : ZeroPart(t) = L3!Zero(t)
  /\ \A t, v : EncodablePart(t, v) <=> L3!Encodable(t, v)
  /\ \A t : IsTypePart(t) <=> L3!IsType(t)
  /\ \A t, v : IsValuePart(t, v) <=> L3!IsValue(t, v)
  /\ \A t, v : ShapedPart(t, v) <=> L3!Shaped(t, v)
  /\ \A l, t, v, u, x : AgreePart(l, t, v, u, x) <=> L3!Agree(l, t, v, u, x)

\* There is no type below level 0.
LEMMA Level0 == L0!PartsFaithful
BY DEF L0!PartsFaithful, Deep!NoType

LEMMA Level1 == L1!PartsFaithful
<1>1. L0!Up!PartsFaithful
  BY Level0, L0!LevelUp
<1>2. L1!PartsFaithful <=> L0!Up!PartsFaithful
  BY DEF L1!PartsFaithful, L1!PartFaithful, L1!PartZeroes, L1!PartKeepsShape, L1!PartWrites,
      L1!PartReads, L1!PartAgrees, L1!PartIsPlain, L1!SendablePart, L1!Alike, L1!SamePart,
      L1!Full, L1!Extends, L1!Within, L1!Follows, L1!Shows, L1!Shown, L1!End, L1!At,
      L1!Bound, L1!Encoders, L1!Decoders, L1!Byte, L1!Uint32, L1!ByteOrders, L1!BE, L1!LE,
      L1!Pad, L1!Cap, L1!WriteScalar, L1!EncAlign, L1!Zeros, L1!Advance, L1!Put, L1!Swap,
      L1!WriteRaw, L1!IsFixedPrimitive, L0!Up!PartsFaithful, L0!Up!PartFaithful,
      L0!Up!PartZeroes, L0!Up!PartKeepsShape, L0!Up!PartWrites, L0!Up!PartReads,
      L0!Up!PartAgrees, L0!Up!PartIsPlain, L0!Up!SendablePart, L0!Up!Alike, L0!Up!SamePart,
      L0!Up!Full, L0!Up!Extends, L0!Up!Within, L0!Up!Follows, L0!Up!Shows, L0!Up!Shown,
      L0!Up!End, L0!Up!At, L0!Up!Bound, L0!Up!Encoders, L0!Up!Decoders, L0!Up!Byte,
      L0!Up!Uint32, L0!Up!ByteOrders, L0!Up!BE, L0!Up!LE, L0!Up!Pad, L0!Up!Cap,
      L0!Up!WriteScalar, L0!Up!EncAlign, L0!Up!Zeros, L0!Up!Advance, L0!Up!Put, L0!Up!Swap,
      L0!Up!WriteRaw, L0!Up!IsFixedPrimitive
<1> QED
  BY <1>1, <1>2

LEMMA Level2 == L2!PartsFaithful
<1>1. L1!Up!PartsFaithful
  BY Level1, L1!LevelUp
<1>2. L2!PartsFaithful <=> L1!Up!PartsFaithful
  BY DEF L2!PartsFaithful, L2!PartFaithful, L2!PartZeroes, L2!PartKeepsShape, L2!PartWrites,
      L2!PartReads, L2!PartAgrees, L2!PartIsPlain, L2!SendablePart, L2!Alike, L2!SamePart,
      L2!Full, L2!Extends, L2!Within, L2!Follows, L2!Shows, L2!Shown, L2!End, L2!At,
      L2!Bound, L2!Encoders, L2!Decoders, L2!Byte, L2!Uint32, L2!ByteOrders, L2!BE, L2!LE,
      L2!Pad, L2!Cap, L2!WriteScalar, L2!EncAlign, L2!Zeros, L2!Advance, L2!Put, L2!Swap,
      L2!WriteRaw, L2!IsFixedPrimitive, L1!Up!PartsFaithful, L1!Up!PartFaithful,
      L1!Up!PartZeroes, L1!Up!PartKeepsShape, L1!Up!PartWrites, L1!Up!PartReads,
      L1!Up!PartAgrees, L1!Up!PartIsPlain, L1!Up!SendablePart, L1!Up!Alike, L1!Up!SamePart,
      L1!Up!Full, L1!Up!Extends, L1!Up!Within, L1!Up!Follows, L1!Up!Shows, L1!Up!Shown,
      L1!Up!End, L1!Up!At, L1!Up!Bound, L1!Up!Encoders, L1!Up!Decoders, L1!Up!Byte,
      L1!Up!Uint32, L1!Up!ByteOrders, L1!Up!BE, L1!Up!LE, L1!Up!Pad, L1!Up!Cap,
      L1!Up!WriteScalar, L1!Up!EncAlign, L1!Up!Zeros, L1!Up!Advance, L1!Up!Put, L1!Up!Swap,
      L1!Up!WriteRaw, L1!Up!IsFixedPrimitive
<1> QED
  BY <1>1, <1>2

LEMMA Level3 == L3!PartsFaithful
<1>1. L2!Up!PartsFaithful
  BY Level2, L2!LevelUp
<1>2. L3!PartsFaithful <=> L2!Up!PartsFaithful
  BY DEF L3!PartsFaithful, L3!PartFaithful, L3!PartZeroes, L3!PartKeepsShape, L3!PartWrites,
      L3!PartReads, L3!PartAgrees, L3!PartIsPlain, L3!SendablePart, L3!Alike, L3!SamePart,
      L3!Full, L3!Extends, L3!Within, L3!Follows, L3!Shows, L3!Shown, L3!End, L3!At,
      L3!Bound, L3!Encoders, L3!Decoders, L3!Byte, L3!Uint32, L3!ByteOrders, L3!BE, L3!LE,
      L3!Pad, L3!Cap, L3!WriteScalar, L3!EncAlign, L3!Zeros, L3!Advance, L3!Put, L3!Swap,
      L3!WriteRaw, L3!IsFixedPrimitive, L2!Up!PartsFaithful, L2!Up!PartFaithful,
      L2!Up!PartZeroes, L2!Up!PartKeepsShape, L2!Up!PartWrites, L2!Up!PartReads,
      L2!Up!PartAgrees, L2!Up!PartIsPlain, L2!Up!SendablePart, L2!Up!Alike, L2!Up!SamePart,
      L2!Up!Full, L2!Up!Extends, L2!Up!Within, L2!Up!Follows, L2!Up!Shows, L2!Up!Shown,
      L2!Up!End, L2!Up!At, L2!Up!Bound, L2!Up!Encoders, L2!Up!Decoders, L2!Up!Byte,
      L2!Up!Uint32, L2!Up!ByteOrders, L2!Up!BE, L2!Up!LE, L2!Up!Pad, L2!Up!Cap,
      L2!Up!WriteScalar, L2!Up!EncAlign, L2!Up!Zeros, L2!Up!Advance, L2!Up!Put, L2!Up!Swap,
      L2!Up!WriteRaw, L2!Up!IsFixedPrimitive
<1> QED
  BY <1>1, <1>2

LEMMA Level3Coders ==
  /\ \A e : L3!Up!Full(e) <=> Full(e)
  /\ \A e, r : L3!Up!Extends(e, r) <=> Extends(e, r)
  /\ \A d : L3!Up!Within(d) <=> Within(d)
  /\ \A d, r : L3!Up!Follows(d, r) <=> Follows(d, r)
  /\ \A e, f, d : L3!Up!Shows(e, f, d) <=> Shows(e, f, d)
  /\ \A e, f, d, r : L3!Up!Shown(e, f, d, r) <=> Shown(e, f, d, r)
  /\ \A e, w : L3!Up!WriteScalar(e, w) = WriteScalar(e, w)
  /\ L3!Up!Byte = Byte /\ L3!Up!Uint32 = Uint32
BY DEF Full, L3!Up!Full, Extends, L3!Up!Extends, Within, L3!Up!Within, Follows,
       L3!Up!Follows, Shows, L3!Up!Shows, Shown, L3!Up!Shown, End, L3!Up!End, At, L3!Up!At,
       Bound, L3!Up!Bound, Encoders, L3!Up!Encoders, Decoders, L3!Up!Decoders, Byte,
       L3!Up!Byte, Uint32, L3!Up!Uint32, ByteOrders, L3!Up!ByteOrders, BE, L3!Up!BE, LE,
       L3!Up!LE, Pad, L3!Up!Pad, Cap, L3!Up!Cap, WriteScalar, L3!Up!WriteScalar, EncAlign,
       L3!Up!EncAlign, Zeros, L3!Up!Zeros, Advance, L3!Up!Advance, Put, L3!Up!Put, Swap,
       L3!Up!Swap, WriteRaw, L3!Up!WriteRaw

\* The code of the types that are sent, of five levels at most, has all that
\* it relies on: the guarantees hold of it.
THEOREM FiveLevelsFaithful ==
  ASSUME FiveLevels
  PROVE  PartsFaithful
<1> SUFFICES ASSUME NEW t, IsTypePart(t)
             PROVE  PartFaithful(t)
  BY DEF PartsFaithful
<1>1. L3!Up!PartFaithful(t)
  <2>1. L3!Up!PartsFaithful
    BY Level3, L3!LevelUp
  <2>2. L3!IsType(t)
    BY DEF FiveLevels
  <2> QED
    BY <2>1, <2>2 DEF L3!Up!PartsFaithful
<1>2. PartZeroes(t)
  BY <1>1, Zenon DEF L3!Up!PartFaithful, L3!Up!PartZeroes, PartZeroes, FiveLevels
<1>3. PartKeepsShape(t)
  BY <1>1, Level3Coders, Zenon
  DEF L3!Up!PartFaithful, L3!Up!PartKeepsShape, PartKeepsShape, FiveLevels
<1>4. \A v : L3!Up!SendablePart(t, v) <=> SendablePart(t, v)
  BY Zenon DEF L3!Up!SendablePart, SendablePart, FiveLevels
<1>5. PartWrites(t)
  BY <1>1, <1>4, Level3Coders, Zenon
  DEF L3!Up!PartFaithful, L3!Up!PartWrites, PartWrites, FiveLevels
<1>6. \A v, x : /\ L3!Up!Alike(t, v, x) <=> Alike(t, v, x)
                /\ L3!Up!SamePart(t, v, x) <=> SamePart(t, v, x)
  BY Zenon DEF L3!Up!Alike, Alike, L3!Up!SamePart, SamePart, FiveLevels
<1>7. PartReads(t)
  <2> SUFFICES ASSUME NEW v, NEW e, NEW d, NEW old, SendablePart(t, v), Full(e),
                      EncodePart(t, v, e).pos \in Uint32,
                      Shows(e, EncodePart(t, v, e), d), ShapedPart(t, old)
               PROVE  LET r == DecodePart(t, d, old)
                      IN  /\ Shown(e, EncodePart(t, v, e), d, r)
                          /\ r.ok => /\ old = ZeroPart(t) => r.v = v
                                     /\ Alike(t, v, r.v)
    BY DEF PartReads
  <2> DEFINE f == EncodePart(t, v, e)
             r == DecodePart(t, d, old)
  <2>1. /\ f = L3!EncodeType(t, v, e) /\ r = L3!DecodeType(t, d, old)
        /\ ZeroPart(t) = L3!Zero(t) /\ L3!Shaped(t, old)
    BY Zenon DEF FiveLevels
  <2>2. /\ L3!Up!SendablePart(t, v) /\ L3!Up!Full(e) /\ f.pos \in L3!Up!Uint32
        /\ L3!Up!Shows(e, f, d)
    BY <1>4, Level3Coders, Zenon
  <2>3. L3!Up!PartReads(t)
    BY <1>1 DEF L3!Up!PartFaithful
  <2> DEFINE g == L3!EncodeType(t, v, e)
             q == L3!DecodeType(t, d, old)
  <2> HIDE DEF f, r
  <2>4. g.pos \in L3!Up!Uint32 /\ L3!Up!Shows(e, g, d)
    BY <2>1, <2>2
  <2>5. /\ L3!Up!Shown(e, g, d, q)
        /\ q.ok => /\ old = L3!Zero(t) => q.v = v
                   /\ L3!Up!Alike(t, v, q.v)
    BY <2>1, <2>2, <2>3, <2>4, Zenon DEF L3!Up!PartReads
  <2> HIDE DEF g, q
  <2>6. /\ L3!Up!Shown(e, f, d, r)
        /\ r.ok => /\ old = ZeroPart(t) => r.v = v
                   /\ L3!Up!Alike(t, v, r.v)
    BY <2>1, <2>5, Zenon DEF g, q
  <2> QED
    BY <1>6, <2>6, Level3Coders, Zenon DEF f, r
<1>8. PartAgrees(t)
  BY <1>1, <1>6, Zenon DEF L3!Up!PartFaithful, L3!Up!PartAgrees, PartAgrees, FiveLevels
<1>9. PartIsPlain(t)
  <2>1. L3!Up!IsFixedPrimitive(t) <=> IsFixedPrimitive(t)
    BY DEF L3!Up!IsFixedPrimitive, IsFixedPrimitive
  <2> QED
    BY <1>1, <2>1, Level3Coders, Zenon
    DEF L3!Up!PartFaithful, L3!Up!PartIsPlain, PartIsPlain, FiveLevels
<1> QED
  BY <1>2, <1>3, <1>5, <1>7, <1>8, <1>9 DEF PartFaithful
=============================================================================
