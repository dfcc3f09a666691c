--------------------------- MODULE CdrCoders_proofs ---------------------------
(***************************************************************************)
(* Proofs about CdrEncoder and CdrDecoder.                                 *)
(*                                                                         *)
(* The encoder: its safety for all scalars, strings, sizes, depths of      *)
(* nesting and lengths of messages.  Patching a DHEADER is the only step   *)
(* that rewrites bytes, so the sizes already written survive because no    *)
(* open header overlaps a finished body's header.  That is HeadersApart,   *)
(* which the inductive invariant adds to the properties: a body either     *)
(* ended before the open header was begun, or lies behind it.              *)
(*                                                                         *)
(* The decoder: whatever bytes it is given and whatever its caller reads,  *)
(* its cursor is bounded, no successful read takes a byte that is not      *)
(* there, and every one takes at least one.                                *)
(***************************************************************************)
EXTENDS CdrEncoder, CdrDecoder, CdrOps_proofs

-----------------------------------------------------------------------------
(***************************************************************************)
(* The encoder                                                             *)
(***************************************************************************)
HeadersApart ==
  \A b \in bodies, i \in 1 .. Len(open) :
    b.end <= open[i] \/ open[i] + 4 <= b.start

IndInv ==
  /\ TypeOK
  /\ PosIsLength
  /\ OpenHeadersInBuffer
  /\ DHeadersDelimitBodies
  /\ HeadersApart
  /\ BodiesNest

-----------------------------------------------------------------------------
LEMMA InitInv == Init => IndInv
<1> SUFFICES ASSUME Init PROVE IndInv
  OBVIOUS
<1> USE EncoderAssumption
<1>1. enc \in Encoders /\ enc.pos = Len(enc.buf)
  <2>1. ASSUME NEW kind \in Kinds, enc = NewEncoder(kind)
        PROVE  enc \in Encoders /\ enc.pos = Len(enc.buf)
    <3>1. kind \in Byte /\ 0 \in Byte
      BY DEF EncapsulationKinds, Byte
    <3>2. <<0, kind, 0, 0>> \in Seq(Byte) /\ Len(<<0, kind, 0, 0>>) = 4
      BY <3>1
    <3>3. ByteOrder(kind) \in ByteOrders
      BY DEF ByteOrder, ByteOrders
    <3> QED
      BY <2>1, <3>2, <3>3 DEF NewEncoder, Encoders
  <2>2. ASSUME NEW order \in ByteOrders, enc = NewRawEncoder(order)
        PROVE  enc \in Encoders /\ enc.pos = Len(enc.buf)
    BY <2>2 DEF NewRawEncoder, Encoders
  <2> QED
    BY <2>1, <2>2 DEF Init
<1>2. open = <<>> /\ bodies = {}
  BY DEF Init
<1> QED
  BY <1>1, <1>2 DEF IndInv, TypeOK, Encoders, PosIsLength, OpenHeadersInBuffer,
     DHeadersDelimitBodies, HeadersApart, BodiesNest

\* The finished headers survive a step that only adds bytes.
LEMMA GrowthDelimits ==
  ASSUME IndInv, Extends(enc, enc'), bodies' = bodies
  PROVE  DHeadersDelimitBodies'
<1> SUFFICES ASSUME NEW b \in bodies
             PROVE  /\ b.start + 4 <= b.end
                    /\ b.end <= Len(enc'.buf)
                    /\ Get(enc'.order, Slice(enc'.buf, b.start, b.start + 4))
                         = Word(b.end - b.start - 4)
  BY DEF DHeadersDelimitBodies
<1>1. /\ enc.buf \in Seq(Byte) /\ enc'.buf \in Seq(Byte)
      /\ enc'.order = enc.order
      /\ b.start \in Nat /\ b.end \in Nat
  BY DEF IndInv, TypeOK, Extends, Encoders
<1>2. /\ b.start + 4 <= b.end /\ b.end <= Len(enc.buf)
      /\ Get(enc.order, Slice(enc.buf, b.start, b.start + 4))
           = Word(b.end - b.start - 4)
  BY DEF IndInv, DHeadersDelimitBodies
<1>3. /\ Len(enc.buf) <= Len(enc'.buf)
      /\ \A i \in 1 .. Len(enc.buf) : enc'.buf[i] = enc.buf[i]
  BY DEF Extends
<1>4. Slice(enc'.buf, b.start, b.start + 4) = Slice(enc.buf, b.start, b.start + 4)
  <2> DEFINE s == enc'.buf
             t == enc.buf
             to == b.start + 4
  <2>1. to \in Nat /\ to <= Len(s) /\ to <= Len(t)
    BY <1>1, <1>2, <1>3
  <2>2. \A i \in b.start + 1 .. to : s[i] = t[i]
    BY <1>1, <1>2, <1>3
  <2>3. s \in Seq(Byte) /\ t \in Seq(Byte) /\ b.start \in Nat
    BY <1>1
  <2> HIDE DEF s, t, to
  <2>4. Slice(s, b.start, to) = Slice(t, b.start, to)
    BY <2>1, <2>2, <2>3, SliceAgrees
  <2> QED
    BY <2>4 DEF s, t, to
<1> QED
  BY <1>1, <1>2, <1>3, <1>4

\* A write between Begin and Finish adds bytes and touches no header.
LEMMA GrowthInv ==
  ASSUME IndInv, Extends(enc, enc'), open' = open, bodies' = bodies
  PROVE  IndInv'
<1>1. TypeOK' /\ PosIsLength'
  BY DEF IndInv, TypeOK, PosIsLength, Extends, Encoders
<1>2. OpenHeadersInBuffer'
  BY DEF IndInv, TypeOK, OpenHeadersInBuffer, Extends, Encoders
<1>3. DHeadersDelimitBodies'
  BY GrowthDelimits
<1>4. HeadersApart' /\ BodiesNest'
  BY DEF IndInv, HeadersApart, BodiesNest
<1> QED
  BY <1>1, <1>2, <1>3, <1>4 DEF IndInv

LEMMA BeginInv == IndInv /\ Begin => IndInv'
<1> SUFFICES ASSUME IndInv, Begin PROVE IndInv'
  OBVIOUS
<1> DEFINE start == DHeaderStart(enc)
<1>1. enc \in Encoders /\ enc.pos = Len(enc.buf)
  BY DEF IndInv, TypeOK, Encoders, PosIsLength
<1>2. /\ Extends(enc, enc')
      /\ start \in Nat /\ start % 4 = 0
      /\ start >= Len(enc.buf) /\ start + 4 = Len(enc'.buf)
  BY <1>1, BeginExtends DEF Begin
<1>3. open' = Append(open, start) /\ bodies' = bodies
  BY DEF Begin
<1>4. open \in Seq(Nat)
  BY DEF IndInv, TypeOK
<1> HIDE DEF start
<1>5. /\ open' \in Seq(Nat)
      /\ Len(open') = Len(open) + 1
      /\ open'[Len(open) + 1] = start
      /\ \A i \in 1 .. Len(open) : open'[i] = open[i]
  BY <1>2, <1>3, <1>4
<1>6. TypeOK' /\ PosIsLength'
  BY <1>2, <1>3, <1>5 DEF IndInv, TypeOK, PosIsLength, Extends, Encoders
<1>7. OpenHeadersInBuffer'
  <2> SUFFICES ASSUME NEW i \in 1 .. Len(open')
               PROVE  /\ open'[i] % 4 = 0
                      /\ open'[i] + 4 <= Len(enc'.buf)
                      /\ \A j \in 1 .. i - 1 : open'[j] + 4 <= open'[i]
    BY DEF OpenHeadersInBuffer
  <2>1. CASE i = Len(open) + 1
    <3>1. ASSUME NEW j \in 1 .. i - 1
          PROVE  open'[j] + 4 <= open'[i]
      <4>1. j \in 1 .. Len(open) /\ open'[j] = open[j] /\ open[j] \in Nat
        BY <1>4, <1>5, <2>1
      <4>2. open[j] + 4 <= Len(enc.buf)
        BY <4>1 DEF IndInv, OpenHeadersInBuffer
      <4>3. Len(enc.buf) \in Nat
        BY <1>1 DEF Encoders
      <4> QED
        BY <1>2, <1>5, <2>1, <4>1, <4>2, <4>3
    <3> QED
      BY <1>2, <1>5, <2>1, <3>1
  <2>2. CASE i \in 1 .. Len(open)
    <3>1. /\ open[i] % 4 = 0
          /\ open[i] + 4 <= Len(enc.buf)
          /\ \A j \in 1 .. i - 1 : open[j] + 4 <= open[i]
      BY <2>2 DEF IndInv, OpenHeadersInBuffer
    <3>2. Len(enc.buf) \in Nat /\ Len(enc'.buf) \in Nat /\ Len(enc.buf) <= Len(enc'.buf)
      BY <1>2 DEF Extends, IndInv, TypeOK, Encoders
    <3>3. open'[i] = open[i] /\ open[i] \in Nat
      BY <1>4, <1>5, <2>2
    <3>4. ASSUME NEW j \in 1 .. i - 1
          PROVE  open'[j] + 4 <= open'[i]
      <4>1. j \in 1 .. Len(open)
        BY <1>4, <2>2
      <4> QED
        BY <1>5, <3>1, <3>3, <4>1
    <3> QED
      BY <3>1, <3>2, <3>3, <3>4
  <2> QED
    BY <1>4, <1>5, <2>1, <2>2
<1>8. DHeadersDelimitBodies'
  BY <1>2, <1>3, GrowthDelimits
<1>9. HeadersApart'
  <2> SUFFICES ASSUME NEW b \in bodies, NEW i \in 1 .. Len(open')
               PROVE  b.end <= open'[i] \/ open'[i] + 4 <= b.start
    BY <1>3 DEF HeadersApart
  <2>1. CASE i = Len(open) + 1
    <3>1. b.end <= Len(enc.buf) /\ b.end \in Nat /\ Len(enc.buf) \in Nat
      BY DEF IndInv, DHeadersDelimitBodies, TypeOK
    <3> QED
      BY <1>2, <1>5, <2>1, <3>1
  <2>2. CASE i \in 1 .. Len(open)
    BY <1>5, <2>2 DEF IndInv, HeadersApart
  <2> QED
    BY <1>4, <1>5, <2>1, <2>2
<1>10. BodiesNest'
  BY <1>3 DEF IndInv, BodiesNest
<1> QED
  BY <1>6, <1>7, <1>8, <1>9, <1>10 DEF IndInv

\* Finish patches the innermost open header, which by HeadersApart and
\* OpenHeadersInBuffer is apart from every header already finished.
LEMMA FinishInv == IndInv /\ Finish => IndInv'
<1> SUFFICES ASSUME IndInv, Finish PROVE IndInv'
  OBVIOUS
<1> DEFINE n == Len(open)
           start == open[n]
           new == [start |-> start, end |-> enc.pos]
<1>1. /\ enc \in Encoders /\ enc.pos = Len(enc.buf)
      /\ enc.buf \in Seq(Byte) /\ Len(enc.buf) \in Nat
      /\ open \in Seq(Nat) /\ n \in Nat /\ n >= 1
      /\ start \in Nat /\ start + 4 <= Len(enc.buf)
  BY DEF IndInv, TypeOK, Encoders, PosIsLength, OpenHeadersInBuffer, Finish
<1>2. /\ enc' \in Encoders
      /\ enc'.order = enc.order
      /\ enc'.pos = enc.pos
      /\ Len(enc'.buf) = Len(enc.buf)
      /\ \A i \in 1 .. Len(enc.buf) :
           i \notin start + 1 .. start + 4 => enc'.buf[i] = enc.buf[i]
      /\ Get(enc'.order, Slice(enc'.buf, start, start + 4)) = Word(enc.pos - start - 4)
  BY <1>1, FinishPatches DEF Finish
<1>3. bodies' = bodies \cup {new} /\ open' = SubSeq(open, 1, n - 1)
  BY DEF Finish
<1>4. /\ open' \in Seq(Nat)
      /\ Len(open') = n - 1
      /\ \A i \in 1 .. n - 1 : open'[i] = open[i]
  BY <1>1, <1>3, FrontType
<1>5. new \in [start : Nat, end : Nat] /\ new.start = start /\ new.end = enc.pos
  BY <1>1
<1>6. TypeOK' /\ PosIsLength'
  BY <1>1, <1>2, <1>3, <1>4, <1>5 DEF IndInv, TypeOK, PosIsLength, Encoders
<1>7. ASSUME NEW i \in 1 .. n - 1
      PROVE  /\ open'[i] = open[i] /\ open[i] \in Nat
             /\ open[i] % 4 = 0
             /\ open[i] + 4 <= start
             /\ \A j \in 1 .. i - 1 : open'[j] + 4 <= open'[i]
  <2>1. /\ i \in 1 .. n
        /\ i \in 1 .. Len(open) - 1
    BY <1>1
  <2>2. open'[i] = open[i] /\ open[i] \in Nat
    BY <1>1, <1>4, <2>1
  <2>3. open[i] % 4 = 0 /\ open[i] + 4 <= start
    <3>1. n \in 1 .. Len(open)
      BY <1>1
    <3>2. \A j \in 1 .. n - 1 : open[j] + 4 <= open[n]
      BY <3>1 DEF IndInv, OpenHeadersInBuffer
    <3>3. open[i] % 4 = 0
      BY <2>1 DEF IndInv, OpenHeadersInBuffer
    <3> QED
      BY <3>2, <3>3
  <2>4. ASSUME NEW j \in 1 .. i - 1
        PROVE  open'[j] + 4 <= open'[i]
    <3>1. j \in 1 .. n - 1
      BY <1>1
    <3>2. open[j] + 4 <= open[i]
      BY <2>1 DEF IndInv, OpenHeadersInBuffer
    <3> QED
      BY <1>4, <2>2, <3>1, <3>2
  <2> QED
    BY <2>2, <2>3, <2>4
<1> HIDE DEF n, start, new
<1>8. OpenHeadersInBuffer'
  <2> SUFFICES ASSUME NEW i \in 1 .. n - 1
               PROVE  /\ open'[i] % 4 = 0
                      /\ open'[i] + 4 <= Len(enc'.buf)
                      /\ \A j \in 1 .. i - 1 : open'[j] + 4 <= open'[i]
    BY <1>4 DEF OpenHeadersInBuffer
  <2>1. open'[i] + 4 <= Len(enc'.buf)
    BY <1>1, <1>2, <1>7
  <2> QED
    BY <1>7, <2>1
<1>9. DHeadersDelimitBodies'
  <2> SUFFICES ASSUME NEW b \in bodies'
               PROVE  /\ b.start + 4 <= b.end
                      /\ b.end <= Len(enc'.buf)
                      /\ Get(enc'.order, Slice(enc'.buf, b.start, b.start + 4))
                           = Word(b.end - b.start - 4)
    BY DEF DHeadersDelimitBodies
  <2>1. CASE b = new
    BY <1>1, <1>2, <1>5, <2>1
  <2>2. CASE b \in bodies
    <3>1. /\ b.start \in Nat /\ b.end \in Nat
          /\ b.start + 4 <= b.end /\ b.end <= Len(enc.buf)
          /\ Get(enc.order, Slice(enc.buf, b.start, b.start + 4))
               = Word(b.end - b.start - 4)
      BY <2>2 DEF IndInv, TypeOK, DHeadersDelimitBodies
    <3>2. b.end <= start \/ start + 4 <= b.start
      BY <1>1, <2>2 DEF IndInv, HeadersApart, n, start
    <3> DEFINE s == enc'.buf
               t == enc.buf
               to == b.start + 4
    <3>3. s \in Seq(Byte) /\ t \in Seq(Byte) /\ Len(s) = Len(t) /\ Len(t) \in Nat
      BY <1>1, <1>2 DEF Encoders
    <3>4. to \in Nat /\ to <= Len(s) /\ to <= Len(t)
      BY <3>1, <3>3
    <3>5. \A i \in 1 .. Len(t) : i \notin start + 1 .. start + 4 => s[i] = t[i]
      BY <1>2
    <3> HIDE DEF s, t
    <3>6. ASSUME NEW i \in b.start + 1 .. to
          PROVE  s[i] = t[i]
      <4>1. i \in 1 .. Len(t)
        BY <3>1, <3>3, <3>4
      <4>2. i \notin start + 1 .. start + 4
        BY <1>1, <3>1, <3>2
      <4> QED
        BY <3>5, <4>1, <4>2
    <3> HIDE DEF to
    <3>7. Slice(s, b.start, to) = Slice(t, b.start, to)
      BY <3>1, <3>3, <3>4, <3>6, SliceAgrees
    <3> QED
      BY <1>2, <3>1, <3>7 DEF s, t, to
  <2> QED
    BY <1>3, <2>1, <2>2
<1>10. HeadersApart'
  <2> SUFFICES ASSUME NEW b \in bodies', NEW i \in 1 .. n - 1
               PROVE  b.end <= open'[i] \/ open'[i] + 4 <= b.start
    BY <1>4 DEF HeadersApart
  <2>1. CASE b = new
    BY <1>5, <1>7, <2>1
  <2>2. CASE b \in bodies
    <3>1. i \in 1 .. Len(open)
      BY <1>1 DEF n
    <3>2. b.end <= open[i] \/ open[i] + 4 <= b.start
      BY <2>2, <3>1 DEF IndInv, HeadersApart
    <3> QED
      BY <1>7, <3>2
  <2> QED
    BY <1>3, <2>1, <2>2
<1>11. BodiesNest'
  <2>1. ASSUME NEW b \in bodies
        PROVE  /\ b.end <= start \/ start + 4 <= b.start
               /\ b.end <= enc.pos
    BY <1>1 DEF IndInv, HeadersApart, DHeadersDelimitBodies, n, start
  <2> QED
    BY <1>3, <1>5, <2>1 DEF IndInv, BodiesNest
<1> QED
  BY <1>6, <1>8, <1>9, <1>10, <1>11 DEF IndInv

\* The writes between Begin and Finish: a step each.
LEMMA WritesExtend ==
  ASSUME IndInv,
         \/ \E w \in Scalars : Scalar(w)
         \/ \E b \in Booleans : Bool(b)
         \/ \E s \in Strings : String(s)
         \/ \E bytes \in Raws : Raw(bytes)
         \/ \E m \in {0, 1}, id \in Members, size \in Sizes : MemberHeader(m, id, size)
  PROVE  Extends(enc, enc') /\ open' = open /\ bodies' = bodies
<1>1. enc \in Encoders /\ enc.pos = Len(enc.buf)
  BY DEF IndInv, TypeOK, Encoders, PosIsLength
<1>2. ASSUME NEW w \in Scalars, Scalar(w)
      PROVE  Extends(enc, enc') /\ open' = open /\ bodies' = bodies
  <2>1. w \in Seq(Byte) /\ Len(w) > 0
    <3>1. w \in Seq(Byte) /\ Len(w) \in {1, 2, 4, 8}
      BY ONLY EncoderAssumption, w \in Scalars
    <3>2. \A n \in {1, 2, 4, 8} : n > 0
      OBVIOUS
    <3> QED
      BY ONLY <3>1, <3>2, Zenon
  <2>2. enc' = WriteScalar(enc, w) /\ open' = open /\ bodies' = bodies
    BY <1>2 DEF Scalar
  <2> QED
    BY ONLY <1>1, <2>1, <2>2, ScalarExtends
<1>3. ASSUME NEW bytes \in Seq(Byte), enc' = WriteRaw(enc, bytes)
      PROVE  Extends(enc, enc')
  BY ONLY <1>1, <1>3, AdvanceExtends, bytes \in Seq(Byte) DEF WriteRaw
<1>4. ASSUME NEW b \in Booleans, Bool(b)
      PROVE  Extends(enc, enc') /\ open' = open /\ bodies' = bodies
  <2>1. 0 \in Byte /\ 1 \in Byte
    BY DEF Byte
  <2>2. <<0>> \in Seq(Byte) /\ <<1>> \in Seq(Byte)
    BY <2>1
  <2> QED
    BY <1>3, <1>4, <2>2 DEF Bool, WriteBool, Booleans
<1>5. ASSUME NEW s \in Strings, String(s)
      PROVE  Extends(enc, enc') /\ open' = open /\ bodies' = bodies
  <2>1. s \in Seq(Byte)
    BY EncoderAssumption
  <2>2. enc' = WriteString(enc, s) /\ open' = open /\ bodies' = bodies
    BY <1>5 DEF String
  <2> QED
    BY ONLY <1>1, <2>1, <2>2, StringExtends
<1>6. ASSUME NEW bytes \in Raws, Raw(bytes)
      PROVE  Extends(enc, enc') /\ open' = open /\ bodies' = bodies
  BY EncoderAssumption, <1>3, <1>6 DEF Raw
<1>7. ASSUME NEW m \in {0, 1}, NEW id \in Members, NEW size \in Sizes,
             MemberHeader(m, id, size)
      PROVE  Extends(enc, enc') /\ open' = open /\ bodies' = bodies
  <2>1. id \in Nat /\ size \in Nat
    BY EncoderAssumption
  <2>2. /\ enc' = WriteEMHeader(enc, m, id, size)
        /\ open' = open /\ bodies' = bodies
    BY <1>7 DEF MemberHeader
  <2> QED
    BY ONLY <1>1, <2>1, <2>2, EMHeaderExtends, m \in {0, 1}
<1> QED
  BY <1>2, <1>4, <1>5, <1>6, <1>7

\* An error return forgets the open headers; their placeholders stay.
LEMMA UnwindInv == IndInv /\ Unwind => IndInv'
<1> SUFFICES ASSUME IndInv, Unwind PROVE IndInv'
  OBVIOUS
<1>1. enc' = enc /\ bodies' = bodies /\ open' = <<>>
  BY DEF Unwind
<1>2. OpenHeadersInBuffer' /\ HeadersApart'
  BY <1>1 DEF OpenHeadersInBuffer, HeadersApart
<1>3. TypeOK' /\ PosIsLength' /\ DHeadersDelimitBodies' /\ BodiesNest'
  BY <1>1 DEF IndInv, TypeOK, PosIsLength, DHeadersDelimitBodies, BodiesNest
<1> QED
  BY <1>2, <1>3 DEF IndInv

LEMMA ResetInv == IndInv /\ ResetEncoder => IndInv'
<1> SUFFICES ASSUME IndInv, ResetEncoder PROVE IndInv'
  OBVIOUS
<1>1. open' = <<>> /\ bodies' = {}
  BY DEF ResetEncoder
<1>2. enc' = [buf |-> <<>>, pos |-> 0, order |-> enc.order]
  BY DEF ResetEncoder, Reset
<1>3. enc.order \in ByteOrders
  BY DEF IndInv, TypeOK
<1>4. TypeOK' /\ PosIsLength'
  BY <1>1, <1>2, <1>3 DEF TypeOK, PosIsLength
<1> QED
  BY <1>1, <1>4 DEF IndInv, OpenHeadersInBuffer, DHeadersDelimitBodies,
     HeadersApart, BodiesNest

LEMMA NextInv == IndInv /\ [Next]_vars => IndInv'
<1> SUFFICES ASSUME IndInv, [Next]_vars PROVE IndInv'
  OBVIOUS
<1>1. CASE Begin
  BY <1>1, BeginInv
<1>2. CASE Finish
  BY <1>2, FinishInv
<1>3. CASE Unwind
  BY <1>3, UnwindInv
<1>4. CASE ResetEncoder
  BY <1>4, ResetInv
<1>5. CASE UNCHANGED vars
  <2>1. enc' = enc /\ open' = open /\ bodies' = bodies
    BY <1>5 DEF vars
  <2> QED
    BY <2>1 DEF IndInv, TypeOK, PosIsLength, OpenHeadersInBuffer,
       DHeadersDelimitBodies, HeadersApart, BodiesNest
<1> QED
  BY <1>1, <1>2, <1>3, <1>4, <1>5, WritesExtend, GrowthInv DEF Next

-----------------------------------------------------------------------------
(***************************************************************************)
(* Theorems                                                                *)
(***************************************************************************)

\* Whatever is encoded, the encoder's state stays in its types, and every
\* part of the inductive invariant holds.
THEOREM Invariance == Spec => []IndInv
<1> QED
  BY InitInv, NextInv, PTL DEF Spec

\* Type correctness of the encoder (encoder.go:12-16).
THEOREM TypeCorrect == Spec => []TypeOK
<1>1. IndInv => TypeOK
  BY DEF IndInv
<1> QED
  BY <1>1, Invariance, PTL

\* The position that decides every alignment is the buffer's length, for any
\* sequence of writes, patches and resets (encoder.go:37-261).
THEOREM PositionTracksLength == Spec => []PosIsLength
<1>1. IndInv => PosIsLength
  BY DEF IndInv
<1> QED
  BY <1>1, Invariance, PTL

\* FinishDHeader always patches a whole, aligned placeholder of its own,
\* however deep the nesting (encoder.go:169-184).
THEOREM PatchesStayInside == Spec => []OpenHeadersInBuffer
<1>1. IndInv => OpenHeadersInBuffer
  BY DEF IndInv
<1> QED
  BY <1>1, Invariance, PTL

\* A finished DHEADER keeps announcing the exact size of its body, whatever
\* is written or patched afterwards (encoder.go:169-184).
THEOREM BodiesDelimited == Spec => []DHeadersDelimitBodies
<1>1. IndInv => DHeadersDelimitBodies
  BY DEF IndInv
<1> QED
  BY <1>1, Invariance, PTL

\* Delimited bodies nest or are disjoint, so skipping one never lands inside
\* another (encoder.go:169-184, decoder.go:231-237).
THEOREM BodiesNested == Spec => []BodiesNest
<1>1. IndInv => BodiesNest
  BY DEF IndInv
<1> QED
  BY <1>1, Invariance, PTL

-----------------------------------------------------------------------------
(***************************************************************************)
(* What a step may do to bytes already written                             *)
(***************************************************************************)
LEMMA StepRewrites == IndInv /\ [Next]_vars => [RewritesOpenHeadersOnly]_vars
<1> SUFFICES ASSUME IndInv, Next PROVE RewritesOpenHeadersOnly
  OBVIOUS
<1>1. /\ enc \in Encoders /\ enc.pos = Len(enc.buf)
      /\ enc.buf \in Seq(Byte) /\ Len(enc.buf) \in Nat
  BY DEF IndInv, TypeOK, Encoders, PosIsLength
<1>2. ASSUME Extends(enc, enc')
      PROVE  RewritesOpenHeadersOnly
  BY <1>1, <1>2 DEF Extends, Encoders, RewritesOpenHeadersOnly
<1>3. CASE Begin
  BY <1>1, <1>2, <1>3, BeginExtends DEF Begin
<1>4. CASE Finish
  <2> DEFINE start == open[Len(open)]
  <2>1. /\ Len(open) \in 1 .. Len(open)
        /\ start \in Nat /\ start + 4 <= Len(enc.buf)
    BY <1>4 DEF Finish, IndInv, TypeOK, OpenHeadersInBuffer
  <2>2. /\ Len(enc'.buf) = Len(enc.buf)
        /\ \A i \in 1 .. Len(enc.buf) :
             i \notin start + 1 .. start + 4 => enc'.buf[i] = enc.buf[i]
    BY <1>1, <1>4, <2>1, FinishPatches DEF Finish
  <2> QED
    BY <1>1, <2>1, <2>2 DEF RewritesOpenHeadersOnly
<1>5. CASE Unwind
  BY <1>1, <1>5 DEF Unwind, RewritesOpenHeadersOnly
<1>6. CASE ResetEncoder
  BY <1>6 DEF ResetEncoder, Reset, RewritesOpenHeadersOnly
<1> QED
  BY <1>2, <1>3, <1>4, <1>5, <1>6, WritesExtend DEF Next

\* Patching is the only rewriting: no step changes a byte outside the headers
\* still open, so the bytes of a finished message are final until Reset
\* (encoder.go:169-261).
THEOREM BytesAreFinal == Spec => OnlyOpenHeadersRewritten
<1> QED
  BY Invariance, StepRewrites, PTL DEF Spec, OnlyOpenHeadersRewritten

-----------------------------------------------------------------------------
(***************************************************************************)
(* The decoder                                                             *)
(***************************************************************************)
\* What every step may do to the cursor.
StepStays ==
  /\ ret'.call # "align" /\ ret'.ok => dec'.pos <= Len(dec.data)
  /\ ret'.call = "read" /\ ret'.ok => dec'.pos > dec.pos

LEMMA InitBounded == DInit => DecoderTypeOK /\ CursorBounded
<1> SUFFICES ASSUME DInit PROVE DecoderTypeOK /\ CursorBounded
  OBVIOUS
<1>1. ret = [call |-> "align", ok |-> TRUE, v |-> <<>>]
  BY DEF DInit, Aligned
<1>2. PICK data \in Inputs :
        \/ HasHeader(data) /\ dec = NewDecoder(data)
        \/ \E order \in ByteOrders : dec = NewRawDecoder(data, order)
  BY DEF DInit
<1>3. data \in Seq(Byte) /\ Len(data) \in Nat
  BY <1>2, DecoderAssumption
<1>4. Pad(Len(data), 4) \in Nat
  BY <1>3, PadAligns
<1>5. CASE HasHeader(data) /\ dec = NewDecoder(data)
  <2>1. Len(data) >= 4 /\ ByteOrder(data[2]) \in ByteOrders
    BY <1>5 DEF HasHeader, ByteOrder, ByteOrders
  <2> QED
    BY <1>1, <1>3, <1>4, <1>5, <2>1 DEF NewDecoder, DecoderTypeOK, CursorBounded
<1>6. CASE \E order \in ByteOrders : dec = NewRawDecoder(data, order)
  BY <1>1, <1>3, <1>4, <1>6 DEF NewRawDecoder, DecoderTypeOK, CursorBounded
<1> QED
  BY <1>2, <1>5, <1>6

LEMMA StepBounded ==
  DecoderTypeOK /\ CursorBounded /\ [DNext]_decoderVars =>
    DecoderTypeOK' /\ CursorBounded' /\ [StepStays]_decoderVars
<1> SUFFICES ASSUME DecoderTypeOK, CursorBounded, [DNext]_decoderVars
             PROVE  DecoderTypeOK' /\ CursorBounded' /\ [StepStays]_decoderVars
  OBVIOUS
<1>1. dec \in Decoders /\ dec.pos <= Bound(dec.data)
  BY DEF DecoderTypeOK, CursorBounded, Decoders, Bound
<1>2. ASSUME NEW r, Reads(dec, r), Return(r)
      PROVE  DecoderTypeOK' /\ CursorBounded' /\ StepStays
  <2>1. /\ dec' = r.d
        /\ ret'.call = "read" /\ ret'.ok = r.ok
    BY <1>2 DEF Return
  <2> QED
    BY <1>2, <2>1 DEF Reads, Decoders, Bound, DecoderTypeOK, CursorBounded, StepStays
<1>3. ASSUME NEW n \in {1, 2, 4, 8}, ReturnScalar(n)
      PROVE  DecoderTypeOK' /\ CursorBounded' /\ StepStays
  BY <1>1, <1>2, <1>3, ScalarReads DEF ReturnScalar
<1>4. CASE ReturnBool
  BY <1>1, <1>2, <1>4, BoolReads DEF ReturnBool
<1>5. CASE ReturnString
  BY <1>1, <1>2, <1>5, StringReads DEF ReturnString
<1>6. CASE ReturnDHeader
  BY <1>1, <1>2, <1>6, ScalarReads DEF ReturnDHeader, ReadDHeader
<1>7. CASE ReturnMemberHeader
  BY <1>1, <1>2, <1>7, EMHeaderReads DEF ReturnMemberHeader
<1>8. ASSUME NEW n \in Skips, SkipBytes(n)
      PROVE  DecoderTypeOK' /\ CursorBounded' /\ StepStays
  <2>1. n \in Nat
    BY DecoderAssumption
  <2>2. /\ dec' = Skip(dec, n).d
        /\ ret'.call = "skip" /\ ret'.ok = Skip(dec, n).ok
    BY <1>8 DEF SkipBytes
  <2> QED
    BY <1>1, <2>1, <2>2, SkipStays DEF Decoders, Bound, DecoderTypeOK, CursorBounded, StepStays
<1>9. ASSUME NEW n \in {1, 2, 4, 8}, AlignTo(n)
      PROVE  DecoderTypeOK' /\ CursorBounded' /\ StepStays
  <2>1. dec' = DecAlign(dec, n) /\ ret'.call = "align" /\ ret'.ok = TRUE
    BY <1>9 DEF AlignTo, Aligned
  <2> QED
    BY <1>1, <2>1, AlignStops DEF Decoders, Bound, DecoderTypeOK, CursorBounded, StepStays
<1>10. CASE UNCHANGED decoderVars
  BY <1>10 DEF decoderVars, DecoderTypeOK, CursorBounded
<1> QED
  BY <1>3, <1>4, <1>5, <1>6, <1>7, <1>8, <1>9, <1>10 DEF DNext

LEMMA DecoderInvariant == DSpec => [](DecoderTypeOK /\ CursorBounded)
<1> QED
  BY InitBounded, StepBounded, PTL DEF DSpec

\* The decoder stays a decoder of the bytes' type, whatever it reads
\* (decoder.go:10-36).
THEOREM DecoderTypes == DSpec => []DecoderTypeOK
<1> QED
  BY DecoderInvariant, PTL

\* The cursor is at most at the first multiple of 4 behind the data, however
\* many calls follow failed ones (decoder.go:40-64).
THEOREM CursorIsBounded == DSpec => []CursorBounded
<1> QED
  BY DecoderInvariant, PTL

LEMMA StaysInside ==
  [StepStays]_decoderVars =>
    [ret'.call # "align" /\ ret'.ok => dec'.pos <= Len(dec.data)]_decoderVars
BY DEF StepStays

LEMMA MakesProgress ==
  [StepStays]_decoderVars =>
    [ret'.call = "read" /\ ret'.ok => dec'.pos > dec.pos]_decoderVars
BY DEF StepStays

\* No length, header or skip found in any data carries a call that succeeds
\* beyond the end of the data (decoder.go:58-64, 183-237).
THEOREM ReadsInside == DSpec => ReadsStayInside
<1> QED
  BY DecoderInvariant, StepBounded, StaysInside, PTL DEF DSpec, ReadsStayInside

\* Every read that succeeds takes a byte, so that a loop of reads over any
\* data ends (decoder.go:66-229).
THEOREM ReadsAdvance == DSpec => ReadsMakeProgress
<1> QED
  BY DecoderInvariant, StepBounded, MakesProgress, PTL DEF DSpec, ReadsMakeProgress
=============================================================================
