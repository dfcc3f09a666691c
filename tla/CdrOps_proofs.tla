---------------------------- MODULE CdrOps_proofs ----------------------------
(***************************************************************************)
(* Lemmas about the operators of CdrOps.                                   *)
(***************************************************************************)
EXTENDS CdrContract, SequenceTheorems, TLAPS

-----------------------------------------------------------------------------
(***************************************************************************)
(* Bytes                                                                   *)
(***************************************************************************)

\* Word yields four bytes, whatever number it is given.
LEMMA WordType ==
  ASSUME NEW n \in Int
  PROVE  Word(n) \in Seq(Byte) /\ Len(Word(n)) = 4
  BY SMT DEF Word, Byte

\* Swapping the bytes of a scalar keeps their number; doing so twice is
\* undone, so Get reads what Put wrote.
LEMMA SwapType ==
  ASSUME NEW w \in Seq(Byte)
  PROVE  /\ Swap(w) \in Seq(Byte)
         /\ Len(Swap(w)) = Len(w)
         /\ Swap(Swap(w)) = w
  BY DEF Swap

LEMMA PutType ==
  ASSUME NEW w \in Seq(Byte), NEW order \in ByteOrders
  PROVE  /\ Put(order, w) \in Seq(Byte)
         /\ Len(Put(order, w)) = Len(w)
         /\ Get(order, Put(order, w)) = w
  BY SwapType DEF Put, Get

LEMMA PadType ==
  ASSUME NEW pos \in Nat, NEW n \in Nat \ {0}
  PROVE  Pad(pos, n) \in Nat /\ Zeros(Pad(pos, n)) \in Seq(Byte)
         /\ Len(Zeros(Pad(pos, n))) = Pad(pos, n)
<1>1. Cap(n) \in 1 .. 4
  BY DEF Cap
<1>2. Pad(pos, n) \in Nat
  BY <1>1 DEF Pad
<1> QED
  BY <1>2 DEF Zeros, Byte

LEMMA PadAligns ==
  ASSUME NEW pos \in Nat
  PROVE  Pad(pos, 4) \in 0 .. 3 /\ (pos + Pad(pos, 4)) % 4 = 0
  BY DEF Pad, Cap

\* The call stack after its innermost entry returned.
LEMMA FrontType ==
  ASSUME NEW S, NEW s \in Seq(S), s # <<>>
  PROVE  /\ SubSeq(s, 1, Len(s) - 1) \in Seq(S)
         /\ Len(SubSeq(s, 1, Len(s) - 1)) = Len(s) - 1
         /\ \A i \in 1 .. Len(s) - 1 : SubSeq(s, 1, Len(s) - 1)[i] = s[i]
<1> DEFINE n == Len(s) - 1
<1>1. n \in Nat /\ 1 \in Int /\ n < Len(s) + 1
  OBVIOUS
<1>2. \A i \in 1 .. n : s[i] \in S
  BY <1>1
<1> HIDE DEF n
<1>3. SubSeq(s, 1, n) = [i \in 1 .. n |-> s[i]]
  BY <1>1
<1> DEFINE f == [i \in 1 .. n |-> s[i]]
<1>4. f \in Seq(S) /\ Len(f) = n /\ \A i \in 1 .. n : f[i] = s[i]
  BY <1>1, <1>2
<1> HIDE DEF f
<1>5. SubSeq(s, 1, n) = f
  BY <1>3 DEF f
<1>6. /\ SubSeq(s, 1, n) \in Seq(S)
      /\ Len(SubSeq(s, 1, n)) = n
      /\ \A i \in 1 .. n : SubSeq(s, 1, n)[i] = s[i]
  BY ONLY <1>4, <1>5, Zenon
<1> QED
  BY ONLY <1>6, Zenon DEF n

-----------------------------------------------------------------------------
(***************************************************************************)
(* Every write extends the buffer                                          *)
(***************************************************************************)
LEMMA ExtendsTransitive ==
  ASSUME NEW e \in Encoders, NEW f, NEW r, Extends(e, f), Extends(f, r)
  PROVE  Extends(e, r)
  BY DEF Extends, Encoders

LEMMA AdvanceExtends ==
  ASSUME NEW e \in Encoders, e.pos = Len(e.buf), NEW bytes \in Seq(Byte)
  PROVE  /\ Extends(e, Advance(e, bytes, Len(bytes)))
         /\ Advance(e, bytes, Len(bytes)).pos = e.pos + Len(bytes)
<1>1. e.buf \in Seq(Byte) /\ e.pos \in Nat /\ e.order \in ByteOrders
  BY DEF Encoders
<1>2. /\ e.buf \o bytes \in Seq(Byte)
      /\ Len(e.buf \o bytes) = Len(e.buf) + Len(bytes)
      /\ \A i \in 1 .. Len(e.buf) : (e.buf \o bytes)[i] = e.buf[i]
  BY <1>1
<1> QED
  BY <1>1, <1>2 DEF Extends, Encoders, Advance

LEMMA ScalarExtends ==
  ASSUME NEW e \in Encoders, e.pos = Len(e.buf),
         NEW w \in Seq(Byte), Len(w) > 0
  PROVE  /\ Extends(e, WriteScalar(e, w))
         /\ WriteScalar(e, w).pos = e.pos + Pad(e.pos, Len(w)) + Len(w)
<1> DEFINE a == EncAlign(e, Len(w))
<1>1. Extends(e, a) /\ a.pos = e.pos + Pad(e.pos, Len(w))
  <2>1. /\ Zeros(Pad(e.pos, Len(w))) \in Seq(Byte)
        /\ Len(Zeros(Pad(e.pos, Len(w)))) = Pad(e.pos, Len(w))
    BY PadType DEF Encoders
  <2> QED
    BY <2>1, AdvanceExtends DEF EncAlign
<1>2. Put(e.order, w) \in Seq(Byte) /\ Len(Put(e.order, w)) = Len(w)
  BY PutType DEF Encoders
<1>3. a \in Encoders /\ a.pos = Len(a.buf) /\ a.order = e.order
  BY <1>1 DEF Extends
<1> DEFINE r == Advance(a, Put(e.order, w), Len(Put(e.order, w)))
<1>4. Extends(a, r) /\ r.pos = a.pos + Len(w)
  BY <1>2, <1>3, AdvanceExtends
<1>5. r = WriteScalar(e, w)
  BY DEF WriteScalar, WriteRaw
<1>6. Extends(e, r)
  BY <1>1, <1>4, ExtendsTransitive
<1> QED
  BY <1>1, <1>4, <1>5, <1>6

LEMMA WordExtends ==
  ASSUME NEW e \in Encoders, e.pos = Len(e.buf),
         NEW w \in Seq(Byte), Len(w) = 4
  PROVE  /\ Extends(e, WriteScalar(e, w))
         /\ WriteScalar(e, w).pos = e.pos + Pad(e.pos, 4) + 4
<1>1. Len(w) > 0
  OBVIOUS
<1>2. /\ Extends(e, WriteScalar(e, w))
      /\ WriteScalar(e, w).pos = e.pos + Pad(e.pos, Len(w)) + Len(w)
  BY ONLY <1>1, ScalarExtends, e \in Encoders, e.pos = Len(e.buf), w \in Seq(Byte)
<1> QED
  BY <1>2

\* The length of a string, its bytes and its terminator.
LEMMA StringExtends ==
  ASSUME NEW e \in Encoders, e.pos = Len(e.buf), NEW s \in Seq(Byte)
  PROVE  Extends(e, WriteString(e, s))
<1> DEFINE w == Word(Len(s) + 1)
           l == WriteScalar(e, w)
<1>1. Extends(e, l)
  <2>1. w \in Seq(Byte) /\ Len(w) = 4
    BY WordType
  <2> HIDE DEF w
  <2> QED
    BY <2>1, WordExtends
<1>2. l \in Encoders /\ l.pos = Len(l.buf)
  BY <1>1 DEF Extends
<1>3. s \o <<0>> \in Seq(Byte) /\ Len(s \o <<0>>) = Len(s) + 1
  BY DEF Byte
<1>4. Extends(l, Advance(l, s \o <<0>>, Len(s) + 1))
  BY <1>2, <1>3, AdvanceExtends
<1> QED
  BY <1>1, <1>4, ExtendsTransitive DEF WriteString

LEMMA EMWordType ==
  ASSUME NEW m \in {0, 1}, NEW lc \in 0 .. 4, NEW id \in Nat
  PROVE  EMWord(m, lc, id) \in Seq(Byte) /\ Len(EMWord(m, lc, id)) = 4
<1> DEFINE x == id % MaxMemberID
<1>1. x \in Nat /\ x < 268435456
  BY SMT DEF MaxMemberID
<1> HIDE DEF x
<1>2. (x \div 16777216) % 256 \in 0 .. 15
  <2>1. x \div 16777216 \in Nat /\ x \div 16777216 < 16
    BY <1>1, SMT
  <2> QED
    BY <2>1, SMT
<1>3. /\ (x \div 65536) % 256 \in Byte
      /\ (x \div 256) % 256 \in Byte
      /\ x % 256 \in Byte
  <2>1. x \in Int
    BY <1>1
  <2> QED
    BY <2>1, SMT DEF Byte
<1>4. (m * 128 + lc * 16) + ((x \div 16777216) % 256) \in Byte
  BY <1>2, SMT DEF Byte
<1>5. EMWord(m, lc, id) = << (m * 128 + lc * 16) + ((x \div 16777216) % 256),
        (x \div 65536) % 256, (x \div 256) % 256, x % 256 >>
  BY SMT DEF EMWord, Word, x
<1> QED
  BY <1>3, <1>4, <1>5

LEMMA LengthCodeType ==
  ASSUME NEW size \in Nat
  PROVE  LengthCode(size) \in 0 .. 4
  BY DEF LengthCode

LEMMA EMHeaderExtends ==
  ASSUME NEW e \in Encoders, e.pos = Len(e.buf),
         NEW m \in {0, 1}, NEW id \in Nat, NEW size \in Nat
  PROVE  Extends(e, WriteEMHeader(e, m, id, size))
<1> DEFINE w == EMWord(m, LengthCode(size), id)
           n == Word(size)
           h == WriteScalar(e, w)
<1>1. w \in Seq(Byte) /\ Len(w) = 4
  BY LengthCodeType, EMWordType
<1>2. n \in Seq(Byte) /\ Len(n) = 4
  BY WordType
<1>3. WriteEMHeader(e, m, id, size)
        = IF LengthCode(size) = 4 THEN WriteScalar(h, n) ELSE h
  BY DEF WriteEMHeader
<1> HIDE DEF w, n
<1>4. Extends(e, h)
  BY <1>1, WordExtends
<1>5. h \in Encoders /\ h.pos = Len(h.buf)
  BY <1>4 DEF Extends
<1>6. Extends(h, WriteScalar(h, n))
  BY <1>2, <1>5, WordExtends
<1>7. Extends(e, WriteScalar(h, n))
  BY <1>4, <1>6, ExtendsTransitive
<1> QED
  BY <1>3, <1>4, <1>7

\* BeginDHeader puts its placeholder, aligned, at the very end.
LEMMA BeginExtends ==
  ASSUME NEW e \in Encoders, e.pos = Len(e.buf)
  PROVE  /\ Extends(e, BeginDHeader(e))
         /\ DHeaderStart(e) \in Nat
         /\ DHeaderStart(e) % 4 = 0
         /\ DHeaderStart(e) >= Len(e.buf)
         /\ DHeaderStart(e) + 4 = Len(BeginDHeader(e).buf)
<1> DEFINE w == Word(0)
           r == WriteScalar(e, w)
           p == Pad(e.pos, 4)
<1>1. w \in Seq(Byte) /\ Len(w) = 4
  BY WordType
<1>2. e.pos \in Nat
  BY DEF Encoders
<1>3. p \in 0 .. 3 /\ (e.pos + p) % 4 = 0
  BY <1>2, PadAligns
<1>4. BeginDHeader(e) = r /\ DHeaderStart(e) = e.pos + p
  BY DEF BeginDHeader, DHeaderStart
<1> HIDE DEF w
<1>5. Extends(e, r) /\ r.pos = e.pos + p + 4
  BY <1>1, WordExtends
<1>6. r.pos = Len(r.buf)
  BY <1>5 DEF Extends
<1>7. Extends(e, BeginDHeader(e))
  BY <1>4, <1>5
<1> HIDE DEF r, p
<1>8. e.pos + p \in Nat /\ e.pos + p >= e.pos
  BY <1>2, <1>3
<1>9. e.pos + p + 4 = Len(r.buf)
  BY <1>5, <1>6
<1> QED
  BY <1>3, <1>4, <1>7, <1>8, <1>9

-----------------------------------------------------------------------------
(***************************************************************************)
(* Patching                                                                *)
(***************************************************************************)

\* Two buffers that agree on a range have the same slice there.
LEMMA SliceAgrees ==
  ASSUME NEW s \in Seq(Byte), NEW t \in Seq(Byte), NEW from \in Nat, NEW to \in Nat,
         to <= Len(s), to <= Len(t),
         \A i \in from + 1 .. to : s[i] = t[i]
  PROVE  Slice(s, from, to) = Slice(t, from, to)
  BY DEF Slice

\* A function on 1 .. n whose values are bytes is a sequence of n bytes.
LEMMA BytesMakeASequence ==
  ASSUME NEW n \in Nat, NEW b,
         b = [i \in 1 .. n |-> b[i]],
         \A i \in 1 .. n : b[i] \in Byte
  PROVE  b \in Seq(Byte) /\ Len(b) = n
<1>1. b \in [1 .. n -> Byte]
  OBVIOUS
<1> QED
  BY ONLY <1>1, n \in Nat

\* The elements of a sequence of bytes are bytes.
LEMMA ElementsAreBytes ==
  ASSUME NEW s \in Seq(Byte)
  PROVE  \A i \in 1 .. Len(s) : s[i] \in Byte
  OBVIOUS

\* FinishDHeader changes the four bytes of its placeholder and nothing else,
\* and a reader finds the size of the body there.
LEMMA FinishPatches ==
  ASSUME NEW e \in Encoders, e.pos = Len(e.buf),
         NEW start \in Nat, start + 4 <= Len(e.buf)
  PROVE  LET r == FinishDHeader(e, start)
         IN  /\ r \in Encoders
             /\ r.order = e.order
             /\ r.pos = e.pos
             /\ Len(r.buf) = Len(e.buf)
             /\ \A i \in 1 .. Len(e.buf) :
                  i \notin start + 1 .. start + 4 => r.buf[i] = e.buf[i]
             /\ Get(r.order, Slice(r.buf, start, start + 4)) = Word(e.pos - start - 4)
<1> DEFINE w == Word(e.pos - start - 4)
           p == Put(e.order, w)
           b == Patch(e.buf, start, p)
<1>1. e.buf \in Seq(Byte) /\ e.pos \in Nat /\ e.order \in ByteOrders
  BY DEF Encoders
<1>2. w \in Seq(Byte) /\ Len(w) = 4
  BY <1>1, WordType
<1>3. p \in Seq(Byte) /\ Len(p) = 4 /\ Get(e.order, p) = w
  BY <1>1, <1>2, PutType
<1>4. /\ b \in Seq(Byte)
      /\ Len(b) = Len(e.buf)
      /\ \A i \in 1 .. Len(e.buf) : i \notin start + 1 .. start + 4 => b[i] = e.buf[i]
      /\ \A i \in 1 .. 4 : b[start + i] = p[i]
  <2> HIDE DEF p
  <2>1. b = [i \in 1 .. Len(e.buf) |->
               IF i \in start + 1 .. start + 4 THEN p[i - start] ELSE e.buf[i]]
    BY <1>3 DEF Patch
  <2>2. ASSUME NEW i \in 1 .. Len(e.buf), i \in start + 1 .. start + 4
        PROVE  i - start \in 1 .. 4
    BY <2>2
  <2> HIDE DEF b
  <2>3. \A i \in 1 .. 4 : p[i] \in Byte
    <3>1. \A i \in 1 .. Len(p) : p[i] \in Byte
      BY ONLY <1>3, ElementsAreBytes
    <3> QED
      BY ONLY <1>3, <3>1
  <2>4. \A i \in 1 .. Len(e.buf) : e.buf[i] \in Byte
    BY ONLY <1>1, ElementsAreBytes
  <2>5. \A i \in 1 .. Len(e.buf) : b[i] \in Byte
    BY <2>1, <2>2, <2>3, <2>4
  <2>6. b \in Seq(Byte) /\ Len(b) = Len(e.buf)
    <3>1. Len(e.buf) \in Nat
      BY ONLY <1>1
    <3>2. b = [i \in 1 .. Len(e.buf) |-> b[i]]
      BY ONLY <2>1
    <3> QED
      BY ONLY <2>5, <3>1, <3>2, BytesMakeASequence
  <2>7. \A i \in 1 .. Len(e.buf) : i \notin start + 1 .. start + 4 => b[i] = e.buf[i]
    BY <2>1
  <2>8. ASSUME NEW i \in 1 .. 4
        PROVE  b[start + i] = p[i]
    <3>1. start + i \in 1 .. Len(e.buf) /\ start + i \in start + 1 .. start + 4
      BY <1>1
    <3>2. (start + i) - start = i
      OBVIOUS
    <3> QED
      BY <2>1, <3>1, <3>2
  <2> QED
    BY <2>6, <2>7, <2>8
<1> HIDE DEF p, b
<1>5. Slice(b, start, start + 4) = p
  <2>1. start + 1 \in 1 .. Len(b) /\ start + 4 \in 1 .. Len(b)
    BY <1>4
  <2>2. SubSeq(b, start + 1, start + 4) = [i \in 1 .. 4 |-> b[start + i]]
    BY <1>4, <2>1
  <2>3. p = [i \in 1 .. 4 |-> p[i]]
    BY <1>3
  <2>4. [i \in 1 .. 4 |-> b[start + i]] = [i \in 1 .. 4 |-> p[i]]
    BY <1>4
  <2> QED
    BY ONLY <2>2, <2>3, <2>4 DEF Slice
<1>6. FinishDHeader(e, start) = [buf |-> b, pos |-> e.pos, order |-> e.order]
  BY DEF FinishDHeader, Patched, p, b
<1> QED
  BY <1>1, <1>3, <1>4, <1>5, <1>6 DEF Encoders

-----------------------------------------------------------------------------
(***************************************************************************)
(* Every read stays inside the data                                        *)
(***************************************************************************)
\* A read from d, as far as its cursor goes.
Reads(d, r) ==
  /\ r.d \in Decoders /\ r.d.data = d.data /\ r.d.order = d.order
  /\ r.ok \in BOOLEAN
  /\ r.d.pos >= d.pos /\ r.d.pos <= Bound(d.data)
  /\ r.ok => r.d.pos > d.pos /\ r.d.pos <= Len(d.data)

-----------------------------------------------------------------------------
(***************************************************************************)
(* Alignment                                                               *)
(***************************************************************************)
\* No alignment passes a multiple of 4 that the cursor has not passed.
LEMMA PadStops ==
  ASSUME NEW pos \in Nat, NEW k \in Nat, pos <= 4 * k, NEW n \in {1, 2, 4, 8}
  PROVE  pos + Pad(pos, n) <= 4 * k
<1>1. CASE n = 1
  BY <1>1 DEF Pad, Cap
<1>2. CASE n = 2
  BY <1>2 DEF Pad, Cap
<1>3. CASE n \in {4, 8}
  BY <1>3 DEF Pad, Cap
<1> QED
  BY <1>1, <1>2, <1>3

LEMMA BoundIsAligned ==
  ASSUME NEW data \in Seq(Byte)
  PROVE  /\ Bound(data) \in Nat /\ Bound(data) >= Len(data)
         /\ \E k \in Nat : Bound(data) = 4 * k
<1> DEFINE n == Len(data)
<1>1. n \in Nat
  OBVIOUS
<1> HIDE DEF n
<1>2. n + Pad(n, 4) \in Nat /\ n + Pad(n, 4) >= n /\ (n + Pad(n, 4)) % 4 = 0
  BY <1>1, PadAligns
<1>3. PICK x \in Nat : x = n + Pad(n, 4)
  BY <1>2
<1>4. x = 4 * (x \div 4) /\ x \div 4 \in Nat
  BY <1>2, <1>3
<1> QED
  BY <1>2, <1>3, <1>4 DEF Bound, n

LEMMA AlignStops ==
  ASSUME NEW d \in Decoders, d.pos <= Bound(d.data), NEW n \in {1, 2, 4, 8}
  PROVE  /\ DecAlign(d, n) \in Decoders /\ DecAlign(d, n).data = d.data
         /\ DecAlign(d, n).order = d.order
         /\ DecAlign(d, n).pos >= d.pos
         /\ DecAlign(d, n).pos <= Bound(d.data)
<1>1. d.pos \in Nat /\ d.data \in Seq(Byte) /\ d.order \in ByteOrders
  BY DEF Decoders
<1>2. PICK k \in Nat : Bound(d.data) = 4 * k
  BY <1>1, BoundIsAligned
<1>3. d.pos + Pad(d.pos, n) <= Bound(d.data)
  BY <1>1, <1>2, PadStops
<1>4. n \in Nat \ {0}
  OBVIOUS
<1>5. Pad(d.pos, n) \in Nat
  BY <1>1, <1>4, PadType
<1> QED
  BY <1>1, <1>3, <1>5 DEF DecAlign, Past, Decoders

-----------------------------------------------------------------------------
(***************************************************************************)
(* The methods                                                             *)
(***************************************************************************)
LEMMA GetType ==
  ASSUME NEW w \in Seq(Byte), NEW order \in ByteOrders
  PROVE  Get(order, w) \in Seq(Byte) /\ Len(Get(order, w)) = Len(w)
  BY SwapType DEF Get

LEMMA SliceType ==
  ASSUME NEW s \in Seq(Byte), NEW from \in Nat, NEW n \in Nat, from + n <= Len(s)
  PROVE  Slice(s, from, from + n) \in Seq(Byte) /\ Len(Slice(s, from, from + n)) = n
  BY DEF Slice

\* A scalar is read whole, from bytes behind the padding, or not at all.
LEMMA ScalarReads ==
  ASSUME NEW d \in Decoders, d.pos <= Bound(d.data), NEW n \in {1, 2, 4, 8}
  PROVE  LET r == ReadScalar(d, n)
         IN  Reads(d, r) /\ (r.ok => r.v \in Seq(Byte) /\ Len(r.v) = n)
<1> DEFINE a == DecAlign(d, n)
           s == Slice(a.data, a.pos, a.pos + n)
           r == ReadScalar(d, n)
<1>1. /\ a \in Decoders /\ a.data = d.data /\ a.order = d.order
      /\ a.pos >= d.pos /\ a.pos <= Bound(d.data)
  BY AlignStops
<1> HIDE DEF a
<1>2. /\ a.pos \in Nat /\ a.data \in Seq(Byte) /\ a.order \in ByteOrders
      /\ d.pos \in Nat /\ Len(a.data) \in Nat /\ n \in Nat /\ n > 0
  BY <1>1 DEF Decoders
<1>3. Bound(d.data) \in Nat /\ Bound(d.data) >= Len(a.data)
  BY <1>1, <1>2, BoundIsAligned
<1>4. CASE CheckRemaining(a, n)
  <2>1. r = Got(Past(a, n), Get(a.order, s))
    BY <1>4 DEF ReadScalar, a
  <2>2. a.pos + n <= Len(a.data)
    BY <1>4 DEF CheckRemaining
  <2>3. s \in Seq(Byte) /\ Len(s) = n
    BY <1>2, <2>2, SliceType
  <2> HIDE DEF s
  <2>4. Get(a.order, s) \in Seq(Byte) /\ Len(Get(a.order, s)) = n
    BY <1>2, <2>3, GetType
  <2>5. /\ r.d = [data |-> a.data, pos |-> a.pos + n, order |-> a.order]
        /\ r.ok = TRUE /\ r.v = Get(a.order, s)
    BY <2>1 DEF Got, Past
  <2> HIDE DEF r
  <2>6. /\ r.d \in Decoders /\ r.d.data = a.data /\ r.d.pos = a.pos + n
        /\ r.d.order = a.order
    BY <1>2, <2>5 DEF Decoders
  <2>7. r.d.pos <= Bound(d.data)
    BY <1>2, <1>3, <2>2, <2>6
  <2>8. r.d.pos > d.pos /\ r.d.pos <= Len(d.data)
    BY <1>1, <1>2, <2>2, <2>6
  <2>9. r.v \in Seq(Byte) /\ Len(r.v) = n
    BY <2>4, <2>5
  <2>10. r.d.pos \in Nat
    BY <2>6 DEF Decoders
  <2> HIDE DEF a
  <2>11. r.d.pos >= d.pos
    BY <1>2, <2>8, <2>10
  <2>12. Reads(d, r)
    BY <1>1, <2>5, <2>6, <2>7, <2>8, <2>11 DEF Reads
  <2> QED
    BY <2>9, <2>12 DEF r
<1>5. CASE ~CheckRemaining(a, n)
  <2>1. r = Failed(a)
    BY <1>5 DEF ReadScalar, a
  <2> QED
    BY <1>1, <2>1 DEF Failed, Reads
<1> QED
  BY <1>4, <1>5

LEMMA ByteSum ==
  ASSUME NEW a \in Byte, NEW b \in Byte, NEW c \in Byte, NEW d \in Byte
  PROVE  a * 16777216 + b * 65536 + c * 256 + d \in Nat
  BY SMT DEF Byte

\* What the four bytes of a word stand for.
LEMMA NumType ==
  ASSUME NEW w \in Seq(Byte), Len(w) = 4
  PROVE  Num(w) \in Nat
<1> DEFINE a == w[1]
           b == w[2]
           c == w[3]
           d == w[4]
<1>1. a \in Byte /\ b \in Byte /\ c \in Byte /\ d \in Byte
  OBVIOUS
<1>2. Num(w) = a * 16777216 + b * 65536 + c * 256 + d
  BY SMT DEF Num
<1> HIDE DEF a, b, c, d
<1>3. a * 16777216 + b * 65536 + c * 256 + d \in Nat
  BY <1>1, ByteSum, SMT
<1> QED
  BY <1>2, <1>3, SMT

\* Two reads, one behind the other.
LEMMA ReadsTransitive ==
  ASSUME NEW d \in Decoders, NEW l, Reads(d, l), l.ok, NEW r, Reads(l.d, r)
  PROVE  Reads(d, r)
  BY DEF Reads, Decoders

LEMMA BoolReads ==
  ASSUME NEW d \in Decoders, d.pos <= Bound(d.data)
  PROVE  Reads(d, ReadBool(d))
<1>1. Reads(d, ReadScalar(d, 1))
  BY ScalarReads
<1> QED
  BY <1>1 DEF ReadBool, Got, Reads

\* The length of a string is believed only if that many bytes are there.
LEMMA StringReads ==
  ASSUME NEW d \in Decoders, d.pos <= Bound(d.data)
  PROVE  Reads(d, ReadString(d))
<1> DEFINE l == ReadScalar(d, 4)
           r == StringBehind(d, l)
<1>1. Reads(d, l) /\ (l.ok => l.v \in Seq(Byte) /\ Len(l.v) = 4)
  BY ScalarReads
<1> HIDE DEF l
<1>2. ASSUME ~l.ok PROVE Reads(d, r)
  <2>1. r = l
    BY <1>2 DEF StringBehind
  <2> QED
    BY <1>1, <2>1
<1>3. ASSUME l.ok PROVE Reads(d, r)
  <2> DEFINE n == Num(l.v)
  <2>1. n \in Nat
    BY <1>1, <1>3, NumType
  <2>2. /\ l.d \in Decoders /\ l.d.data = d.data /\ l.d.pos > d.pos
        /\ l.d.pos \in Nat /\ d.pos \in Nat /\ l.d.pos <= Len(d.data)
        /\ l.d.data \in Seq(Byte) /\ l.d.order \in ByteOrders
        /\ l.d.order = d.order
    BY <1>1, <1>3 DEF Reads, Decoders
  <2>3. /\ Len(d.data) \in Nat
        /\ Bound(d.data) \in Nat /\ Bound(d.data) >= Len(d.data)
    BY <2>2, BoundIsAligned
  <2> HIDE DEF n
  <2>4. CASE n = 0
    <3>1. r.d = l.d /\ r.ok = TRUE
      BY <1>3, <2>4 DEF StringBehind, Got, n
    <3> QED
      BY <1>1, <1>3, <3>1 DEF Reads
  <2>5. CASE n # 0 /\ ~CheckRemaining(l.d, n)
    <3>1. r.d = l.d /\ r.ok = FALSE
      BY <1>3, <2>5 DEF StringBehind, Failed, n
    <3> QED
      BY <1>1, <3>1 DEF Reads
  <2>6. CASE n # 0 /\ CheckRemaining(l.d, n)
    <3>1. r.d = Past(l.d, n) /\ r.ok = TRUE
      BY <1>3, <2>6 DEF StringBehind, Got, n
    <3>2. l.d.pos + n <= Len(d.data)
      BY <2>2, <2>6 DEF CheckRemaining
    <3> HIDE DEF r
    <3>3. /\ r.d \in Decoders /\ r.d.data = d.data /\ r.d.pos = l.d.pos + n
          /\ r.d.order = d.order
      BY <2>1, <2>2, <3>1 DEF Past, Decoders
    <3>4. r.d.pos <= Len(d.data) /\ r.d.pos > d.pos /\ r.d.pos \in Nat
      BY <2>1, <2>2, <2>3, <3>2, <3>3
    <3>5. r.d.pos >= d.pos /\ r.d.pos <= Bound(d.data)
      BY <2>2, <2>3, <3>4
    <3> QED
      BY <3>1, <3>3, <3>4, <3>5 DEF Reads
  <2> QED
    BY <2>4, <2>5, <2>6
<1> QED
  BY <1>2, <1>3 DEF ReadString, l, r

\* A member header is one word or two, and the second is aligned by the first.
LEMMA EMHeaderReads ==
  ASSUME NEW d \in Decoders, d.pos <= Bound(d.data)
  PROVE  Reads(d, ReadEMHeader(d))
<1> DEFINE h == ReadScalar(d, 4)
           n == ReadScalar(h.d, 4)
<1>1. Reads(d, h)
  BY ScalarReads
<1> HIDE DEF h
<1>2. CASE ~h.ok
  BY <1>1, <1>2 DEF ReadEMHeader, EMHeaderBehind, h
<1>3. CASE h.ok /\ (h.v[1] \div 16) % 8 < 4
  BY <1>1, <1>3 DEF ReadEMHeader, EMHeaderBehind, Got, Reads, h
<1>4. CASE h.ok /\ ~((h.v[1] \div 16) % 8 < 4)
  <2>1. h.d \in Decoders /\ h.d.pos <= Bound(h.d.data)
    BY <1>1 DEF Reads
  <2>2. Reads(h.d, n)
    BY <2>1, ScalarReads
  <2> HIDE DEF n
  <2>3. Reads(h.d, NextIntBehind(h.v, n))
    BY <2>2 DEF NextIntBehind, Got, Reads
  <2>4. Reads(d, NextIntBehind(h.v, n))
    BY <1>1, <1>4, <2>3, ReadsTransitive
  <2>5. ReadEMHeader(d) = NextIntBehind(h.v, n)
    BY <1>4 DEF ReadEMHeader, EMHeaderBehind, h, n
  <2> QED
    BY <2>4, <2>5
<1> QED
  BY <1>2, <1>3, <1>4

LEMMA SkipStays ==
  ASSUME NEW d \in Decoders, d.pos <= Bound(d.data), NEW n \in Nat
  PROVE  LET r == Skip(d, n)
         IN  /\ r.d \in Decoders /\ r.d.data = d.data /\ r.ok \in BOOLEAN
             /\ r.d.order = d.order
             /\ r.d.pos <= Bound(d.data)
             /\ r.ok => r.d.pos >= d.pos /\ r.d.pos <= Len(d.data)
<1>1. d.pos \in Nat /\ d.data \in Seq(Byte) /\ d.order \in ByteOrders
  BY DEF Decoders
<1>2. /\ Len(d.data) \in Nat
      /\ Bound(d.data) \in Nat /\ Bound(d.data) >= Len(d.data)
  BY <1>1, BoundIsAligned
<1>3. CASE CheckRemaining(d, n)
  <2>1. d.pos + n <= Len(d.data)
    BY <1>3 DEF CheckRemaining
  <2>2. Skip(d, n).d = Past(d, n) /\ Skip(d, n).ok = TRUE
    BY <1>3 DEF Skip, Got
  <2>3. /\ Past(d, n) \in Decoders /\ Past(d, n).data = d.data
        /\ Past(d, n).pos = d.pos + n /\ Past(d, n).order = d.order
        /\ d.pos + n >= d.pos
    BY <1>1 DEF Past, Decoders
  <2>4. d.pos + n <= Bound(d.data)
    BY <1>1, <1>2, <2>1
  <2> QED
    BY <1>1, <2>1, <2>2, <2>3, <2>4
<1>4. CASE ~CheckRemaining(d, n)
  BY <1>4 DEF Skip, Failed
<1> QED
  BY <1>3, <1>4

-----------------------------------------------------------------------------
(***************************************************************************)
(* A read depends on the bytes it takes and on nothing else                *)
(***************************************************************************)
\* A scalar is read just if it is there, behind the padding.
LEMMA ScalarFound ==
  ASSUME NEW d \in Decoders, NEW n \in {1, 2, 4, 8}
  PROVE  LET p == d.pos + Pad(d.pos, n)
             r == ReadScalar(d, n)
         IN  /\ p \in Nat /\ p >= d.pos
             /\ r.ok \in BOOLEAN
             /\ r.ok <=> p + n <= Len(d.data)
             /\ r.ok => /\ r.d = At(d, p + n)
                        /\ r.v = Get(d.order, Slice(d.data, p, p + n))
<1> DEFINE p == d.pos + Pad(d.pos, n)
           r == ReadScalar(d, n)
           a == DecAlign(d, n)
<1>1. d.pos \in Nat /\ n \in Nat \ {0}
  BY DEF Decoders
<1>2. p \in Nat /\ p >= d.pos
  <2>1. Pad(d.pos, n) \in Nat
    BY <1>1, PadType
  <2> QED
    BY <1>1, <2>1
<1>3. a = At(d, p)
  BY DEF DecAlign, Past, At
<1> HIDE DEF a, p
<1>4. a.data = d.data /\ a.pos = p /\ a.order = d.order
  BY <1>3 DEF At
<1>5. r = IF p + n <= Len(d.data)
          THEN Got(At(d, p + n), Get(d.order, Slice(d.data, p, p + n)))
          ELSE Failed(a)
  BY <1>4 DEF ReadScalar, CheckRemaining, Past, At, a
<1> HIDE DEF r
<1>6. /\ r.ok \in BOOLEAN
      /\ r.ok <=> p + n <= Len(d.data)
      /\ r.ok => /\ r.d = At(d, p + n)
                 /\ r.v = Get(d.order, Slice(d.data, p, p + n))
  BY <1>5 DEF Got, Failed
<1> QED
  BY <1>2, <1>6 DEF p, r

\* The decoder f stands where d does, before the same bytes up to `to'.
Agrees(d, f, to) ==
  /\ f \in Decoders /\ f.pos = d.pos /\ f.order = d.order
  /\ to <= Len(f.data)
  /\ \A i \in d.pos + 1 .. to : f.data[i] = d.data[i]

\* s succeeds like r and leaves its decoder at the same position.
SameRead(r, s) == s.ok /\ s.v = r.v /\ s.d.pos = r.d.pos

LEMMA ScalarLocal ==
  ASSUME NEW d \in Decoders, NEW f, NEW n \in {1, 2, 4, 8},
         ReadScalar(d, n).ok, Agrees(d, f, ReadScalar(d, n).d.pos)
  PROVE  /\ SameRead(ReadScalar(d, n), ReadScalar(f, n))
         /\ ReadScalar(f, n).d = At(f, ReadScalar(d, n).d.pos)
<1> DEFINE p == d.pos + Pad(d.pos, n)
           r == ReadScalar(d, n)
           s == ReadScalar(f, n)
<1>1. d.data \in Seq(Byte) /\ d.pos \in Nat /\ n \in Nat
  BY DEF Decoders
<1>2. /\ p \in Nat /\ p >= d.pos /\ p + n <= Len(d.data)
      /\ r.d = At(d, p + n) /\ r.v = Get(d.order, Slice(d.data, p, p + n))
  BY ScalarFound
<1>3. r.d.pos = p + n
  BY <1>2 DEF At
<1>4. /\ f \in Decoders /\ f.data \in Seq(Byte)
      /\ f.pos = d.pos /\ f.order = d.order /\ p + n <= Len(f.data)
      /\ \A i \in d.pos + 1 .. p + n : f.data[i] = d.data[i]
  BY <1>3 DEF Agrees, Decoders
<1>5. /\ s.ok <=> p + n <= Len(f.data)
      /\ s.ok => /\ s.d = At(f, p + n)
                 /\ s.v = Get(f.order, Slice(f.data, p, p + n))
  BY <1>4, ScalarFound
<1> HIDE DEF p, r, s
<1>6. Slice(f.data, p, p + n) = Slice(d.data, p, p + n)
  <2>1. \A i \in p + 1 .. p + n : f.data[i] = d.data[i]
    BY <1>1, <1>2, <1>4
  <2>2. p + n \in Nat
    BY <1>1, <1>2
  <2> QED
    BY <1>1, <1>2, <1>4, <2>1, <2>2, SliceAgrees
<1>7. s.ok /\ s.v = r.v /\ s.d = At(f, p + n)
  BY <1>2, <1>4, <1>5, <1>6
<1>8. s.d.pos = p + n
  BY <1>7 DEF At
<1> QED
  BY <1>3, <1>7, <1>8 DEF SameRead, r, s

\* What agrees up to the end of two reads agrees up to the end of the first,
\* and from there on.
LEMMA AgreesSplits ==
  ASSUME NEW d \in Decoders, NEW f, NEW p \in Nat, NEW q \in Nat,
         d.pos <= p, p <= q, Agrees(d, f, q)
  PROVE  Agrees(d, f, p) /\ Agrees(At(d, p), At(f, p), q)
         /\ At(d, p) \in Decoders
<1>1. d.pos \in Nat /\ f \in Decoders /\ Len(f.data) \in Nat
  BY DEF Decoders, Agrees
<1>2. At(d, p) \in Decoders /\ At(f, p) \in Decoders
  BY <1>1 DEF At, Decoders
<1>3. Agrees(d, f, p)
  BY <1>1 DEF Agrees
<1>4. Agrees(At(d, p), At(f, p), q)
  BY <1>1, <1>2 DEF Agrees, At
<1> QED
  BY <1>2, <1>3, <1>4

LEMMA BoolLocal ==
  ASSUME NEW d \in Decoders, NEW f,
         ReadBool(d).ok, Agrees(d, f, ReadBool(d).d.pos)
  PROVE  SameRead(ReadBool(d), ReadBool(f))
<1> DEFINE l == ReadScalar(d, 1)
           m == ReadScalar(f, 1)
<1>1. l.ok /\ ReadBool(d).d = l.d
      /\ ReadBool(d).v = (IF l.v = <<0>> THEN l.v ELSE <<1>>)
  BY DEF ReadBool, Got
<1>2. SameRead(l, m)
  BY <1>1, ScalarLocal
<1>3. ReadBool(f) = Got(m.d, IF m.v = <<0>> THEN m.v ELSE <<1>>)
  BY <1>2 DEF ReadBool, SameRead
<1> HIDE DEF l, m
<1> QED
  BY <1>1, <1>2, <1>3 DEF SameRead, Got

LEMMA SkipLocal ==
  ASSUME NEW d \in Decoders, NEW f, NEW n \in Nat,
         Skip(d, n).ok, Agrees(d, f, Skip(d, n).d.pos)
  PROVE  SameRead(Skip(d, n), Skip(f, n))
<1>1. CheckRemaining(d, n)
  BY DEF Skip, Failed
<1>2. Skip(d, n) = Got(Past(d, n), <<>>) /\ Skip(d, n).d.pos = d.pos + n
  BY <1>1 DEF Skip, Got, Past
<1>3. CheckRemaining(f, n) /\ f.pos = d.pos
  BY <1>2 DEF CheckRemaining, Agrees
<1> QED
  BY <1>2, <1>3 DEF SameRead, Skip, Got, Past

LEMMA StringLocal ==
  ASSUME NEW d \in Decoders, NEW f,
         ReadString(d).ok, Agrees(d, f, ReadString(d).d.pos)
  PROVE  SameRead(ReadString(d), ReadString(f))
<1> DEFINE l == ReadScalar(d, 4)
           m == ReadScalar(f, 4)
           n == Num(l.v)
           p == l.d.pos
           r == ReadString(d)
<1>1. l.ok
  BY DEF ReadString, StringBehind
<1>2. /\ l.d = At(d, p) /\ p \in Nat /\ p >= d.pos /\ p <= Len(d.data)
      /\ l.v \in Seq(Byte) /\ Len(l.v) = 4
  <2> DEFINE b == d.pos + Pad(d.pos, 4)
             s == Slice(d.data, b, b + 4)
  <2>1. b \in Nat /\ b >= d.pos /\ b + 4 <= Len(d.data)
        /\ l.d = At(d, b + 4) /\ l.v = Get(d.order, s)
    BY <1>1, ScalarFound
  <2>2. d.data \in Seq(Byte) /\ d.order \in ByteOrders /\ d.pos \in Nat
    BY DEF Decoders
  <2> HIDE DEF b
  <2>3. s \in Seq(Byte) /\ Len(s) = 4
    BY <2>1, <2>2, SliceType
  <2> HIDE DEF s
  <2>4. l.v \in Seq(Byte) /\ Len(l.v) = 4
    BY <2>1, <2>2, <2>3, GetType
  <2>5. p = b + 4
    BY <2>1 DEF At
  <2> HIDE DEF l
  <2> QED
    BY <2>1, <2>2, <2>4, <2>5 DEF p
<1>3. n \in Nat
  BY <1>2, NumType
<1>4. /\ l.d.data = d.data /\ l.d.pos = p
      /\ d.pos \in Nat /\ d.data \in Seq(Byte)
  BY <1>2 DEF At, Decoders
<1> HIDE DEF l, n, p
<1>5. r = StringBehind(d, l)
  BY DEF ReadString, l
<1>6. /\ n # 0 => p + n <= Len(d.data) /\ r.v = Slice(d.data, p, p + n - 1)
      /\ n = 0 => r.v = <<>>
      /\ r.d.pos = p + n
  <2>1. CASE n = 0
    BY <1>1, <1>2, <1>4, <1>5, <2>1 DEF StringBehind, Got, n
  <2>2. CASE n # 0
    <3>1. CheckRemaining(l.d, n)
      BY <1>1, <1>5, <2>2 DEF StringBehind, Failed, n
    <3>2. r = Got(Past(l.d, n), Slice(l.d.data, l.d.pos, l.d.pos + n - 1))
      BY <1>1, <1>5, <2>2, <3>1 DEF StringBehind, n
    <3> QED
      BY <1>4, <2>2, <3>1, <3>2 DEF CheckRemaining, Got, Past
  <2> QED
    BY <2>1, <2>2
<1>7. /\ Agrees(d, f, p + n) /\ Agrees(d, f, p)
      /\ Agrees(At(d, p), At(f, p), p + n)
  <2>1. Agrees(d, f, p + n)
    BY <1>6 DEF r
  <2>2. p + n \in Nat /\ d.pos <= p /\ p <= p + n
    BY <1>2, <1>3, <1>4
  <2> QED
    BY <1>2, <2>1, <2>2, AgreesSplits
<1>8. m.ok /\ m.v = l.v /\ m.d = At(f, p)
  BY <1>1, <1>7, ScalarLocal DEF SameRead, l, p
<1> HIDE DEF m
<1>9. ReadString(f) = StringBehind(f, m) /\ n = Num(m.v)
      /\ m.d.data = f.data /\ m.d.pos = p
  BY <1>8 DEF ReadString, m, n, At
<1>10. CASE n = 0
  BY <1>6, <1>8, <1>9, <1>10, <1>2 DEF StringBehind, Got, SameRead, r
<1>11. CASE n # 0
  <2>1. CheckRemaining(m.d, n)
    BY <1>7, <1>9 DEF CheckRemaining, Agrees
  <2>2. ReadString(f) = Got(Past(m.d, n), Slice(f.data, p, p + n - 1))
    BY <1>8, <1>9, <1>11, <2>1 DEF StringBehind
  <2>3. Slice(f.data, p, p + n - 1) = Slice(d.data, p, p + n - 1)
    <3>1. /\ f.data \in Seq(Byte) /\ p + n - 1 \in Nat
          /\ p + n - 1 <= Len(f.data) /\ p + n - 1 <= Len(d.data)
          /\ \A i \in p + 1 .. p + n - 1 : f.data[i] = d.data[i]
      BY <1>2, <1>3, <1>4, <1>6, <1>7, <1>11 DEF Agrees, Decoders
    <3> QED
      BY <1>2, <1>4, <3>1, SliceAgrees
  <2> QED
    BY <1>6, <1>9, <1>11, <2>2, <2>3 DEF SameRead, Got, Past, r
<1> QED
  BY <1>10, <1>11

LEMMA EMHeaderLocal ==
  ASSUME NEW d \in Decoders, NEW f,
         ReadEMHeader(d).ok, Agrees(d, f, ReadEMHeader(d).d.pos)
  PROVE  SameRead(ReadEMHeader(d), ReadEMHeader(f))
<1> DEFINE h == ReadScalar(d, 4)
           g == ReadScalar(f, 4)
           p == h.d.pos
           r == ReadEMHeader(d)
           lc == (h.v[1] \div 16) % 8
<1>1. h.ok
  BY DEF ReadEMHeader, EMHeaderBehind
<1>2. h.d = At(d, p) /\ p \in Nat /\ p >= d.pos
  <2>1. /\ d.pos + Pad(d.pos, 4) \in Nat /\ d.pos + Pad(d.pos, 4) >= d.pos
        /\ h.d = At(d, d.pos + Pad(d.pos, 4) + 4)
    BY <1>1, ScalarFound
  <2>2. d.pos \in Nat
    BY DEF Decoders
  <2> HIDE DEF h
  <2> QED
    BY <2>1, <2>2 DEF At
<1>3. r = EMHeaderBehind(h)
  BY DEF ReadEMHeader
<1> HIDE DEF h, p
<1>4. ASSUME Agrees(d, f, p)
      PROVE  g.ok /\ g.v = h.v /\ g.d = At(f, p)
  BY <1>1, <1>4, ScalarLocal DEF SameRead, h, p
<1>5. ReadEMHeader(f) = EMHeaderBehind(g)
  BY DEF ReadEMHeader
<1> HIDE DEF g
<1>6. CASE lc < 4
  <2>1. r = Got(h.d, EMHeader(h.v, 0)) /\ r.d.pos = p
    BY <1>1, <1>3, <1>6 DEF EMHeaderBehind, Got, p
  <2>2. Agrees(d, f, p)
    BY <2>1 DEF r
  <2>3. ReadEMHeader(f) = Got(g.d, EMHeader(h.v, 0))
    BY <1>4, <1>5, <1>6, <2>2 DEF EMHeaderBehind
  <2> QED
    BY <1>2, <1>4, <2>1, <2>2, <2>3 DEF SameRead, Got, At, r
<1>7. CASE ~(lc < 4)
  <2> DEFINE n == ReadScalar(At(d, p), 4)
             k == ReadScalar(At(f, p), 4)
             q == n.d.pos
  <2>1. r = NextIntBehind(h.v, n)
    BY <1>1, <1>2, <1>3, <1>7 DEF EMHeaderBehind
  <2>2. n.ok /\ r = Got(n.d, EMHeader(h.v, Num(n.v)))
    BY <2>1 DEF NextIntBehind, r
  <2>3. At(d, p) \in Decoders
    BY <1>2 DEF At, Decoders
  <2>4. q \in Nat /\ q >= p
    <3> DEFINE b == p + Pad(p, 4)
    <3>1. At(d, p).pos = p
      BY DEF At
    <3>2. b \in Nat /\ b >= p /\ n.d = At(At(d, p), b + 4)
      BY <2>2, <2>3, <3>1, ScalarFound
    <3> HIDE DEF n, b
    <3> QED
      BY <1>2, <3>2 DEF At
  <2>5. Agrees(d, f, q)
    BY <2>2 DEF Got, r
  <2>6. Agrees(d, f, p) /\ Agrees(At(d, p), At(f, p), q)
    BY <1>2, <2>4, <2>5, AgreesSplits
  <2>7. SameRead(n, k)
    BY <2>2, <2>3, <2>6, ScalarLocal
  <2> HIDE DEF n, k
  <2>8. ReadEMHeader(f) = NextIntBehind(h.v, ReadScalar(g.d, 4))
    BY <1>4, <1>5, <1>7, <2>6 DEF EMHeaderBehind
  <2>9. ReadEMHeader(f) = NextIntBehind(h.v, k)
    BY <1>4, <2>6, <2>8 DEF k
  <2>10. ReadEMHeader(f) = Got(k.d, EMHeader(h.v, Num(n.v)))
    BY <2>7, <2>9 DEF NextIntBehind, SameRead
  <2> QED
    BY <2>2, <2>7, <2>10 DEF SameRead, Got, r
<1> QED
  BY <1>6, <1>7

-----------------------------------------------------------------------------
(***************************************************************************)
(* What was written is read back                                           *)
(***************************************************************************)

\* A decoder of all that the encoder f has written, standing where e stood.
Behind(e, f) == [data |-> f.buf, pos |-> e.pos, order |-> e.order]

\* The read r of what took the encoder to f yields v and ends where f does.
ReadsBack(r, v, f) == r.ok /\ r.v = v /\ r.d.pos = f.pos

LEMMA BytesSum ==
  ASSUME NEW a \in Int, NEW b \in Int, NEW c \in Int, NEW d \in Int, NEW n \in Nat,
         n = 256 * (256 * (256 * a + b) + c) + d
  PROVE  a * 16777216 + b * 65536 + c * 256 + d = n
  BY SMT

\* Word and Num are inverses on uint32.
LEMMA NumOfWord ==
  ASSUME NEW n \in Uint32
  PROVE  Num(Word(n)) = n
<1> DEFINE p == n \div 256
           q == p \div 256
           r == q \div 256
<1>1. n \in Nat /\ n \div 65536 < 65536
  BY DEF Uint32
<1>2. n = 256 * p + (n % 256) /\ p \in Nat
  BY <1>1, SMT
<1>3. p = 256 * q + (p % 256) /\ q \in Nat
  BY <1>2, SMT
<1>4. q = 256 * r + (q % 256) /\ r \in Nat
  BY <1>3, SMT
<1>5. q = n \div 65536
  BY <1>1, SMT
<1>6. r = n \div 16777216
  BY <1>1, SMT
<1>7. r < 256
  <2>1. q < 65536
    BY <1>1, <1>5, SMT
  <2> HIDE DEF q
  <2> QED
    BY <1>3, <2>1, SMT
<1>8. r % 256 = r
  <2> HIDE DEF r
  <2> QED
    BY <1>4, <1>7, SMT
<1>9. Word(n) = << r, q % 256, p % 256, n % 256 >>
  BY <1>5, <1>6, <1>8, SMT DEF Word
<1>10. Num(Word(n)) = r * 16777216 + (q % 256) * 65536 + (p % 256) * 256 + (n % 256)
  <2> HIDE DEF r, q, p
  <2> QED
    BY <1>9, SMT DEF Num
<1>11. n = 256 * (256 * (256 * r + (q % 256)) + (p % 256)) + (n % 256)
  <2> HIDE DEF r, q, p
  <2> QED
    BY <1>2, <1>3, <1>4, SMT
<1>12. r \in Int /\ q % 256 \in Int /\ p % 256 \in Int /\ n % 256 \in Int
  BY <1>1, <1>2, <1>3, <1>4, SMT
<1> HIDE DEF r, q, p
<1> QED
  BY <1>1, <1>10, <1>11, <1>12, BytesSum, SMT

LEMMA Below ==
  ASSUME NEW m \in Nat, NEW n \in 0 .. m - 1
  PROVE  n \in Nat /\ n < m /\ n % m = n
  BY SMT

LEMMA MaxMemberIDType == MaxMemberID \in Nat
  BY SMT DEF MaxMemberID

LEMMA MaxMemberIDValue == \A n \in Nat : n < MaxMemberID => n < 268435456
  BY SMT DEF MaxMemberID

LEMMA MemberIDs ==
  ASSUME NEW id \in 0 .. MaxMemberID - 1
  PROVE  id \in Nat /\ id < 268435456 /\ id % MaxMemberID = id
<1>1. id \in Nat /\ id < MaxMemberID /\ id % MaxMemberID = id
  BY MaxMemberIDType, Below, SMT
<1>2. id < 268435456
  BY ONLY <1>1, MaxMemberIDValue, SMT
<1> QED
  BY <1>1, <1>2, SMT

\* The fields of a member header come back.
LEMMA EMHeaderOfWord ==
  ASSUME NEW m \in {0, 1}, NEW lc \in 0 .. 4, NEW id \in 0 .. MaxMemberID - 1, NEW x
  PROVE  /\ EMHeader(EMWord(m, lc, id), x) = <<m, lc, id, x>>
         /\ (EMWord(m, lc, id)[1] \div 16) % 8 = lc
<1>1. id \in Nat /\ id < 268435456 /\ id % MaxMemberID = id
  BY MemberIDs, SMT
<1> DEFINE low == Word(id)
           a == low[1]
           w == EMWord(m, lc, id)
<1>2. low[1] = (id \div 16777216) % 256 /\ low[1] \in 0 .. 15
  <2>1. id \div 16777216 \in Nat /\ id \div 16777216 < 16
    BY <1>1, SMT
  <2>2. low[1] = (id \div 16777216) % 256
    BY SMT DEF Word
  <2> QED
    BY <2>1, <2>2, SMT
<1>3. id \in Uint32
  BY <1>1, SMT DEF Uint32
<1>4. Num(low) = id
  BY <1>3, NumOfWord
<1>5. w = <<m * 128 + lc * 16 + a, low[2], low[3], low[4]>>
  BY <1>1 DEF EMWord
<1>6. low = <<a, low[2], low[3], low[4]>>
  BY SMT DEF Word
<1> HIDE DEF low
<1>7. a \in 0 .. 15
  BY <1>2
<1> HIDE DEF a
<1> DEFINE b == m * 128 + lc * 16 + a
<1>8. b \div 128 = m /\ (b \div 16) % 8 = lc /\ b % 16 = a
  BY <1>7, SMT
<1>9. w[1] = b /\ w[2] = low[2] /\ w[3] = low[3] /\ w[4] = low[4]
  BY <1>5
<1> HIDE DEF w, b
<1>10. EMHeader(w, x) = <<m, lc, Num(<<a, low[2], low[3], low[4]>>), x>>
  BY <1>8, <1>9 DEF EMHeader
<1>11. EMHeader(w, x) = <<m, lc, id, x>>
  BY <1>4, <1>6, <1>10
<1> QED
  BY <1>8, <1>9, <1>11 DEF w

LEMMA ConcatElements ==
  ASSUME NEW s \in Seq(Byte), NEW t \in Seq(Byte), NEW i \in 1 .. Len(t)
  PROVE  (s \o t)[Len(s) + i] = t[i]
  OBVIOUS

\* What is behind s in s \o t.
LEMMA SliceBehind ==
  ASSUME NEW s \in Seq(Byte), NEW t \in Seq(Byte)
  PROVE  /\ Slice(s \o t, Len(s), Len(s) + Len(t)) = t
         /\ s \o t \in Seq(Byte)
         /\ Len(s \o t) = Len(s) + Len(t)
<1> DEFINE u == s \o t
           m == Len(s)
           n == Len(t)
<1>1. /\ u \in Seq(Byte) /\ Len(u) = m + n /\ m \in Nat /\ n \in Nat
      /\ \A i \in 1 .. n : u[m + i] = t[i]
  OBVIOUS
<1>2. t = [i \in 1 .. n |-> t[i]]
  OBVIOUS
<1> HIDE DEF u, m, n
<1>3. SubSeq(u, m + 1, m + n) = [i \in 1 .. n |-> u[m + i]]
  <2>1. \A i \in 1 .. n : (m + 1) + i - 1 = m + i
    BY <1>1
  <2>2. (m + n) - (m + 1) + 1 = n
    BY <1>1
  <2> QED
    BY <1>1, <2>1, <2>2
<1>4. [i \in 1 .. n |-> u[m + i]] = [i \in 1 .. n |-> t[i]]
  BY <1>1
<1>5. Slice(u, m, m + n) = t
  BY <1>2, <1>3, <1>4 DEF Slice
<1> QED
  BY <1>1, <1>5 DEF u, m, n

LEMMA ScalarReadsBack ==
  ASSUME NEW e \in Encoders, e.pos = Len(e.buf),
         NEW w \in Seq(Byte), Len(w) \in {1, 2, 4, 8}
  PROVE  ReadsBack(ReadScalar(Behind(e, WriteScalar(e, w)), Len(w)), w, WriteScalar(e, w))
<1> DEFINE n == Len(w)
           pad == Pad(e.pos, n)
           a == e.buf \o Zeros(pad)
           b == Put(e.order, w)
           f == WriteScalar(e, w)
           d == Behind(e, f)
           r == ReadScalar(d, n)
<1>1. /\ e.buf \in Seq(Byte) /\ e.pos \in Nat /\ e.order \in ByteOrders
      /\ n \in Nat \ {0}
  <2>1. n \in {1, 2, 4, 8}
    OBVIOUS
  <2> HIDE DEF n
  <2> QED
    BY <2>1 DEF Encoders
<1>2. pad \in Nat /\ Zeros(pad) \in Seq(Byte) /\ Len(Zeros(pad)) = pad
  BY <1>1, PadType
<1>3. b \in Seq(Byte) /\ Len(b) = n /\ Get(e.order, b) = w
  BY <1>1, PutType
<1>4. f = [buf |-> a \o b, pos |-> (e.pos + pad) + Len(b), order |-> e.order]
  BY DEF WriteScalar, WriteRaw, EncAlign, Advance
<1> HIDE DEF pad, b, n
<1>5. a \in Seq(Byte) /\ Len(a) = e.pos + pad
  <2>1. a \in Seq(Byte) /\ Len(a) = Len(e.buf) + Len(Zeros(pad))
    BY <1>1, <1>2, SliceBehind
  <2> HIDE DEF a
  <2> QED
    BY <1>2, <2>1
<1> HIDE DEF a
<1>6. /\ a \o b \in Seq(Byte) /\ Len(a \o b) = e.pos + pad + n
      /\ Slice(a \o b, e.pos + pad, e.pos + pad + n) = b
  BY <1>3, <1>5, SliceBehind
<1>7. f.buf = a \o b /\ f.pos = e.pos + pad + n
  BY <1>3, <1>4
<1> HIDE DEF f
<1>8. /\ d \in Decoders
      /\ d.data = a \o b /\ d.pos = e.pos /\ d.order = e.order
  BY <1>1, <1>6, <1>7 DEF Behind, Decoders
<1> HIDE DEF d
<1>9. n \in {1, 2, 4, 8}
  BY DEF n
<1>10. LET p == d.pos + Pad(d.pos, n)
       IN  /\ r.ok <=> p + n <= Len(d.data)
           /\ r.ok \in BOOLEAN
           /\ r.ok => /\ r.d = At(d, p + n)
                      /\ r.v = Get(d.order, Slice(d.data, p, p + n))
  BY <1>8, <1>9, ScalarFound
<1> HIDE DEF r
<1>11. r.ok /\ r.d = At(d, e.pos + pad + n) /\ r.v = w
  BY <1>1, <1>2, <1>3, <1>6, <1>8, <1>10 DEF pad
<1>12. r.d.pos = f.pos
  BY <1>7, <1>11 DEF At
<1> QED
  BY <1>11, <1>12 DEF ReadsBack, r, d, f, n

\* A flag is a scalar of one byte, which needs no padding.
LEMMA BoolIsScalar ==
  ASSUME NEW e \in Encoders, NEW v \in Booleans
  PROVE  /\ v \in Seq(Byte) /\ Len(v) = 1
         /\ WriteBool(e, v) = WriteScalar(e, v)
<1>1. v \in Seq(Byte) /\ Len(v) = 1 /\ v[1] \in {0, 1}
  <2>1. CASE v = <<0>>
    BY <2>1 DEF Byte
  <2>2. CASE v = <<1>>
    BY <2>2 DEF Byte
  <2> QED
    BY <2>1, <2>2 DEF Booleans
<1>2. WriteBool(e, v) = WriteScalar(e, v)
  <2>1. e.buf \in Seq(Byte) /\ e.pos \in Nat
    BY DEF Encoders
  <2>2. Pad(e.pos, 1) = 0
    <3>1. ASSUME NEW p \in Nat PROVE p % 1 = 0
      BY ONLY SMT
    <3>2. Cap(1) = 1
      BY DEF Cap
    <3> QED
      BY <2>1, <3>1, <3>2 DEF Pad
  <2>3. Zeros(0) = <<>>
    BY DEF Zeros
  <2>4. e.buf \o <<>> = e.buf
    BY <2>1
  <2>5. EncAlign(e, 1) = [buf |-> e.buf, pos |-> e.pos, order |-> e.order]
    <3>1. e.pos + 0 = e.pos
      BY <2>1
    <3> QED
      BY <2>2, <2>3, <2>4, <3>1, Zenon DEF EncAlign, Advance
  <2>6. Put(e.order, v) = v
    <3>1. Swap(v) = v
      BY <1>1 DEF Swap, Booleans
    <3> QED
      BY <3>1 DEF Put
  <2> QED
    <3> DEFINE a == EncAlign(e, 1)
    <3>1. a.buf = e.buf /\ a.pos = e.pos /\ a.order = e.order
      BY <2>5
    <3> HIDE DEF a
    <3>2. WriteScalar(e, v) = WriteRaw(a, v)
      BY <1>1, <2>6, Zenon DEF WriteScalar, a
    <3>3. WriteRaw(a, v) = WriteRaw(e, v)
      BY <3>1, Zenon DEF WriteRaw, Advance
    <3> QED
      BY <3>2, <3>3 DEF WriteBool
<1> QED
  BY <1>1, <1>2

LEMMA BoolReadsBack ==
  ASSUME NEW e \in Encoders, e.pos = Len(e.buf), NEW v \in Booleans
  PROVE  /\ Extends(e, WriteBool(e, v))
         /\ ReadsBack(ReadBool(Behind(e, WriteBool(e, v))), v, WriteBool(e, v))
<1>1. v \in Seq(Byte) /\ Len(v) = 1
  BY BoolIsScalar
<1>2. WriteBool(e, v) = WriteScalar(e, v)
  BY BoolIsScalar
<1> DEFINE f == WriteScalar(e, v)
           l == ReadScalar(Behind(e, f), 1)
<1>3. ReadsBack(l, v, f)
  BY <1>1, ScalarReadsBack
<1>4. Extends(e, f)
  <2>1. Len(v) > 0
    BY <1>1
  <2> QED
    BY <1>1, <2>1, ScalarExtends
<1>5. ReadBool(Behind(e, f)) = Got(l.d, v)
  <2>1. v = <<0>> \/ v = <<1>>
    BY DEF Booleans
  <2> QED
    BY <1>3, <2>1 DEF ReadBool, ReadsBack
<1> HIDE DEF f, l
<1>6. ReadsBack(ReadBool(Behind(e, f)), v, f)
  BY <1>3, <1>5 DEF ReadsBack, Got
<1> QED
  BY <1>2, <1>4, <1>6 DEF f

\* Raw bytes are passed over.
LEMMA RawReadsBack ==
  ASSUME NEW e \in Encoders, e.pos = Len(e.buf), NEW bytes \in Seq(Byte)
  PROVE  /\ Extends(e, WriteRaw(e, bytes))
         /\ ReadsBack(Skip(Behind(e, WriteRaw(e, bytes)), Len(bytes)), <<>>, WriteRaw(e, bytes))
<1> DEFINE f == WriteRaw(e, bytes)
<1>1. Extends(e, f) /\ f.pos = e.pos + Len(bytes) /\ f.pos = Len(f.buf)
  BY AdvanceExtends DEF WriteRaw, Extends
<1> HIDE DEF f
<1>2. CheckRemaining(Behind(e, f), Len(bytes))
  <2>1. Len(f.buf) \in Nat
    BY <1>1 DEF Extends, Encoders
  <2> QED
    BY <1>1, <2>1 DEF CheckRemaining, Behind
<1> QED
  BY <1>1, <1>2 DEF Skip, ReadsBack, Got, Past, Behind, f

\* A decoder of e's bytes sees the same in all that extends e.
LEMMA ExtendedAgrees ==
  ASSUME NEW e \in Encoders, NEW f \in Encoders, NEW p \in Nat, NEW q \in Nat,
         Extends(e, f), q <= Len(e.buf)
  PROVE  Agrees([data |-> e.buf, pos |-> p, order |-> e.order],
                [data |-> f.buf, pos |-> p, order |-> f.order], q)
  BY DEF Extends, Encoders, Decoders, Agrees

\* What reads back a scalar w from f's own bytes reads it back behind more.
LEMMA ScalarReadsBackIn ==
  ASSUME NEW e \in Encoders, e.pos = Len(e.buf),
         NEW w \in Seq(Byte), Len(w) = 4,
         NEW f \in Encoders, Extends(WriteScalar(e, w), f)
  PROVE  LET r == ReadScalar(Behind(e, f), 4)
         IN  r.ok /\ r.v = w /\ r.d = At(Behind(e, f), WriteScalar(e, w).pos)
<1> DEFINE g == WriteScalar(e, w)
           d == Behind(e, g)
           c == Behind(e, f)
           r == ReadScalar(d, 4)
<1>1. ReadsBack(r, w, g)
  <2>1. Len(w) \in {1, 2, 4, 8}
    OBVIOUS
  <2>2. ReadsBack(ReadScalar(d, Len(w)), w, g)
    BY ONLY <2>1, ScalarReadsBack, e \in Encoders, e.pos = Len(e.buf), w \in Seq(Byte)
  <2> QED
    BY <2>2
<1>2. Extends(e, g) /\ Extends(g, f)
  BY WordExtends
<1> HIDE DEF g
<1>3. /\ g \in Encoders /\ g.pos \in Nat /\ g.pos = Len(g.buf)
      /\ e.pos \in Nat /\ g.order = e.order /\ f.order = e.order
  BY <1>2 DEF Extends, Encoders
<1>4. d \in Decoders
  BY <1>3 DEF Behind, Encoders, Decoders
<1>5. Agrees(d, c, g.pos)
  <2>1. /\ d = [data |-> g.buf, pos |-> e.pos, order |-> g.order]
        /\ c = [data |-> f.buf, pos |-> e.pos, order |-> g.order]
    BY <1>3 DEF Behind
  <2>2. g.pos \in Nat /\ g.pos <= Len(g.buf)
    BY <1>3
  <2> HIDE DEF d, c
  <2> QED
    BY <1>2, <1>3, <2>1, <2>2, ExtendedAgrees
<1> HIDE DEF d, c
<1>6. /\ SameRead(r, ReadScalar(c, 4))
      /\ ReadScalar(c, 4).d = At(c, g.pos)
  BY <1>1, <1>4, <1>5, ScalarLocal DEF ReadsBack
<1> QED
  BY <1>1, <1>6 DEF ReadsBack, SameRead, c, g

LEMMA StringReadsBack ==
  ASSUME NEW e \in Encoders, e.pos = Len(e.buf),
         NEW s \in Seq(Byte), Len(s) + 1 \in Uint32
  PROVE  ReadsBack(ReadString(Behind(e, WriteString(e, s))), s, WriteString(e, s))
<1> DEFINE n == Len(s) + 1
           w == Word(n)
           l == WriteScalar(e, w)
           t == s \o <<0>>
           f == WriteString(e, s)
           d == Behind(e, f)
           m == ReadScalar(d, 4)
<1>1. n \in Nat /\ n # 0 /\ n \in Uint32
  OBVIOUS
<1>2. t \in Seq(Byte) /\ Len(t) = n
  BY DEF Byte
<1>3. f = Advance(l, t, n)
  BY DEF WriteString
<1> HIDE DEF n
<1>4. w \in Seq(Byte) /\ Len(w) = 4
  BY <1>1, WordType
<1>5. Num(w) = n
  BY <1>1, NumOfWord
<1> HIDE DEF w
<1>6. Extends(e, l)
  BY <1>4, WordExtends
<1> HIDE DEF l, f, t
<1>7. /\ l \in Encoders /\ l.buf \in Seq(Byte) /\ l.pos \in Nat
      /\ l.pos = Len(l.buf) /\ l.order = e.order
  BY <1>6 DEF Extends, Encoders
<1>8. Extends(l, f)
  BY <1>2, <1>3, <1>7, AdvanceExtends
<1>9. f \in Encoders
  BY <1>8 DEF Extends
<1>10. f.buf = l.buf \o t /\ f.pos = l.pos + n
  BY <1>3 DEF Advance
<1>11. m.ok /\ m.v = w /\ m.d = At(d, l.pos)
  BY <1>4, <1>8, <1>9, ScalarReadsBackIn DEF l
<1> HIDE DEF m
<1>12. d.data = f.buf /\ m.d.data = f.buf /\ m.d.pos = l.pos
  BY <1>11 DEF At, Behind
<1> HIDE DEF d
<1>13. Len(f.buf) = l.pos + n
  BY <1>2, <1>7, <1>10, SliceBehind
<1>14. CheckRemaining(m.d, n)
  BY <1>1, <1>7, <1>12, <1>13 DEF CheckRemaining
<1>15. ReadString(d) = Got(Past(m.d, n), Slice(f.buf, l.pos, l.pos + n - 1))
  BY <1>1, <1>5, <1>11, <1>12, <1>14 DEF ReadString, StringBehind, m
<1>16. Slice(f.buf, l.pos, l.pos + n - 1) = s
  <2> DEFINE k == Len(s)
  <2>1. l.pos + n - 1 = l.pos + k /\ k \in Nat
    BY <1>7 DEF n
  <2>2. \A i \in 1 .. k : t[i] = s[i]
    BY DEF t
  <2>3. /\ Slice(l.buf \o s, l.pos, l.pos + k) = s
        /\ l.buf \o s \in Seq(Byte) /\ Len(l.buf \o s) = l.pos + k
    BY <1>7, SliceBehind
  <2> DEFINE b == l.buf \o s
  <2>4. /\ Len(f.buf) = l.pos + k + 1
        /\ \A i \in 1 .. l.pos + k : f.buf[i] = b[i]
    <3>1. Len(f.buf) = l.pos + k + 1
      <4>1. n = k + 1
        BY DEF n
      <4>2. l.pos \in Nat
        BY <1>7
      <4> HIDE DEF k
      <4> QED
        BY ONLY <1>13, <2>1, <4>1, <4>2
    <3>2. ASSUME NEW i \in 1 .. l.pos PROVE f.buf[i] = b[i]
      BY <1>2, <1>7, <1>10, <3>2
    <3>3. ASSUME NEW i \in l.pos + 1 .. l.pos + k PROVE f.buf[i] = b[i]
      <4>1. i - l.pos \in 1 .. k /\ i - l.pos \in 1 .. n
        BY <1>7, <2>1, <3>3 DEF n
      <4>2. i = l.pos + (i - l.pos)
        BY <1>7, <3>3
      <4>3. f.buf[i] = t[i - l.pos]
        BY <1>2, <1>7, <1>10, <4>1, <4>2, ConcatElements
      <4>4. b[i] = s[i - l.pos]
        BY <1>7, <4>1, <4>2, ConcatElements
      <4> QED
        BY <2>2, <4>1, <4>3, <4>4
    <3> QED
      BY <1>7, <2>1, <3>1, <3>2, <3>3
  <2>5. f.buf \in Seq(Byte)
    BY <1>9 DEF Encoders
  <2> HIDE DEF b, k
  <2>6. Slice(f.buf, l.pos, l.pos + k) = Slice(b, l.pos, l.pos + k)
    <3>1. /\ b \in Seq(Byte) /\ l.pos + k \in Nat
          /\ l.pos + k <= Len(b) /\ l.pos + k <= Len(f.buf)
          /\ \A i \in l.pos + 1 .. l.pos + k : f.buf[i] = b[i]
      <4>1. b \in Seq(Byte) /\ Len(b) = l.pos + k
        BY <2>3 DEF b
      <4>2. l.pos + k \in Nat /\ l.pos + k <= Len(f.buf) /\ l.pos + k <= Len(b)
        BY <1>7, <2>1, <2>4, <4>1
      <4>3. \A i \in l.pos + 1 .. l.pos + k : i \in 1 .. l.pos + k
        BY <1>7, <2>1
      <4> QED
        BY <2>4, <4>1, <4>2, <4>3
    <3> QED
      BY <1>7, <2>5, <3>1, SliceAgrees
  <2> QED
    BY <2>1, <2>3, <2>6 DEF b
<1>17. ReadString(d).d.pos = f.pos
  BY <1>10, <1>12, <1>15 DEF Got, Past
<1> QED
  BY <1>15, <1>16, <1>17 DEF ReadsBack, Got, d, f

LEMMA EMHeaderReadsBack ==
  ASSUME NEW e \in Encoders, e.pos = Len(e.buf),
         NEW m \in {0, 1}, NEW id \in 0 .. MaxMemberID - 1, NEW size \in Uint32
  PROVE  LET lc == LengthCode(size)
             f  == WriteEMHeader(e, m, id, size)
         IN  ReadsBack(ReadEMHeader(Behind(e, f)),
                       <<m, lc, id, IF lc = 4 THEN size ELSE 0>>, f)
<1> DEFINE lc == LengthCode(size)
           w == EMWord(m, lc, id)
           n == Word(size)
           h == WriteScalar(e, w)
           f == WriteEMHeader(e, m, id, size)
           d == Behind(e, f)
           g == ReadScalar(d, 4)
           v == <<m, lc, id, IF lc = 4 THEN size ELSE 0>>
<1>1. lc \in 0 .. 4
  BY LengthCodeType DEF Uint32
<1>2. f = IF lc = 4 THEN WriteScalar(h, n) ELSE h
  BY DEF WriteEMHeader
<1> HIDE DEF lc
<1>3. id \in Nat
  BY MemberIDs
<1>4. w \in Seq(Byte) /\ Len(w) = 4
  BY <1>1, <1>3, EMWordType
<1>5. (w[1] \div 16) % 8 = lc /\ \A x : EMHeader(w, x) = <<m, lc, id, x>>
  BY <1>1, EMHeaderOfWord
<1>6. n \in Seq(Byte) /\ Len(n) = 4 /\ Num(n) = size
  BY WordType, NumOfWord DEF Uint32
<1> HIDE DEF w, n
<1>7. Extends(e, h)
  BY <1>4, WordExtends
<1>8. ReadEMHeader(d) = EMHeaderBehind(g)
  BY DEF ReadEMHeader
<1> HIDE DEF h
<1>9. h \in Encoders /\ h.pos = Len(h.buf) /\ h.order = e.order
  BY <1>7 DEF Extends
<1>10. CASE lc # 4
  <2>1. f = h
    BY <1>2, <1>10
  <2>2. Extends(h, f)
    BY <1>9, <2>1 DEF Extends, Encoders
  <2> HIDE DEF f
  <2>3. f \in Encoders
    BY <1>9, <2>1
  <2>4. g.ok /\ g.v = w /\ g.d = At(d, h.pos)
    BY <1>4, <2>2, <2>3, ScalarReadsBackIn DEF h
  <2> HIDE DEF g, d
  <2>5. ReadEMHeader(d) = Got(g.d, <<m, lc, id, 0>>)
    BY <1>1, <1>5, <1>8, <1>10, <2>4 DEF EMHeaderBehind
  <2> QED
    BY <1>10, <2>1, <2>4, <2>5 DEF ReadsBack, Got, At, d, f, lc
<1>11. CASE lc = 4
  <2>1. f = WriteScalar(h, n)
    BY <1>2, <1>11
  <2>2. Extends(h, f)
    BY <1>6, <1>9, <2>1, WordExtends
  <2> HIDE DEF f
  <2>3. f \in Encoders /\ f.pos \in Nat
    BY <2>2 DEF Extends, Encoders
  <2>4. g.ok /\ g.v = w /\ g.d = At(d, h.pos)
    BY <1>4, <2>2, <2>3, ScalarReadsBackIn DEF h
  <2>5. At(d, h.pos) = Behind(h, f)
    BY <1>9, <2>2 DEF At, Behind, Extends
  <2> HIDE DEF g, d
  <2> DEFINE k == ReadScalar(Behind(h, f), 4)
  <2>6. ReadsBack(k, n, f)
    <3>1. Len(n) \in {1, 2, 4, 8}
      BY <1>6
    <3> QED
      BY <1>6, <1>9, <2>1, <3>1, ScalarReadsBack
  <2>7. ReadEMHeader(d) = NextIntBehind(w, k)
    BY <1>5, <1>8, <1>11, <2>4, <2>5 DEF EMHeaderBehind
  <2> HIDE DEF k
  <2>8. ReadEMHeader(d) = Got(k.d, <<m, lc, id, size>>)
    BY <1>5, <1>6, <2>6, <2>7 DEF NextIntBehind, ReadsBack
  <2> QED
    BY <1>11, <2>6, <2>8 DEF ReadsBack, Got, d, f, lc
<1> QED
  BY <1>10, <1>11
=============================================================================
