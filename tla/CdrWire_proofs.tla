---------------------------- MODULE CdrWire_proofs ----------------------------
(***************************************************************************)
(* Proofs about CdrWire: whatever a writer writes, in whatever order and   *)
(* with whatever nesting of DHEADERs, the reader that makes the matching   *)
(* calls gets it back, as far as the payload arrived.                      *)
(***************************************************************************)
EXTENDS CdrWire, CdrOps_proofs

Calls == {"scalar", "bool", "string", "member", "dheader", "raw"}

\* What a script records of a call.
Items == [call : Calls, v : Seq(Nat)]

WellFormed(item) ==
  /\ item \in Items
  /\ item.call \in {"scalar", "dheader"} =>
       item.v \in Seq(Byte) /\ Len(item.v) \in {1, 2, 4, 8}
  /\ item.call = "dheader" => Len(item.v) = 4

\* The reader's call for an item, and the value it yields.
ReadOf(item, d) ==
  CASE item.call = "scalar" -> ReadScalar(d, Len(item.v))
    [] item.call = "bool" -> ReadBool(d)
    [] item.call = "string" -> ReadString(d)
    [] item.call = "member" -> ReadEMHeader(d)
    [] item.call = "dheader" -> ReadDHeader(d)
    [] item.call = "raw" -> Skip(d, Len(item.v))
ValueOf(item, r) == IF item.call = "raw" THEN item.v ELSE r.v

\* A decoder of all bytes of e that stands at p.
DecoderAt(e, p) == [data |-> e.buf, pos |-> p, order |-> e.order]

\* The bytes of e from p on hold the item, up to q.
Holds(e, item, p, q) ==
  LET r == ReadOf(item, DecoderAt(e, p))
  IN  r.ok /\ ValueOf(item, r) = item.v /\ r.d.pos = q

\* The items of s lie one behind the other in e: the i-th from p[i] to p[i + 1].
Laid(p, s, e) ==
  /\ p \in Seq(Nat) /\ Len(p) = Len(s) + 1
  /\ p[Len(s) + 1] = e.pos
  /\ \A i, j \in 1 .. Len(p) : i <= j => p[i] <= p[j]
  /\ \A i \in 1 .. Len(s) : Holds(e, s[i], p[i], p[i + 1])

\* Where the header of a body that begins at p is.
HeaderAt(p) == p + Pad(p, 4)

\* The body b is that of the header at p that holds v.
BodyOf(b, p, v) == b.start = HeaderAt(p) /\ v = Word(b.end - b.start - 4)

\* Each open header is an item of s, and each header in s is open or has a body.
Headed(p, s, o, k, bs) ==
  /\ Len(k) = Len(o)
  /\ \A j \in 1 .. Len(o) :
       /\ k[j] \in 1 .. Len(s)
       /\ s[k[j]].call = "dheader"
       /\ o[j] = HeaderAt(p[k[j]])
  /\ \A i \in 1 .. Len(s) : s[i].call = "dheader" =>
       \/ \E j \in 1 .. Len(k) : k[j] = i
       \/ \E b \in bs : BodyOf(b, p[i], s[i].v)

\* Where the first value begins, and what tells NewDecoder the byte order.
Start == IF framed THEN 4 ELSE 0
HeaderWritten ==
  framed => /\ Len(enc.buf) >= 4
            /\ enc.buf[1] = 0
            /\ enc.buf[2] \in EncapsulationKinds
            /\ enc.order = ByteOrder(enc.buf[2])

WriterTypeOK ==
  /\ enc \in Encoders /\ enc.pos = Len(enc.buf)
  /\ open \in Seq(Nat) /\ slots \in Seq(Nat)
  /\ script \in Seq(Items)
  /\ \A i \in 1 .. Len(script) : WellFormed(script[i])
  /\ framed \in BOOLEAN
  /\ phase \in {"write", "read", "failed"}

\* What the reader has in hand is a prefix of what the writer wrote.
Prefix ==
  /\ dec \in Decoders
  /\ Len(dec.data) <= Len(enc.buf)
  /\ \A i \in 1 .. Len(dec.data) : dec.data[i] = enc.buf[i]

ReaderInv(p) ==
  /\ Prefix
  /\ got \in Seq(Seq(Nat))
  /\ phase = "write" => got = <<>> /\ dec.data = <<>>
  /\ phase # "write" => open = <<>>
  /\ phase = "read" =>
       /\ Len(got) <= Len(script)
       /\ dec.order = enc.order
       /\ dec.pos = p[Len(got) + 1]
       /\ dec.pos <= Len(dec.data)
  /\ phase = "failed" => ~Whole

WireInv(p) ==
  /\ WriterTypeOK
  /\ HeaderWritten
  /\ p[1] = Start
  /\ Laid(p, script, enc)
  /\ Headed(p, script, open, slots, bodies)
  /\ ReaderInv(p)

\* The inductive invariant: the calls have left a layout of the buffer.
Inv == \E p \in Seq(Nat) : WireInv(p)

-----------------------------------------------------------------------------
(***************************************************************************)
(* CdrEncoder and CdrDecoder bring the methods under their own names       *)
(***************************************************************************)
LEMMA WriterScalar ==
  ASSUME NEW e, NEW w
  PROVE  W!WriteScalar(e, w) = WriteScalar(e, w)
  BY Zenon DEF W!WriteScalar, W!WriteRaw, W!EncAlign, W!Advance, W!Put, W!Swap,
       W!Zeros, W!Pad, W!Cap, W!BE,
       WriteScalar, WriteRaw, EncAlign, Advance, Put, Swap, Zeros, Pad, Cap, BE

LEMMA WriterWord ==
  ASSUME NEW n
  PROVE  W!Word(n) = Word(n)
  BY SMT DEF W!Word, Word

LEMMA WriterRaw ==
  ASSUME NEW e, NEW bytes
  PROVE  W!WriteRaw(e, bytes) = WriteRaw(e, bytes)
  BY Zenon DEF W!WriteRaw, WriteRaw, W!Advance, Advance

LEMMA WriterBool ==
  ASSUME NEW e, NEW b
  PROVE  W!WriteBool(e, b) = WriteBool(e, b)
  BY WriterRaw, Zenon DEF W!WriteBool, WriteBool

LEMMA WriterString ==
  ASSUME NEW e, NEW s
  PROVE  W!WriteString(e, s) = WriteString(e, s)
  BY WriterScalar, WriterWord, Zenon DEF W!WriteString, WriteString, W!Advance, Advance

LEMMA WriterEMHeader ==
  ASSUME NEW e, NEW m, NEW id, NEW size
  PROVE  W!WriteEMHeader(e, m, id, size) = WriteEMHeader(e, m, id, size)
<1>1. W!LengthCode(size) = LengthCode(size)
  BY Zenon DEF W!LengthCode, LengthCode, W!CompactSizes, CompactSizes
<1>2. ASSUME NEW lc
      PROVE  W!EMWord(m, lc, id) = EMWord(m, lc, id)
  BY WriterWord, SMT DEF W!EMWord, EMWord, W!MaxMemberID, MaxMemberID
<1> QED
  BY <1>1, <1>2, WriterScalar, WriterWord, Zenon DEF W!WriteEMHeader, WriteEMHeader

LEMMA WriterBegin ==
  ASSUME NEW e
  PROVE  /\ W!BeginDHeader(e) = WriteScalar(e, Word(0))
         /\ W!DHeaderStart(e) = HeaderAt(e.pos)
  BY WriterScalar, WriterWord, Zenon
     DEF W!BeginDHeader, W!DHeaderStart, HeaderAt, W!Pad, W!Cap, Pad, Cap

LEMMA WriterFinish ==
  ASSUME NEW e, NEW start
  PROVE  W!FinishDHeader(e, start) = FinishDHeader(e, start)
<1>1. ASSUME NEW order, NEW w
      PROVE  W!Put(order, w) = Put(order, w)
  BY Zenon DEF W!Put, W!Swap, W!BE, Put, Swap, BE
<1>2. ASSUME NEW buf, NEW bytes
      PROVE  W!Patch(buf, start, bytes) = Patch(buf, start, bytes)
  BY Zenon DEF W!Patch, Patch
<1> QED
  BY <1>1, <1>2, WriterWord, Zenon DEF W!FinishDHeader, W!Patched, FinishDHeader, Patched

LEMMA ReaderScalar ==
  ASSUME NEW d, NEW n
  PROVE  R!ReadScalar(d, n) = ReadScalar(d, n)
  BY Zenon DEF R!ReadScalar, R!DecAlign, R!Past, R!CheckRemaining, R!Get, R!Swap,
       R!Slice, R!Got, R!Failed, R!Pad, R!Cap, R!BE,
       ReadScalar, DecAlign, Past, CheckRemaining, Get, Swap,
       Slice, Got, Failed, Pad, Cap, BE

LEMMA ReaderNum ==
  ASSUME NEW w
  PROVE  R!Num(w) = Num(w)
  BY SMT DEF R!Num, Num

LEMMA ReaderBool ==
  ASSUME NEW d
  PROVE  R!ReadBool(d) = ReadBool(d)
  BY ReaderScalar, Zenon DEF R!ReadBool, ReadBool, R!Got, Got

LEMMA ReaderString ==
  ASSUME NEW d
  PROVE  R!ReadString(d) = ReadString(d)
  BY ReaderScalar, ReaderNum, Zenon
     DEF R!ReadString, R!StringBehind, R!Past, R!CheckRemaining, R!Slice, R!Got,
         R!Failed, ReadString, StringBehind, Past, CheckRemaining, Slice, Got, Failed

LEMMA ReaderEMHeader ==
  ASSUME NEW d
  PROVE  R!ReadEMHeader(d) = ReadEMHeader(d)
  BY ReaderScalar, ReaderNum, Zenon
     DEF R!ReadEMHeader, R!EMHeaderBehind, R!NextIntBehind, R!EMHeader, R!Got,
         ReadEMHeader, EMHeaderBehind, NextIntBehind, EMHeader, Got

LEMMA ReaderSkip ==
  ASSUME NEW d, NEW n
  PROVE  R!Skip(d, n) = Skip(d, n)
  BY Zenon DEF R!Skip, R!CheckRemaining, R!Past, R!Got, R!Failed,
       Skip, CheckRemaining, Past, Got, Failed

\* The reader's action for an item is ReadOf.
LEMMA MatchingReads ==
  ASSUME NEW item \in Items, Matching(item)
  PROVE  LET r == ReadOf(item, dec)
         IN  /\ dec' = r.d
             /\ ret'.ok = r.ok
             /\ item.call # "raw" => ret'.v = r.v
<1>1. CASE item.call = "scalar" /\ R!ReturnScalar(Len(item.v))
  <2>1. ReadOf(item, dec) = ReadScalar(dec, Len(item.v))
    BY <1>1 DEF ReadOf
  <2> QED
    BY <1>1, <2>1, ReaderScalar DEF R!ReturnScalar, R!Return
<1>2. CASE item.call = "bool" /\ R!ReturnBool
  <2>1. ReadOf(item, dec) = ReadBool(dec)
    BY <1>2 DEF ReadOf
  <2> QED
    BY <1>2, <2>1, ReaderBool DEF R!ReturnBool, R!Return
<1>3. CASE item.call = "string" /\ R!ReturnString
  <2>1. ReadOf(item, dec) = ReadString(dec)
    BY <1>3 DEF ReadOf
  <2> QED
    BY <1>3, <2>1, ReaderString DEF R!ReturnString, R!Return
<1>4. CASE item.call = "member" /\ R!ReturnMemberHeader
  <2>1. ReadOf(item, dec) = ReadEMHeader(dec)
    BY <1>4 DEF ReadOf
  <2> QED
    BY <1>4, <2>1, ReaderEMHeader DEF R!ReturnMemberHeader, R!Return
<1>5. CASE item.call = "dheader" /\ R!ReturnDHeader
  <2>1. ReadOf(item, dec) = ReadScalar(dec, 4)
    BY <1>5 DEF ReadOf, ReadDHeader
  <2> QED
    BY <1>5, <2>1, ReaderScalar DEF R!ReturnDHeader, R!Return, R!ReadDHeader
<1>6. CASE item.call = "raw" /\ R!SkipBytes(Len(item.v))
  <2>1. ReadOf(item, dec) = Skip(dec, Len(item.v))
    BY <1>6 DEF ReadOf
  <2> QED
    BY <1>6, <2>1, ReaderSkip DEF R!SkipBytes
<1> QED
  BY <1>1, <1>2, <1>3, <1>4, <1>5, <1>6 DEF Matching

-----------------------------------------------------------------------------
(***************************************************************************)
(* Reading an item                                                         *)
(***************************************************************************)
LEMMA CallsAre ==
  ASSUME NEW item \in Items, NEW d
  PROVE  \/ item.call = "scalar" /\ ReadOf(item, d) = ReadScalar(d, Len(item.v))
         \/ item.call = "bool" /\ ReadOf(item, d) = ReadBool(d)
         \/ item.call = "string" /\ ReadOf(item, d) = ReadString(d)
         \/ item.call = "member" /\ ReadOf(item, d) = ReadEMHeader(d)
         \/ item.call = "dheader" /\ ReadOf(item, d) = ReadScalar(d, 4)
         \/ item.call = "raw" /\ ReadOf(item, d) = Skip(d, Len(item.v))
  BY DEF Items, Calls, ReadOf, ReadDHeader

\* A read that succeeds moves the cursor on and stays inside the data.
LEMMA ItemReads ==
  ASSUME NEW d \in Decoders, d.pos <= Len(d.data), NEW item, WellFormed(item)
  PROVE  LET r == ReadOf(item, d)
         IN  /\ r.d \in Decoders /\ r.d.data = d.data /\ r.d.order = d.order
             /\ r.ok \in BOOLEAN
             /\ r.ok => r.d.pos >= d.pos /\ r.d.pos <= Len(d.data)
<1>1. d.data \in Seq(Byte) /\ d.pos \in Nat
  BY DEF Decoders
<1>2. d.pos <= Bound(d.data)
  <2>1. Bound(d.data) \in Nat /\ Bound(d.data) >= Len(d.data)
    BY <1>1, BoundIsAligned
  <2> QED
    BY <1>1, <2>1
<1>3. item \in Items /\ item.v \in Seq(Nat) /\ Len(item.v) \in Nat
  BY DEF WellFormed, Items
<1> DEFINE r == ReadOf(item, d)
<1>4. CASE item.call = "scalar" /\ r = ReadScalar(d, Len(item.v))
  <2>1. Len(item.v) \in {1, 2, 4, 8}
    BY <1>4 DEF WellFormed
  <2> HIDE DEF r
  <2>2. Reads(d, r)
    BY <1>2, <1>4, <2>1, ScalarReads
  <2> QED
    BY <2>2 DEF Reads, r
<1>5. CASE item.call = "bool" /\ r = ReadBool(d)
  BY <1>2, <1>5, BoolReads DEF Reads
<1>6. CASE item.call = "string" /\ r = ReadString(d)
  BY <1>2, <1>6, StringReads DEF Reads
<1>7. CASE item.call = "member" /\ r = ReadEMHeader(d)
  BY <1>2, <1>7, EMHeaderReads DEF Reads
<1>8. CASE item.call = "dheader" /\ r = ReadScalar(d, 4)
  BY <1>2, <1>8, ScalarReads DEF Reads
<1>9. CASE item.call = "raw" /\ r = Skip(d, Len(item.v))
  BY <1>2, <1>3, <1>9, SkipStays
<1> HIDE DEF r
<1>10. \/ item.call = "scalar" /\ r = ReadScalar(d, Len(item.v))
       \/ item.call = "bool" /\ r = ReadBool(d)
       \/ item.call = "string" /\ r = ReadString(d)
       \/ item.call = "member" /\ r = ReadEMHeader(d)
       \/ item.call = "dheader" /\ r = ReadScalar(d, 4)
       \/ item.call = "raw" /\ r = Skip(d, Len(item.v))
  BY <1>3, CallsAre DEF r
<1> QED
  BY <1>4, <1>5, <1>6, <1>7, <1>8, <1>9, <1>10 DEF r

\* A read that succeeds goes the same way over the same bytes.
LEMMA ItemLocal ==
  ASSUME NEW d \in Decoders, NEW f, NEW item, WellFormed(item),
         ReadOf(item, d).ok, Agrees(d, f, ReadOf(item, d).d.pos)
  PROVE  SameRead(ReadOf(item, d), ReadOf(item, f))
<1>1. item \in Items /\ item.v \in Seq(Nat) /\ Len(item.v) \in Nat
  BY DEF WellFormed, Items
<1>2. CASE item.call = "scalar"
  <2>1. /\ ReadOf(item, d) = ReadScalar(d, Len(item.v))
        /\ ReadOf(item, f) = ReadScalar(f, Len(item.v))
    BY <1>2 DEF ReadOf
  <2>2. Len(item.v) \in {1, 2, 4, 8}
    BY <1>2 DEF WellFormed
  <2> QED
    BY <2>1, <2>2, ScalarLocal
<1>3. CASE item.call = "bool"
  BY <1>3, BoolLocal DEF ReadOf
<1>4. CASE item.call = "string"
  BY <1>4, StringLocal DEF ReadOf
<1>5. CASE item.call = "member"
  BY <1>5, EMHeaderLocal DEF ReadOf
<1>6. CASE item.call = "dheader"
  BY <1>6, ScalarLocal DEF ReadOf, ReadDHeader
<1>7. CASE item.call = "raw"
  BY <1>1, <1>7, SkipLocal DEF ReadOf
<1> QED
  BY <1>1, <1>2, <1>3, <1>4, <1>5, <1>6, <1>7 DEF Items, Calls

\* What e holds between p and q, f holds if it has the same bytes there.
LEMMA HoldsLocal ==
  ASSUME NEW e \in Encoders, NEW f \in Encoders, f.order = e.order,
         NEW item, WellFormed(item), NEW p \in Nat, NEW q \in Nat,
         Holds(e, item, p, q), q <= Len(f.buf),
         \A i \in p + 1 .. q : f.buf[i] = e.buf[i]
  PROVE  Holds(f, item, p, q)
<1> DEFINE d == DecoderAt(e, p)
           c == DecoderAt(f, p)
           r == ReadOf(item, d)
           s == ReadOf(item, c)
<1>1. d \in Decoders /\ d.pos = p /\ c \in Decoders
  BY DEF DecoderAt, Encoders, Decoders
<1>2. r.ok /\ ValueOf(item, r) = item.v /\ r.d.pos = q
  BY DEF Holds
<1>3. Agrees(d, c, q)
  BY <1>1 DEF Agrees, DecoderAt
<1> HIDE DEF d, c
<1>4. SameRead(r, s)
  BY <1>1, <1>2, <1>3, ItemLocal
<1> HIDE DEF r, s
<1>5. s.ok /\ ValueOf(item, s) = item.v /\ s.d.pos = q
  BY <1>2, <1>4 DEF SameRead, ValueOf
<1> QED
  BY <1>5 DEF Holds, s, c

-----------------------------------------------------------------------------
(***************************************************************************)
(* The layout                                                              *)
(***************************************************************************)
LEMMA BytesAreNumbers ==
  ASSUME NEW s \in Seq(Byte)
  PROVE  s \in Seq(Nat)
<1>1. s \in [1 .. Len(s) -> Byte] /\ Len(s) \in Nat
  OBVIOUS
<1>2. s \in [1 .. Len(s) -> Nat]
  <2> DEFINE n == Len(s)
  <2>1. s \in [1 .. n -> Byte]
    BY <1>1
  <2>2. \A x \in Byte : x \in Nat
    BY DEF Byte
  <2> HIDE DEF n
  <2>3. s \in [1 .. n -> Nat]
    BY ONLY <2>1, <2>2
  <2> QED
    BY <2>3 DEF n
<1> QED
  BY ONLY <1>1, <1>2

LEMMA RangeInside ==
  ASSUME NEW a \in Nat, NEW b \in Nat, NEW n \in Nat, b <= n, NEW x \in a + 1 .. b
  PROVE  x \in 1 .. n
  OBVIOUS

LEMMA RangeApart ==
  ASSUME NEW a \in Nat, NEW b \in Nat, NEW h \in Nat,
         b <= h \/ a >= h + 4, NEW x \in a + 1 .. b
  PROVE  x \notin h + 1 .. h + 4
  OBVIOUS

LEMMA AppendIs ==
  ASSUME NEW S, NEW s \in Seq(S), NEW x \in S
  PROVE  /\ Append(s, x) \in Seq(S)
         /\ Len(Append(s, x)) = Len(s) + 1
         /\ \A i \in 1 .. Len(s) : Append(s, x)[i] = s[i]
         /\ Append(s, x)[Len(s) + 1] = x
  OBVIOUS

\* The item of a write goes behind those that are there.
LEMMA AppendLaid ==
  ASSUME NEW e \in Encoders, e.pos = Len(e.buf), NEW f, Extends(e, f),
         NEW s \in Seq(Items), \A i \in 1 .. Len(s) : WellFormed(s[i]),
         NEW item, WellFormed(item), NEW p, Laid(p, s, e),
         Holds(f, item, e.pos, f.pos)
  PROVE  Laid(Append(p, f.pos), Append(s, item), f)
<1> DEFINE q == Append(p, f.pos)
           t == Append(s, item)
           n == Len(s)
<1>1. /\ f \in Encoders /\ f.order = e.order /\ f.pos = Len(f.buf)
      /\ f.pos \in Nat /\ e.pos \in Nat /\ e.pos <= f.pos
      /\ \A i \in 1 .. e.pos : f.buf[i] = e.buf[i]
  BY DEF Extends, Encoders
<1>2. /\ p \in Seq(Nat) /\ Len(p) = n + 1 /\ p[n + 1] = e.pos
      /\ \A i, j \in 1 .. n + 1 : i <= j => p[i] <= p[j]
      /\ \A i \in 1 .. n : Holds(e, s[i], p[i], p[i + 1])
      /\ n \in Nat
  BY DEF Laid
<1>3. /\ q \in Seq(Nat) /\ Len(q) = n + 2
      /\ \A i \in 1 .. n + 1 : q[i] = p[i] /\ q[i] \in Nat
      /\ q[n + 2] = f.pos
  BY <1>1, <1>2, AppendIs
<1>4. /\ Len(t) = n + 1
      /\ \A i \in 1 .. n : t[i] = s[i]
      /\ t[n + 1] = item
  <2>1. item \in Items
    BY DEF WellFormed
  <2> QED
    BY <2>1, AppendIs
<1> HIDE DEF q, t, n
<1>5. \A i \in 1 .. n + 1 : q[i] <= e.pos /\ q[i] <= f.pos
  <2> SUFFICES ASSUME NEW i \in 1 .. n + 1
               PROVE  q[i] <= e.pos /\ q[i] <= f.pos
    OBVIOUS
  <2>1. n + 1 \in 1 .. n + 1 /\ i <= n + 1
    BY <1>2
  <2>2. p[i] <= p[n + 1]
    BY <1>2, <2>1
  <2> QED
    BY <1>1, <1>2, <1>3, <2>2
<1>6. ASSUME NEW i \in 1 .. n + 2, NEW j \in 1 .. n + 2, i <= j
      PROVE  q[i] <= q[j]
  <2>1. CASE j \in 1 .. n + 1
    <3>1. i \in 1 .. n + 1
      BY <1>2, <1>6, <2>1
    <3> QED
      BY <1>2, <1>3, <1>6, <2>1, <3>1
  <2>2. CASE j = n + 2 /\ i \in 1 .. n + 1
    BY <1>3, <1>5, <2>2
  <2>3. CASE j = n + 2 /\ i = n + 2
    BY <1>1, <1>3, <2>3
  <2> QED
    BY <1>2, <1>6, <2>1, <2>2, <2>3
<1>7. ASSUME NEW i \in 1 .. n
      PROVE  Holds(f, t[i], q[i], q[i + 1])
  <2>1. i \in 1 .. n + 1 /\ i + 1 \in 1 .. n + 1
    BY <1>2
  <2>2. /\ q[i] = p[i] /\ q[i + 1] = p[i + 1] /\ t[i] = s[i]
        /\ p[i] \in Nat /\ p[i + 1] \in Nat
    BY <1>3, <1>4, <2>1
  <2>3. p[i + 1] <= e.pos
    BY <1>5, <2>1, <2>2
  <2>4. /\ p[i + 1] <= Len(f.buf)
        /\ \A x \in p[i] + 1 .. p[i + 1] : f.buf[x] = e.buf[x]
    <3>1. p[i + 1] <= Len(f.buf)
      BY <1>1, <2>2, <2>3
    <3>2. \A x \in p[i] + 1 .. p[i + 1] : x \in 1 .. e.pos
      BY <1>1, <2>2, <2>3, RangeInside
    <3> QED
      BY <1>1, <3>1, <3>2
  <2>5. WellFormed(s[i])
    BY DEF n
  <2>6. Holds(e, s[i], p[i], p[i + 1])
    BY <1>2
  <2>7. Holds(f, s[i], p[i], p[i + 1])
    BY <1>1, <2>2, <2>4, <2>5, <2>6, HoldsLocal
  <2> QED
    BY <2>2, <2>7
<1>8. Holds(f, t[n + 1], q[n + 1], q[n + 2])
  <2>1. n + 1 \in 1 .. n + 1
    BY <1>2
  <2> QED
    BY <1>2, <1>3, <1>4, <2>1
<1>9. \A i \in 1 .. n + 1 : Holds(f, t[i], q[i], q[i + 1])
  BY <1>2, <1>7, <1>8
<1>10. Len(t) + 1 = n + 2
  BY <1>2, <1>4
<1> QED
  BY <1>3, <1>4, <1>6, <1>9, <1>10 DEF Laid, q, t

\* The place of a header in e is the last four bytes of its item.
LEMMA HeaderPlace ==
  ASSUME NEW e \in Encoders, NEW item, item.call = "dheader",
         NEW p \in Nat, NEW q, Holds(e, item, p, q)
  PROVE  /\ HeaderAt(p) \in Nat /\ HeaderAt(p) >= p
         /\ q = HeaderAt(p) + 4 /\ q <= Len(e.buf)
<1> DEFINE d == DecoderAt(e, p)
           r == ReadScalar(d, 4)
<1>1. r.ok /\ r.d.pos = q
  BY DEF Holds, ReadOf, ReadDHeader
<1>2. d \in Decoders /\ d.pos = p /\ d.data = e.buf
  BY DEF DecoderAt, Encoders, Decoders
<1> HIDE DEF d
<1>3. /\ HeaderAt(p) \in Nat /\ HeaderAt(p) >= p
      /\ HeaderAt(p) + 4 <= Len(e.buf)
      /\ r.d = At(d, HeaderAt(p) + 4)
  BY <1>1, <1>2, ScalarFound DEF HeaderAt
<1> HIDE DEF r
<1>4. r.d.pos = HeaderAt(p) + 4
  BY <1>3 DEF At
<1> QED
  BY <1>1, <1>3, <1>4

\* A script whose k-th item got the value w.
WithValue(s, k, w) == [s EXCEPT ![k].v = w]

\* Finishing the header of the k-th item changes that item alone.
LEMMA FinishLaid ==
  ASSUME NEW e \in Encoders, e.pos = Len(e.buf),
         NEW s \in Seq(Items), \A i \in 1 .. Len(s) : WellFormed(s[i]),
         NEW p, Laid(p, s, e),
         NEW k \in 1 .. Len(s), s[k].call = "dheader",
         NEW h, h = HeaderAt(p[k]), NEW f, f = FinishDHeader(e, h),
         NEW t, t = WithValue(s, k, Word(e.pos - h - 4))
  PROVE  /\ Laid(p, t, f)
         /\ t \in Seq(Items) /\ Len(t) = Len(s)
         /\ \A i \in 1 .. Len(t) : WellFormed(t[i])
         /\ \A i \in 1 .. Len(t) : t[i].call = s[i].call
         /\ \A i \in 1 .. Len(t) : i # k => t[i] = s[i]
         /\ t[k].v = Word(e.pos - h - 4)
<1> DEFINE w == Word(e.pos - h - 4)
           n == Len(s)
<1>1. /\ p \in Seq(Nat) /\ Len(p) = n + 1 /\ p[n + 1] = e.pos
      /\ \A i, j \in 1 .. n + 1 : i <= j => p[i] <= p[j]
      /\ \A i \in 1 .. n : Holds(e, s[i], p[i], p[i + 1])
      /\ n \in Nat /\ k \in 1 .. n
      /\ e.pos \in Nat /\ e.buf \in Seq(Byte)
  BY DEF Laid, Encoders
<1> HIDE DEF n
<1>2. \A i \in 1 .. n + 1 : p[i] \in Nat
  <2>1. p \in Seq(Nat) /\ Len(p) = n + 1
    BY <1>1
  <2> QED
    BY ONLY <2>1
<1>3. /\ h \in Nat /\ h >= p[k] /\ p[k + 1] = h + 4 /\ h + 4 <= Len(e.buf)
  <2>1. k \in 1 .. n + 1
    BY ONLY <1>1
  <2>0. Holds(e, s[k], p[k], p[k + 1])
    BY <1>1, Zenon
  <2>2. p[k] \in Nat
    BY <1>2, <2>1
  <2> QED
    BY <2>0, <2>2, HeaderPlace
<1>4. /\ f \in Encoders /\ f.order = e.order /\ f.pos = e.pos
      /\ Len(f.buf) = Len(e.buf)
      /\ \A i \in 1 .. Len(e.buf) : i \notin h + 1 .. h + 4 => f.buf[i] = e.buf[i]
      /\ Get(f.order, Slice(f.buf, h, h + 4)) = w
  BY <1>3, FinishPatches
<1>5. w \in Seq(Byte) /\ Len(w) = 4
  <2>0. e.pos \in Nat /\ h \in Nat
    BY <1>1, <1>3
  <2>1. e.pos - h - 4 \in Int
    BY ONLY <2>0
  <2> QED
    BY <2>1, WordType
<1> HIDE DEF w
<1>6. /\ Len(t) = n
      /\ \A i \in 1 .. n : i # k => t[i] = s[i]
      /\ t[k] = [s[k] EXCEPT !.v = w]
  <2>1. t = [s EXCEPT ![k].v = w]
    BY DEF w, WithValue
  <2> QED
    BY ONLY s \in Seq(Items), k \in 1 .. Len(s), <2>1 DEF n
<1>7. /\ t[k] \in Items /\ t[k].call = "dheader" /\ t[k].v = w
      /\ WellFormed(t[k])
  <2>1. s[k] \in Items
    OBVIOUS
  <2>2. w \in Seq(Nat)
    BY <1>5, BytesAreNumbers
  <2>3. t[k] = [call |-> "dheader", v |-> w]
    BY <1>6, <2>1 DEF Items
  <2>4. t[k] \in Items /\ t[k].call = "dheader" /\ t[k].v = w
    BY <2>2, <2>3 DEF Items, Calls
  <2> QED
    BY <1>5, <2>4 DEF WellFormed
<1>8. t \in Seq(Items)
  <2> DEFINE x == [s[k] EXCEPT !.v = w]
  <2>1. t = [s EXCEPT ![k] = x] /\ x \in Items
    BY <1>6, <1>7 DEF w, WithValue
  <2>2. s \in [1 .. n -> Items]
    BY ONLY s \in Seq(Items) DEF n
  <2> HIDE DEF x
  <2>3. t \in [1 .. n -> Items]
    BY ONLY <2>1, <2>2
  <2> QED
    BY ONLY <1>1, <2>3
<1>9. ASSUME NEW i \in 1 .. n, i # k
      PROVE  Holds(f, t[i], p[i], p[i + 1])
  <2>1. /\ i \in 1 .. n + 1 /\ i + 1 \in 1 .. n + 1
        /\ k \in 1 .. n + 1 /\ k + 1 \in 1 .. n + 1
        /\ n + 1 \in 1 .. n + 1 /\ i + 1 <= n + 1
    <3>1. n \in Nat /\ k \in 1 .. n
      BY <1>1
    <3> QED
      BY ONLY <3>1, i \in 1 .. n
  <2>2. p[i] \in Nat /\ p[i + 1] \in Nat /\ p[k] \in Nat /\ p[k + 1] \in Nat
    BY <1>2, <2>1
  <2>3. p[i + 1] <= Len(f.buf)
    BY <1>1, <1>4, <2>1
  <2>4. p[i + 1] <= h \/ p[i] >= h + 4
    <3>1. CASE i + 1 <= k
      <4>1. p[i + 1] <= p[k]
        BY <1>1, <2>1, <3>1
      <4> QED
        BY ONLY <1>3, <2>2, <4>1
    <3>2. CASE k + 1 <= i
      <4>1. p[k + 1] <= p[i]
        BY <1>1, <2>1, <3>2
      <4> QED
        BY ONLY <1>3, <2>2, <4>1
    <3>3. i + 1 <= k \/ k + 1 <= i
      <4>1. n \in Nat /\ k \in 1 .. n
        BY <1>1
      <4> QED
        BY ONLY <4>1, i \in 1 .. n, i # k
    <3> QED
      BY <3>1, <3>2, <3>3
  <2>5. \A x \in p[i] + 1 .. p[i + 1] : f.buf[x] = e.buf[x]
    <3> SUFFICES ASSUME NEW x \in p[i] + 1 .. p[i + 1]
                 PROVE  f.buf[x] = e.buf[x]
      OBVIOUS
    <3>1. x \in 1 .. Len(e.buf)
      <4>1. Len(e.buf) \in Nat /\ Len(f.buf) = Len(e.buf)
        BY <1>1, <1>4
      <4> QED
        BY <2>2, <2>3, <4>1, RangeInside
    <3>2. x \notin h + 1 .. h + 4
      BY <1>3, <2>2, <2>4, RangeApart
    <3> QED
      BY <1>4, <3>1, <3>2
  <2>6. WellFormed(s[i]) /\ Holds(e, s[i], p[i], p[i + 1])
    BY <1>1 DEF n
  <2>7. Holds(f, s[i], p[i], p[i + 1])
    BY <1>4, <2>2, <2>3, <2>5, <2>6, HoldsLocal
  <2> QED
    BY <1>6, <1>9, <2>7
<1>10. Holds(f, t[k], p[k], p[k + 1])
  <2> DEFINE d == DecoderAt(f, p[k])
             r == ReadScalar(d, 4)
  <2>1. p[k] \in Nat
    BY <1>1, <1>2
  <2>2. d \in Decoders /\ d.data = f.buf /\ d.pos = p[k] /\ d.order = f.order
    BY <1>4, <2>1 DEF DecoderAt, Encoders, Decoders
  <2> HIDE DEF d
  <2>3. /\ r.ok <=> h + 4 <= Len(f.buf)
        /\ r.ok => r.d = At(d, h + 4) /\ r.v = Get(f.order, Slice(f.buf, h, h + 4))
    BY <2>2, ScalarFound DEF HeaderAt
  <2> HIDE DEF r
  <2>4. r.ok /\ r.v = w /\ r.d.pos = h + 4
    BY <1>3, <1>4, <2>3 DEF At
  <2>5. ReadOf(t[k], d) = r
    BY <1>7 DEF ReadOf, ReadDHeader, r
  <2>6. ValueOf(t[k], r) = t[k].v
    BY <1>7, <2>4 DEF ValueOf
  <2> QED
    BY <1>3, <2>4, <2>5, <2>6 DEF Holds, d
<1>11. Laid(p, t, f)
  BY <1>1, <1>4, <1>6, <1>9, <1>10 DEF Laid
<1>12. \A i \in 1 .. n : WellFormed(t[i]) /\ t[i].call = s[i].call
  BY <1>6, <1>7 DEF n
<1> QED
  BY <1>6, <1>7, <1>8, <1>11, <1>12 DEF w, n

\* A call that begins no body leaves the headers as they are.
LEMMA AppendHeaded ==
  ASSUME NEW p \in Seq(Nat), NEW s \in Seq(Items), Len(p) = Len(s) + 1,
         NEW x \in Nat, NEW item \in Items, item.call # "dheader",
         NEW o \in Seq(Nat), NEW k \in Seq(Nat), NEW bs, Headed(p, s, o, k, bs)
  PROVE  Headed(Append(p, x), Append(s, item), o, k, bs)
<1> DEFINE q == Append(p, x)
           t == Append(s, item)
           n == Len(s)
<1>1. /\ Len(t) = n + 1 /\ n \in Nat
      /\ \A i \in 1 .. n : t[i] = s[i] /\ q[i] = p[i]
      /\ t[n + 1] = item
  BY AppendIs
<1>2. /\ Len(k) = Len(o)
      /\ \A j \in 1 .. Len(o) : k[j] \in 1 .. n
      /\ \A j \in 1 .. Len(o) : s[k[j]].call = "dheader" /\ o[j] = HeaderAt(p[k[j]])
      /\ \A i \in 1 .. n : s[i].call = "dheader" =>
           \/ \E j \in 1 .. Len(k) : k[j] = i
           \/ \E b \in bs : BodyOf(b, p[i], s[i].v)
  BY DEF Headed
<1> HIDE DEF q, t, n
<1>3. \A j \in 1 .. Len(o) :
        /\ k[j] \in 1 .. n + 1
        /\ t[k[j]].call = "dheader"
        /\ o[j] = HeaderAt(q[k[j]])
  <2>1. \A j \in 1 .. n : j \in 1 .. n + 1
    BY <1>1
  <2> QED
    BY <1>1, <1>2, <2>1, Zenon
<1>4. ASSUME NEW i \in 1 .. n + 1, t[i].call = "dheader"
      PROVE  \/ \E j \in 1 .. Len(k) : k[j] = i
             \/ \E b \in bs : BodyOf(b, q[i], t[i].v)
  <2>1. i # n + 1
    BY <1>1, <1>4, Zenon
  <2>2. n \in Nat
    BY <1>1
  <2>3. i \in 1 .. n
    BY ONLY <2>1, <2>2, i \in 1 .. n + 1
  <2> QED
    BY <1>1, <1>2, <1>4, <2>3, Zenon
<1> QED
  BY <1>1, <1>2, <1>3, <1>4 DEF Headed, q, t

\* A body that begins adds its header to the open ones.
LEMMA BeginHeaded ==
  ASSUME NEW p \in Seq(Nat), NEW s \in Seq(Items), Len(p) = Len(s) + 1,
         NEW x \in Nat, NEW item \in Items, item.call = "dheader",
         NEW o \in Seq(Nat), NEW k \in Seq(Nat), NEW bs, Headed(p, s, o, k, bs),
         NEW h \in Nat, h = HeaderAt(p[Len(s) + 1])
  PROVE  Headed(Append(p, x), Append(s, item), Append(o, h), Append(k, Len(s) + 1), bs)
<1> DEFINE q == Append(p, x)
           t == Append(s, item)
           n == Len(s)
           m == Len(o)
           oo == Append(o, h)
           kk == Append(k, n + 1)
<1>1. /\ Len(t) = n + 1 /\ n \in Nat
      /\ \A i \in 1 .. n : t[i] = s[i]
      /\ \A i \in 1 .. n + 1 : q[i] = p[i]
      /\ t[n + 1] = item
  BY AppendIs
<1>2. /\ Len(k) = m /\ m \in Nat
      /\ \A j \in 1 .. m : k[j] \in 1 .. n
      /\ \A j \in 1 .. m : s[k[j]].call = "dheader" /\ o[j] = HeaderAt(p[k[j]])
      /\ \A i \in 1 .. n : s[i].call = "dheader" =>
           \/ \E j \in 1 .. m : k[j] = i
           \/ \E b \in bs : BodyOf(b, p[i], s[i].v)
  BY DEF Headed
<1>3. /\ Len(oo) = m + 1 /\ Len(kk) = m + 1
      /\ \A j \in 1 .. m : oo[j] = o[j] /\ kk[j] = k[j]
      /\ oo[m + 1] = h /\ kk[m + 1] = n + 1
  <2>1. n + 1 \in Nat /\ Len(k) = m
    BY <1>1, <1>2
  <2> QED
    BY <2>1, AppendIs
<1>4. h = HeaderAt(p[n + 1])
  OBVIOUS
<1> HIDE DEF q, t, n, oo, kk, m
<1>5. ASSUME NEW j \in 1 .. m + 1
      PROVE  /\ kk[j] \in 1 .. n + 1
             /\ t[kk[j]].call = "dheader"
             /\ oo[j] = HeaderAt(q[kk[j]])
  <2>1. CASE j \in 1 .. m
    <3>1. k[j] \in 1 .. n /\ kk[j] = k[j] /\ oo[j] = o[j]
      BY <1>2, <1>3, <2>1
    <3>2. k[j] \in 1 .. n + 1
      <4>1. \A i \in 1 .. n : i \in 1 .. n + 1
        BY <1>1
      <4> QED
        BY <3>1, <4>1, Zenon
    <3> QED
      BY <1>1, <1>2, <2>1, <3>1, <3>2
  <2>2. CASE j = m + 1
    <3>1. n + 1 \in 1 .. n + 1
      BY <1>1
    <3> QED
      BY <1>1, <1>3, <1>4, <2>2, <3>1
  <2> QED
    BY <1>2, <2>1, <2>2
<1>6. ASSUME NEW i \in 1 .. n + 1, t[i].call = "dheader"
      PROVE  \/ \E j \in 1 .. m + 1 : kk[j] = i
             \/ \E b \in bs : BodyOf(b, q[i], t[i].v)
  <2>1. CASE i = n + 1
    <3>1. m + 1 \in 1 .. m + 1
      BY <1>2
    <3> QED
      BY <1>3, <2>1, <3>1
  <2>2. CASE i \in 1 .. n
    <3>1. t[i] = s[i] /\ q[i] = p[i]
      BY <1>1, <2>2
    <3>2. CASE \E j \in 1 .. m : k[j] = i
      <4>1. PICK j \in 1 .. m : k[j] = i
        BY <3>2
      <4>2. j \in 1 .. m + 1 /\ kk[j] = i
        BY <1>2, <1>3, <4>1
      <4> QED
        BY <4>2
    <3>3. CASE \E b \in bs : BodyOf(b, p[i], s[i].v)
      BY <3>1, <3>3
    <3> QED
      BY <1>2, <1>6, <2>2, <3>1, <3>2, <3>3
  <2> QED
    BY <1>1, <2>1, <2>2
<1> QED
  BY <1>1, <1>3, <1>5, <1>6 DEF Headed, q, t, oo, kk, n

\* The innermost body that ends gets the size its header holds.
LEMMA FinishHeaded ==
  ASSUME NEW p, NEW s \in Seq(Items), NEW t, Len(t) = Len(s),
         NEW o \in Seq(Nat), NEW k \in Seq(Nat), o # <<>>,
         NEW bs, Headed(p, s, o, k, bs),
         \A i \in 1 .. Len(t) : t[i].call = s[i].call,
         \A i \in 1 .. Len(t) : i # k[Len(k)] => t[i] = s[i],
         NEW end, t[k[Len(k)]].v = Word(end - o[Len(o)] - 4)
  PROVE  Headed(p, t, SubSeq(o, 1, Len(o) - 1), SubSeq(k, 1, Len(k) - 1),
                bs \cup {[start |-> o[Len(o)], end |-> end]})
<1> DEFINE n == Len(s)
           m == Len(o)
           oo == SubSeq(o, 1, Len(o) - 1)
           kk == SubSeq(k, 1, Len(k) - 1)
           last == [start |-> o[Len(o)], end |-> end]
           l == k[m]
<1>1. /\ Len(k) = m /\ m \in Nat /\ m > 0 /\ Len(t) = n
      /\ \A j \in 1 .. m : k[j] \in 1 .. n
      /\ \A j \in 1 .. m : s[k[j]].call = "dheader" /\ o[j] = HeaderAt(p[k[j]])
      /\ \A i \in 1 .. n : s[i].call = "dheader" =>
           \/ \E j \in 1 .. m : k[j] = i
           \/ \E b \in bs : BodyOf(b, p[i], s[i].v)
  <2>1. m \in Nat /\ m > 0
    OBVIOUS
  <2> HIDE DEF n, m
  <2> QED
    BY <2>1, Zenon DEF Headed, n, m
<1>2. /\ Len(oo) = m - 1 /\ Len(kk) = m - 1
      /\ \A j \in 1 .. m - 1 : oo[j] = o[j] /\ kk[j] = k[j]
  <2>1. k # <<>> /\ Len(k) = m
    BY <1>1
  <2> QED
    BY <2>1, FrontType
<1>3. /\ \A i \in 1 .. n : t[i].call = s[i].call
      /\ \A i \in 1 .. n : i # l => t[i] = s[i]
      /\ t[l].v = Word(end - o[m] - 4)
  BY <1>1
<1>4. m \in 1 .. m /\ l \in 1 .. n /\ o[m] = HeaderAt(p[l])
  <2>1. m \in 1 .. m
    BY <1>1
  <2> QED
    BY <1>1, <2>1
<1>5. last.start = o[m] /\ last.end = end
  OBVIOUS
<1> HIDE DEF n, oo, kk, last
<1>6. ASSUME NEW j \in 1 .. m - 1
      PROVE  /\ kk[j] \in 1 .. n
             /\ t[kk[j]].call = "dheader"
             /\ oo[j] = HeaderAt(p[kk[j]])
  <2>1. j \in 1 .. m
    BY <1>1
  <2>2. kk[j] = k[j] /\ oo[j] = o[j]
    BY <1>2, Zenon
  <2> QED
    BY <1>1, <1>3, <2>1, <2>2, Zenon
<1>7. BodyOf(last, p[l], t[l].v)
  BY <1>3, <1>4, <1>5 DEF BodyOf
<1> HIDE DEF l
<1>8. ASSUME NEW i \in 1 .. n, t[i].call = "dheader"
      PROVE  \/ \E j \in 1 .. m - 1 : kk[j] = i
             \/ \E b \in bs \cup {last} : BodyOf(b, p[i], t[i].v)
  <2>1. CASE i = l
    BY <1>7, <2>1
  <2>2. CASE i # l
    <3>1. t[i] = s[i]
      BY <1>3, <2>2
    <3>2. CASE \E j \in 1 .. m : k[j] = i
      <4>1. PICK j \in 1 .. m : k[j] = i
        BY <3>2
      <4>2. j # m
        BY <2>2, <4>1 DEF l
      <4>3. j \in 1 .. m - 1
        <5>1. m \in Nat
          BY <1>1
        <5> QED
          BY ONLY <4>1, <4>2, <5>1
      <4>4. kk[j] = i
        BY <1>2, <4>1, <4>3, Zenon
      <4> QED
        BY <4>3, <4>4
    <3>3. CASE \E b \in bs : BodyOf(b, p[i], s[i].v)
      BY <3>1, <3>3, Zenon
    <3> QED
      BY <1>1, <1>8, <3>1, <3>2, <3>3, Zenon
  <2> QED
    BY <2>1, <2>2
<1>9. Headed(p, t, oo, kk, bs \cup {last})
  BY <1>1, <1>2, <1>6, <1>8 DEF Headed
<1> QED
  BY <1>9 DEF oo, kk, last

-----------------------------------------------------------------------------
(***************************************************************************)
(* Every call of the writer records what its bytes hold                    *)
(***************************************************************************)

\* A call that takes e to f and is recorded as item.
Written(e, f, item) ==
  Extends(e, f) /\ WellFormed(item) /\ Holds(f, item, e.pos, f.pos)

LEMMA ReadBackIsWritten ==
  ASSUME NEW e \in Encoders, NEW f, Extends(e, f), NEW item, WellFormed(item),
         NEW v, ReadsBack(ReadOf(item, Behind(e, f)), v, f),
         item.call = "raw" \/ item.v = v
  PROVE  Written(e, f, item)
<1>1. DecoderAt(f, e.pos) = Behind(e, f)
  BY DEF DecoderAt, Behind, Extends
<1>2. Holds(f, item, e.pos, f.pos)
  BY <1>1 DEF Holds, ValueOf, ReadsBack
<1> QED
  BY <1>2 DEF Written

LEMMA ScalarWritten ==
  ASSUME NEW e \in Encoders, e.pos = Len(e.buf),
         NEW w \in Seq(Byte), Len(w) \in {1, 2, 4, 8}
  PROVE  Written(e, WriteScalar(e, w), [call |-> "scalar", v |-> w])
<1> DEFINE f == WriteScalar(e, w)
           item == [call |-> "scalar", v |-> w]
<1>1. Extends(e, f)
  <2>1. Len(w) > 0
    <3> DEFINE n == Len(w)
    <3>1. n \in {1, 2, 4, 8}
      OBVIOUS
    <3> HIDE DEF n
    <3>2. n > 0
      BY <3>1
    <3> QED
      BY <3>2 DEF n
  <2> QED
    BY <2>1, ScalarExtends
<1>2. ReadsBack(ReadScalar(Behind(e, f), Len(w)), w, f)
  BY ScalarReadsBack
<1> HIDE DEF f
<1>3. WellFormed(item)
  BY BytesAreNumbers DEF WellFormed, Items, Calls
<1>4. ReadOf(item, Behind(e, f)) = ReadScalar(Behind(e, f), Len(w))
  BY DEF ReadOf
<1> QED
  BY <1>1, <1>2, <1>3, <1>4, ReadBackIsWritten DEF f

LEMMA DHeaderWritten ==
  ASSUME NEW e \in Encoders, e.pos = Len(e.buf)
  PROVE  Written(e, WriteScalar(e, Word(0)), [call |-> "dheader", v |-> Word(0)])
<1> DEFINE w == Word(0)
           f == WriteScalar(e, w)
           item == [call |-> "dheader", v |-> w]
<1>1. w \in Seq(Byte) /\ Len(w) = 4
  BY WordType
<1> HIDE DEF w
<1>2. Extends(e, f)
  BY <1>1, WordExtends
<1>3. ReadsBack(ReadScalar(Behind(e, f), 4), w, f)
  <2>1. Len(w) \in {1, 2, 4, 8}
    BY <1>1
  <2>2. ReadsBack(ReadScalar(Behind(e, f), Len(w)), w, f)
    BY <1>1, <2>1, ScalarReadsBack
  <2> HIDE DEF f
  <2> QED
    BY <1>1, <2>2
<1> HIDE DEF f
<1>4. WellFormed(item)
  <2>1. w \in Seq(Nat)
    BY <1>1, BytesAreNumbers
  <2>2. item \in Items /\ item.call = "dheader" /\ item.v = w
    BY <2>1 DEF Items, Calls
  <2> QED
    BY <1>1, <2>2 DEF WellFormed
<1>5. ReadOf(item, Behind(e, f)) = ReadScalar(Behind(e, f), 4)
  BY DEF ReadOf, ReadDHeader
<1> QED
  BY <1>2, <1>3, <1>4, <1>5, ReadBackIsWritten DEF f, w

LEMMA BoolWritten ==
  ASSUME NEW e \in Encoders, e.pos = Len(e.buf), NEW b \in Booleans
  PROVE  Written(e, WriteBool(e, b), [call |-> "bool", v |-> b])
<1> DEFINE f == WriteBool(e, b)
           item == [call |-> "bool", v |-> b]
<1>1. Extends(e, f) /\ ReadsBack(ReadBool(Behind(e, f)), b, f)
  BY BoolReadsBack
<1> HIDE DEF f
<1>2. WellFormed(item)
  <2>1. CASE b = <<0>>
    BY <2>1 DEF WellFormed, Items, Calls
  <2>2. CASE b = <<1>>
    BY <2>2 DEF WellFormed, Items, Calls
  <2> QED
    BY <2>1, <2>2 DEF Booleans
<1>3. ReadOf(item, Behind(e, f)) = ReadBool(Behind(e, f))
  BY DEF ReadOf
<1> QED
  BY <1>1, <1>2, <1>3, ReadBackIsWritten DEF f

LEMMA StringWritten ==
  ASSUME NEW e \in Encoders, e.pos = Len(e.buf),
         NEW s \in Seq(Byte), Len(s) + 1 \in Uint32
  PROVE  Written(e, WriteString(e, s), [call |-> "string", v |-> s])
<1> DEFINE f == WriteString(e, s)
           item == [call |-> "string", v |-> s]
<1>1. Extends(e, f) /\ ReadsBack(ReadString(Behind(e, f)), s, f)
  BY StringExtends, StringReadsBack
<1> HIDE DEF f
<1>2. WellFormed(item)
  BY BytesAreNumbers DEF WellFormed, Items, Calls
<1>3. ReadOf(item, Behind(e, f)) = ReadString(Behind(e, f))
  BY DEF ReadOf
<1> QED
  BY <1>1, <1>2, <1>3, ReadBackIsWritten DEF f

LEMMA MemberWritten ==
  ASSUME NEW e \in Encoders, e.pos = Len(e.buf),
         NEW m \in {0, 1}, NEW id \in 0 .. MaxMemberID - 1, NEW size \in Uint32
  PROVE  Written(e, WriteEMHeader(e, m, id, size),
                 [call |-> "member", v |-> MemberValue(m, id, size)])
<1> DEFINE f == WriteEMHeader(e, m, id, size)
           v == MemberValue(m, id, size)
           item == [call |-> "member", v |-> v]
<1>1. id \in Nat /\ size \in Nat /\ LengthCode(size) \in 0 .. 4
  BY MemberIDs, LengthCodeType DEF Uint32
<1>2. Extends(e, f)
  BY <1>1, EMHeaderExtends
<1>3. ReadsBack(ReadEMHeader(Behind(e, f)), v, f)
  BY EMHeaderReadsBack DEF MemberValue
<1>4. v \in Seq(Nat)
  <2>1. m \in Nat /\ LengthCode(size) \in Nat
    BY <1>1
  <2>2. (IF LengthCode(size) = 4 THEN size ELSE 0) \in Nat
    BY <1>1
  <2> QED
    BY ONLY <1>1, <2>1, <2>2 DEF MemberValue
<1> HIDE DEF f, v
<1>5. WellFormed(item)
  BY <1>4 DEF WellFormed, Items, Calls
<1>6. ReadOf(item, Behind(e, f)) = ReadEMHeader(Behind(e, f))
  BY DEF ReadOf
<1> QED
  BY <1>2, <1>3, <1>5, <1>6, ReadBackIsWritten DEF f, v

LEMMA RawWritten ==
  ASSUME NEW e \in Encoders, e.pos = Len(e.buf), NEW bytes \in Seq(Byte)
  PROVE  Written(e, WriteRaw(e, bytes), [call |-> "raw", v |-> bytes])
<1> DEFINE f == WriteRaw(e, bytes)
           item == [call |-> "raw", v |-> bytes]
<1>1. Extends(e, f) /\ ReadsBack(Skip(Behind(e, f), Len(bytes)), <<>>, f)
  BY RawReadsBack
<1> HIDE DEF f
<1>2. WellFormed(item)
  BY BytesAreNumbers DEF WellFormed, Items, Calls
<1>3. ReadOf(item, Behind(e, f)) = Skip(Behind(e, f), Len(bytes))
  BY DEF ReadOf
<1> QED
  BY <1>1, <1>2, <1>3, ReadBackIsWritten DEF f

-----------------------------------------------------------------------------
(***************************************************************************)
(* The writer keeps the invariant                                          *)
(***************************************************************************)
LEMMA InitHolds == Init => Inv
<1> SUFFICES ASSUME Init PROVE Inv
  OBVIOUS
<1>1. /\ open = <<>> /\ script = <<>> /\ slots = <<>> /\ got = <<>>
      /\ phase = "write" /\ framed = (enc.buf # <<>>)
      /\ dec = [data |-> <<>>, pos |-> 0, order |-> enc.order]
  BY DEF Init, W!Init, NoDecoder
<1>2. /\ enc \in Encoders /\ enc.pos = Len(enc.buf)
      /\ enc.pos = Start /\ HeaderWritten
  <2>1. CASE \E kind \in Kinds : enc = W!NewEncoder(kind)
    <3>1. PICK kind \in Kinds : enc = W!NewEncoder(kind)
      BY <2>1
    <3>2. kind \in 6 .. 11
      BY WireAssumption DEF EncapsulationKinds
    <3>3. enc = [buf |-> <<0, kind, 0, 0>>, pos |-> 4, order |-> ByteOrder(kind)]
      BY <3>1 DEF W!NewEncoder, W!ByteOrder, ByteOrder, W!LE, LE, W!BE, BE
    <3>4. ByteOrder(kind) \in ByteOrders
      BY DEF ByteOrder, ByteOrders
    <3>5. /\ enc.buf = <<0, kind, 0, 0>> /\ enc.pos = 4 /\ enc.order = ByteOrder(kind)
          /\ enc.buf \in Seq(Byte)
      BY <3>2, <3>3 DEF Byte
    <3>6. enc \in Encoders
      BY <3>3, <3>4, <3>5 DEF Encoders
    <3>7. framed
      <4>1. Len(enc.buf) = 4 /\ Len(<<>>) = 0
        BY <3>5
      <4>2. enc.buf # <<>>
        BY ONLY <4>1
      <4> QED
        BY <1>1, <4>2, Zenon
    <3> QED
      BY <3>2, <3>5, <3>6, <3>7 DEF Start, HeaderWritten, EncapsulationKinds
  <2>2. CASE \E order \in W!ByteOrders : enc = W!NewRawEncoder(order)
    <3>1. PICK order \in ByteOrders : enc = [buf |-> <<>>, pos |-> 0, order |-> order]
      BY <2>2 DEF W!NewRawEncoder, W!ByteOrders, ByteOrders, W!LE, LE, W!BE, BE
    <3>2. framed = FALSE /\ enc.buf = <<>> /\ enc.pos = 0
      BY <1>1, <3>1
    <3> QED
      BY <3>1, <3>2 DEF Encoders, Start, HeaderWritten
  <2> QED
    BY <2>1, <2>2 DEF Init, W!Init
<1>3. enc.pos \in Nat /\ enc.order \in ByteOrders
  BY <1>2 DEF Encoders
<1> DEFINE p == <<enc.pos>>
<1>4. p \in Seq(Nat) /\ Len(p) = 1 /\ p[1] = enc.pos
  BY <1>3
<1> HIDE DEF p
<1>5. WriterTypeOK
  BY <1>1, <1>2 DEF WriterTypeOK
<1>6. Laid(p, script, enc)
  <2>1. Len(script) = 0
    BY <1>1
  <2>2. \A i, j \in 1 .. Len(p) : i = 1 /\ j = 1
    BY <1>4
  <2> QED
    BY <1>3, <1>4, <2>1, <2>2 DEF Laid
<1>7. Headed(p, script, open, slots, bodies)
  BY <1>1 DEF Headed
<1>8. ReaderInv(p)
  <2>1. Prefix
    BY <1>1, <1>2, <1>3 DEF Prefix, Encoders, Decoders
  <2> QED
    BY <1>1, <2>1 DEF ReaderInv
<1> QED
  BY <1>2, <1>4, <1>5, <1>6, <1>7, <1>8 DEF Inv, WireInv

\* A call that only adds bytes behind those that are there.
LEMMA AddingHolds ==
  ASSUME NEW p \in Seq(Nat), WireInv(p), phase = "write",
         NEW item, Written(enc, enc', item), script' = Append(script, item),
         open' \in Seq(Nat), slots' \in Seq(Nat),
         UNCHANGED <<dec, got, framed, phase>>,
         Headed(Append(p, enc'.pos), script', open', slots', bodies')
  PROVE  Inv'
<1>1. /\ enc \in Encoders /\ enc.pos = Len(enc.buf) /\ script \in Seq(Items)
      /\ \A i \in 1 .. Len(script) : WellFormed(script[i])
      /\ framed \in BOOLEAN /\ phase' = "write" /\ dec' = dec /\ framed' = framed
      /\ got = <<>> /\ got' = <<>> /\ dec.data = <<>> /\ Prefix
      /\ HeaderWritten /\ p[1] = Start /\ Laid(p, script, enc)
  BY DEF WireInv, WriterTypeOK, ReaderInv
<1>2. /\ enc' \in Encoders /\ enc'.order = enc.order /\ enc'.pos = Len(enc'.buf)
      /\ Len(enc.buf) <= Len(enc'.buf) /\ enc'.pos \in Nat
      /\ \A i \in 1 .. Len(enc.buf) : enc'.buf[i] = enc.buf[i]
      /\ enc.buf \in Seq(Byte) /\ enc'.buf \in Seq(Byte)
      /\ WellFormed(item) /\ item \in Items
  BY <1>1 DEF Written, Extends, Encoders, WellFormed
<1>3. PICK q : q = Append(p, enc'.pos)
  OBVIOUS
<1>4. Laid(q, script', enc')
  BY <1>1, <1>3, AppendLaid DEF Written
<1>5. q \in Seq(Nat) /\ q[1] = p[1]
  <2>1. Len(p) = Len(script) + 1 /\ Len(script) \in Nat
    BY <1>1 DEF Laid
  <2> QED
    BY <1>2, <1>3, <2>1, AppendIs
<1>6. /\ Len(script') = Len(script) + 1 /\ script' \in Seq(Items)
      /\ \A i \in 1 .. Len(script) + 1 : WellFormed(script'[i])
  <2>1. /\ script' \in Seq(Items) /\ Len(script') = Len(script) + 1
        /\ \A i \in 1 .. Len(script) : script'[i] = script[i]
        /\ script'[Len(script) + 1] = item
    BY <1>1, <1>2, AppendIs
  <2>2. \A i \in 1 .. Len(script) + 1 : i \in 1 .. Len(script) \/ i = Len(script) + 1
    BY <1>1
  <2> QED
    BY <1>1, <1>2, <2>1, <2>2
<1>7. WriterTypeOK'
  BY <1>1, <1>2, <1>6 DEF WriterTypeOK
<1>8. HeaderWritten'
  <2> SUFFICES ASSUME framed
               PROVE  /\ Len(enc'.buf) >= 4
                      /\ enc'.buf[1] = 0
                      /\ enc'.buf[2] \in EncapsulationKinds
                      /\ enc'.order = ByteOrder(enc'.buf[2])
    BY <1>1 DEF HeaderWritten
  <2>1. /\ Len(enc.buf) >= 4 /\ enc.buf[1] = 0
        /\ enc.buf[2] \in EncapsulationKinds /\ enc.order = ByteOrder(enc.buf[2])
    BY <1>1 DEF HeaderWritten
  <2>2. Len(enc.buf) \in Nat /\ Len(enc'.buf) \in Nat
    BY <1>2
  <2>3. 1 \in 1 .. Len(enc.buf) /\ 2 \in 1 .. Len(enc.buf) /\ Len(enc'.buf) >= 4
    BY <1>2, <2>1, <2>2
  <2> QED
    BY <1>2, <2>1, <2>3
<1>9. Prefix'
  <2>1. /\ dec \in Decoders /\ Len(dec.data) <= Len(enc.buf)
        /\ \A i \in 1 .. Len(dec.data) : dec.data[i] = enc.buf[i]
        /\ Len(dec.data) \in Nat /\ Len(enc.buf) \in Nat /\ Len(enc'.buf) \in Nat
    BY <1>1, <1>2 DEF Prefix, Decoders
  <2>2. Len(dec.data) <= Len(enc'.buf)
    BY <1>2, <2>1
  <2>3. \A i \in 1 .. Len(dec.data) : i \in 1 .. Len(enc.buf)
    BY <2>1
  <2>4. \A i \in 1 .. Len(dec.data) : dec.data[i] = enc'.buf[i]
    BY <1>2, <2>1, <2>3
  <2> QED
    BY <1>1, <2>1, <2>2, <2>4 DEF Prefix
<1>10. ReaderInv(q)'
  BY <1>1, <1>9 DEF ReaderInv
<1>11. WireInv(q)'
  <2>1. Headed(q, script', open', slots', bodies')
    BY <1>3
  <2>2. (p[1] = Start)' /\ q[1] = Start'
    BY <1>1, <1>5 DEF Start
  <2> QED
    BY <1>4, <1>7, <1>8, <1>10, <2>1, <2>2 DEF WireInv
<1> QED
  BY <1>5, <1>11 DEF Inv

\* A call that begins and ends no body.
LEMMA RecordHolds ==
  ASSUME Inv, NEW call \in Calls, call # "dheader", NEW v, Record(call, v),
         \A e \in Encoders : e = enc /\ e.pos = Len(e.buf)
                             => Written(e, enc', [call |-> call, v |-> v]),
         UNCHANGED <<open, bodies>>
  PROVE  Inv'
<1> DEFINE item == [call |-> call, v |-> v]
<1>1. PICK p \in Seq(Nat) : WireInv(p)
  BY DEF Inv
<1>2. /\ enc \in Encoders /\ enc.pos = Len(enc.buf) /\ script \in Seq(Items)
      /\ open \in Seq(Nat) /\ slots \in Seq(Nat)
      /\ Laid(p, script, enc) /\ Headed(p, script, open, slots, bodies)
  BY <1>1 DEF WireInv, WriterTypeOK
<1>3. /\ phase = "write" /\ script' = Append(script, item)
      /\ UNCHANGED <<slots, dec, got, framed, phase, open, bodies>>
  BY DEF Record, reader
<1>4. Written(enc, enc', item)
  BY <1>2
<1> HIDE DEF item
<1>5. item \in Items /\ enc'.pos \in Nat
  BY <1>4 DEF Written, WellFormed, Extends, Encoders
<1>6. item.call # "dheader"
  BY DEF item
<1>7. Len(p) = Len(script) + 1
  BY <1>2 DEF Laid
<1>8. Headed(Append(p, enc'.pos), Append(script, item), open, slots, bodies)
  BY <1>2, <1>5, <1>6, <1>7, AppendHeaded
<1>9. /\ Headed(Append(p, enc'.pos), script', open', slots', bodies')
      /\ open' \in Seq(Nat) /\ slots' \in Seq(Nat)
  BY <1>2, <1>3, <1>8
<1> QED
  BY <1>1, <1>3, <1>4, <1>9, AddingHolds

LEMMA BeginHolds ==
  ASSUME Inv, BeginBody
  PROVE  Inv'
<1> DEFINE item == [call |-> "dheader", v |-> Word(0)]
           h == HeaderAt(enc.pos)
<1>1. PICK p \in Seq(Nat) : WireInv(p)
  BY DEF Inv
<1>2. /\ enc \in Encoders /\ enc.pos = Len(enc.buf) /\ script \in Seq(Items)
      /\ open \in Seq(Nat) /\ slots \in Seq(Nat) /\ enc.pos \in Nat
      /\ Laid(p, script, enc) /\ Headed(p, script, open, slots, bodies)
  BY <1>1 DEF WireInv, WriterTypeOK, Encoders
<1>3. /\ phase = "write" /\ script' = Append(script, item)
      /\ UNCHANGED <<dec, got, framed, phase, bodies>>
      /\ enc' = WriteScalar(enc, Word(0))
      /\ open' = Append(open, h)
      /\ slots' = Append(slots, Len(script) + 1)
  <2>1. W!Begin /\ script' = Append(script, item)
        /\ phase = "write" /\ UNCHANGED <<dec, got, framed, phase>>
        /\ slots' = Append(slots, Len(script) + 1)
    BY DEF BeginBody, reader
  <2>2. /\ enc' = W!BeginDHeader(enc) /\ open' = Append(open, W!DHeaderStart(enc))
        /\ UNCHANGED bodies
    BY <2>1, Zenon DEF W!Begin
  <2> QED
    BY <2>1, <2>2, WriterBegin
<1>4. Written(enc, enc', item)
  BY <1>2, <1>3, DHeaderWritten
<1> HIDE DEF item
<1>5. item \in Items /\ enc'.pos \in Nat
  BY <1>4 DEF Written, WellFormed, Extends, Encoders
<1>6. item.call = "dheader"
  BY DEF item
<1>7. Len(p) = Len(script) + 1 /\ p[Len(script) + 1] = enc.pos /\ Len(script) + 1 \in Nat
  BY <1>2 DEF Laid
<1>8. h \in Nat
  <2>1. enc.pos \in Nat
    BY <1>2
  <2>2. Pad(enc.pos, 4) \in 0 .. 3
    BY <2>1, PadAligns
  <2> QED
    BY ONLY <2>1, <2>2 DEF h, HeaderAt
<1>9. h = HeaderAt(p[Len(script) + 1])
  BY <1>7
<1> HIDE DEF h
<1>10. Headed(Append(p, enc'.pos), Append(script, item), Append(open, h),
              Append(slots, Len(script) + 1), bodies)
  BY <1>2, <1>5, <1>6, <1>7, <1>8, <1>9, BeginHeaded
<1>11. /\ Headed(Append(p, enc'.pos), script', open', slots', bodies')
       /\ open' \in Seq(Nat) /\ slots' \in Seq(Nat)
  BY <1>2, <1>3, <1>7, <1>8, <1>10, AppendIs
<1> QED
  BY <1>1, <1>3, <1>4, <1>11, AddingHolds
\* The writer patches the size of the innermost body over its placeholder.
LEMMA FinishHolds ==
  ASSUME Inv, FinishBody
  PROVE  Inv'
<1> DEFINE k == slots[Len(slots)]
           start == open[Len(open)]
<1>1. PICK p \in Seq(Nat) : WireInv(p)
  BY DEF Inv
<1>2. /\ enc \in Encoders /\ enc.pos = Len(enc.buf) /\ script \in Seq(Items)
      /\ \A i \in 1 .. Len(script) : WellFormed(script[i])
      /\ open \in Seq(Nat) /\ slots \in Seq(Nat) /\ enc.pos \in Nat
      /\ framed \in BOOLEAN /\ HeaderWritten /\ p[1] = Start
      /\ Laid(p, script, enc) /\ Headed(p, script, open, slots, bodies)
      /\ ReaderInv(p)
  BY <1>1 DEF WireInv, WriterTypeOK, Encoders
<1>3. /\ phase = "write" /\ open # <<>>
      /\ UNCHANGED <<dec, got, framed, phase>>
      /\ script' = WithValue(script, k, Word(enc.pos - start - 4))
      /\ slots' = SubSeq(slots, 1, Len(slots) - 1)
      /\ enc' = FinishDHeader(enc, start)
      /\ bodies' = bodies \cup {[start |-> start, end |-> enc.pos]}
      /\ open' = SubSeq(open, 1, Len(open) - 1)
  <2>1. /\ W!Finish /\ phase = "write" /\ UNCHANGED <<dec, got, framed, phase>>
        /\ script' = WithValue(script, k, Word(enc.pos - start - 4))
        /\ slots' = SubSeq(slots, 1, Len(slots) - 1)
    BY DEF FinishBody, reader, WithValue
  <2>2. /\ open # <<>>
        /\ enc' = W!FinishDHeader(enc, start)
        /\ bodies' = bodies \cup {[start |-> start, end |-> enc.pos]}
        /\ open' = SubSeq(open, 1, Len(open) - 1)
    BY <2>1, Zenon DEF W!Finish
  <2> QED
    BY <2>1, <2>2, WriterFinish
<1>4. /\ Len(slots) = Len(open) /\ slots # <<>>
      /\ k \in 1 .. Len(script) /\ script[k].call = "dheader"
      /\ start = HeaderAt(p[k])
  <2>1. Len(open) \in 1 .. Len(open)
    BY <1>2, <1>3
  <2>2. Len(slots) = Len(open)
    BY <1>2 DEF Headed
  <2>3. slots # <<>>
    BY <1>2, <2>1, <2>2
  <2> HIDE DEF k, start
  <2>4. k = slots[Len(open)] /\ start = open[Len(open)]
    BY <2>2 DEF k, start
  <2> QED
    BY <1>2, <2>1, <2>2, <2>3, <2>4 DEF Headed
<1>5. /\ open' \in Seq(Nat) /\ slots' \in Seq(Nat)
  BY <1>2, <1>3, <1>4, FrontType
<1> HIDE DEF k, start
<1>6. /\ Laid(p, script', enc')
      /\ script' \in Seq(Items) /\ Len(script') = Len(script)
      /\ \A i \in 1 .. Len(script') : WellFormed(script'[i])
      /\ \A i \in 1 .. Len(script') : script'[i].call = script[i].call
      /\ \A i \in 1 .. Len(script') : i # k => script'[i] = script[i]
      /\ script'[k].v = Word(enc.pos - start - 4)
  <2>1. enc \in Encoders /\ enc.pos = Len(enc.buf) /\ script \in Seq(Items)
    BY <1>2
  <2>2. \A i \in 1 .. Len(script) : WellFormed(script[i])
    BY <1>2
  <2>3. Laid(p, script, enc)
    BY <1>2
  <2>4. k \in 1 .. Len(script) /\ script[k].call = "dheader" /\ start = HeaderAt(p[k])
    BY <1>4
  <2>5. /\ enc' = FinishDHeader(enc, start)
        /\ script' = WithValue(script, k, Word(enc.pos - start - 4))
    BY <1>3
  <2> QED
    BY ONLY <2>1, <2>2, <2>3, <2>4, <2>5, FinishLaid
<1>7. Headed(p, script', open', slots', bodies')
  <2>1. \A i \in 1 .. Len(script') : i # slots[Len(slots)] => script'[i] = script[i]
    BY <1>6 DEF k
  <2>2. script'[slots[Len(slots)]].v = Word(enc.pos - open[Len(open)] - 4)
    BY <1>6 DEF k, start
  <2>3. Headed(p, script', SubSeq(open, 1, Len(open) - 1), SubSeq(slots, 1, Len(slots) - 1),
               bodies \cup {[start |-> open[Len(open)], end |-> enc.pos]})
    BY <1>2, <1>3, <1>6, <2>1, <2>2, FinishHeaded
  <2> QED
    BY <1>3, <2>3 DEF start
<1>8. /\ start \in Nat /\ start >= Start /\ start + 4 <= Len(enc.buf)
  <2>1. /\ p \in Seq(Nat) /\ Len(p) = Len(script) + 1
        /\ Holds(enc, script[k], p[k], p[k + 1])
        /\ \A i, j \in 1 .. Len(p) : i <= j => p[i] <= p[j]
    BY <1>2, <1>4, Zenon DEF Laid
  <2> DEFINE n == Len(script)
  <2>2. n \in Nat /\ k \in 1 .. n /\ Len(p) = n + 1
    BY <1>2, <1>4, <2>1
  <2> HIDE DEF n
  <2>3. k \in 1 .. n + 1 /\ 1 \in 1 .. n + 1 /\ 1 <= k
    BY ONLY <2>2
  <2>4. p[k] \in Nat /\ p[1] <= p[k] /\ p[1] \in Nat
    <3>1. p \in Seq(Nat)
      BY <2>1
    <3>2. p[k] \in Nat /\ p[1] \in Nat
      BY ONLY <2>2, <2>3, <3>1
    <3> QED
      BY <2>1, <2>2, <2>3, <3>2
  <2>5. /\ start \in Nat /\ start >= p[k]
        /\ p[k + 1] = start + 4 /\ p[k + 1] <= Len(enc.buf)
    BY <1>2, <1>4, <2>1, <2>4, HeaderPlace
  <2>6. start >= p[1]
    <3>1. \A a, b, c \in Nat : a <= b /\ c >= b => c >= a
      OBVIOUS
    <3> QED
      BY ONLY <2>4, <2>5, <3>1
  <2> QED
    BY <1>2, <2>5, <2>6
<1>9. /\ enc' \in Encoders /\ enc'.order = enc.order /\ enc'.pos = enc.pos
      /\ Len(enc'.buf) = Len(enc.buf)
      /\ \A i \in 1 .. Len(enc.buf) : i \notin start + 1 .. start + 4 => enc'.buf[i] = enc.buf[i]
  BY <1>2, <1>3, <1>8, FinishPatches
<1>10. WriterTypeOK'
  BY <1>2, <1>3, <1>5, <1>6, <1>9 DEF WriterTypeOK
<1>11. HeaderWritten'
  <2> SUFFICES ASSUME framed
               PROVE  /\ Len(enc'.buf) >= 4
                      /\ enc'.buf[1] = 0
                      /\ enc'.buf[2] \in EncapsulationKinds
                      /\ enc'.order = ByteOrder(enc'.buf[2])
    BY <1>3 DEF HeaderWritten
  <2>1. /\ Len(enc.buf) >= 4 /\ enc.buf[1] = 0
        /\ enc.buf[2] \in EncapsulationKinds /\ enc.order = ByteOrder(enc.buf[2])
    BY <1>2 DEF HeaderWritten
  <2>2. Len(enc.buf) \in Nat
    BY <1>2 DEF Encoders
  <2>3. /\ 1 \in 1 .. Len(enc.buf) /\ 2 \in 1 .. Len(enc.buf)
        /\ 1 \notin start + 1 .. start + 4 /\ 2 \notin start + 1 .. start + 4
    BY <1>8, <2>1, <2>2 DEF Start
  <2> QED
    BY <1>9, <2>1, <2>3
<1>12. ReaderInv(p)'
  <2>1. Prefix /\ got \in Seq(Seq(Nat)) /\ got = <<>> /\ dec.data = <<>>
    BY <1>2, <1>3 DEF ReaderInv
  <2>2. Len(dec.data) = 0 /\ Len(enc'.buf) \in Nat
    BY <1>9, <2>1 DEF Encoders
  <2>3. Prefix'
    BY <1>3, <2>1, <2>2 DEF Prefix
  <2> QED
    BY <1>3, <2>1, <2>3 DEF ReaderInv
<1>13. (p[1] = Start)'
  BY <1>2, <1>3 DEF Start
<1>14. WireInv(p)'
  BY <1>6, <1>7, <1>10, <1>11, <1>12, <1>13 DEF WireInv
<1> QED
  BY <1>14 DEF Inv

-----------------------------------------------------------------------------
(***************************************************************************)
(* The payload arrives                                                     *)
(***************************************************************************)
LEMMA PrefixOf ==
  ASSUME NEW s \in Seq(Byte), NEW n \in 0 .. Len(s)
  PROVE  /\ SubSeq(s, 1, n) \in Seq(Byte)
         /\ Len(SubSeq(s, 1, n)) = n
         /\ \A i \in 1 .. n : SubSeq(s, 1, n)[i] = s[i]
  OBVIOUS

\* The reader's constructor finds the byte order and the first value, unless
\* the header itself was cut off.
LEMMA DeliverToReader ==
  ASSUME HeaderWritten, enc \in Encoders, framed \in BOOLEAN,
         NEW n \in 0 .. Len(enc.buf), DeliverTo(SubSeq(enc.buf, 1, n)),
         dec \in Decoders, dec.data = <<>>
  PROVE  /\ dec' \in Decoders
         /\ Len(dec'.data) <= Len(enc.buf)
         /\ \A i \in 1 .. Len(dec'.data) : dec'.data[i] = enc.buf[i]
         /\ \/ /\ phase' = "read"
               /\ dec'.order = enc.order /\ dec'.pos = Start /\ dec'.pos <= Len(dec'.data)
            \/ phase' = "failed" /\ dec'.data # enc.buf
<1> DEFINE data == SubSeq(enc.buf, 1, n)
<1>1. /\ data \in Seq(Byte) /\ Len(data) = n /\ n \in Nat /\ n <= Len(enc.buf)
      /\ \A i \in 1 .. n : data[i] = enc.buf[i]
      /\ enc.order \in ByteOrders
  BY PrefixOf DEF Encoders
<1>2. DeliverTo(data)
  OBVIOUS
<1> HIDE DEF data
<1>3. CASE framed /\ HasHeader(data)
  <2>1. /\ phase' = "read"
        /\ dec' = [data |-> data, pos |-> 4, order |-> ByteOrder(data[2])]
    BY <1>2, <1>3 DEF DeliverTo, NewDecoder
  <2>2. n >= 4
    BY <1>1, <1>3 DEF HasHeader
  <2>3. data[2] = enc.buf[2]
    <3>1. 2 \in 1 .. n
      BY ONLY <2>2, n \in Nat
    <3> QED
      BY <1>1, <3>1
  <2>4. ByteOrder(data[2]) = enc.order
    BY <1>3, <2>3 DEF HeaderWritten
  <2>5. dec' \in Decoders
    BY <1>1, <2>1, <2>4 DEF Decoders
  <2> QED
    BY <1>1, <1>3, <2>1, <2>2, <2>4, <2>5 DEF Start
<1>4. CASE framed /\ ~HasHeader(data)
  <2>1. phase' = "failed" /\ dec' = dec
    BY <1>2, <1>4 DEF DeliverTo
  <2>2. Len(enc.buf) >= 4
    BY <1>4 DEF HeaderWritten
  <2>3. Len(dec'.data) = 0
    BY <2>1
  <2>4. dec'.data # enc.buf
    BY ONLY <2>2, <2>3
  <2> QED
    BY <1>1, <2>1, <2>3, <2>4
<1>5. CASE ~framed
  <2>1. phase' = "read" /\ dec' = [data |-> data, pos |-> 0, order |-> enc.order]
    BY <1>2, <1>5 DEF DeliverTo, NewRawDecoder
  <2>2. dec' \in Decoders
    BY <1>1, <2>1 DEF Decoders
  <2> QED
    BY <1>1, <1>5, <2>1, <2>2 DEF Start
<1> QED
  BY <1>3, <1>4, <1>5

LEMMA DeliverHolds ==
  ASSUME Inv, NEW n \in 0 .. Len(enc.buf), Deliver(n)
  PROVE  Inv'
<1>1. PICK p \in Seq(Nat) : WireInv(p)
  BY DEF Inv
<1>2. /\ WriterTypeOK /\ HeaderWritten /\ p[1] = Start /\ Laid(p, script, enc)
      /\ Headed(p, script, open, slots, bodies) /\ ReaderInv(p)
  BY <1>1 DEF WireInv
<1>3. /\ phase = "write" /\ open = <<>>
      /\ DeliverTo(SubSeq(enc.buf, 1, n))
      /\ UNCHANGED <<enc, open, bodies, script, slots, framed, got>>
  BY DEF Deliver, writer
<1>4. got = <<>> /\ dec \in Decoders /\ dec.data = <<>> /\ enc \in Encoders /\ framed \in BOOLEAN
  BY <1>2, <1>3 DEF ReaderInv, Prefix, WriterTypeOK
<1>5. /\ dec' \in Decoders
      /\ Len(dec'.data) <= Len(enc.buf)
      /\ \A i \in 1 .. Len(dec'.data) : dec'.data[i] = enc.buf[i]
      /\ \/ /\ phase' = "read"
            /\ dec'.order = enc.order /\ dec'.pos = Start /\ dec'.pos <= Len(dec'.data)
         \/ phase' = "failed" /\ dec'.data # enc.buf
  BY <1>2, <1>3, <1>4, DeliverToReader
<1>6. WriterTypeOK' /\ HeaderWritten' /\ (p[1] = Start)'
  BY <1>2, <1>3, <1>5 DEF WriterTypeOK, HeaderWritten, Start
<1>7. Prefix'
  BY <1>3, <1>5 DEF Prefix
<1>8. Len(got') = 0 /\ Len(script') \in Nat /\ got' \in Seq(Seq(Nat)) /\ open' = <<>>
  BY <1>2, <1>3, <1>4 DEF WriterTypeOK
<1>9. ReaderInv(p)'
  <2>1. CASE phase' = "read" /\ dec'.order = enc.order /\ dec'.pos = Start
             /\ dec'.pos <= Len(dec'.data)
    <3>1. Len(got') <= Len(script') /\ dec'.pos = p[Len(got') + 1]
      BY <1>2, <1>8, <2>1
    <3> QED
      BY <1>3, <1>7, <1>8, <2>1, <3>1 DEF ReaderInv
  <2>2. CASE phase' = "failed" /\ dec'.data # enc.buf
    BY <1>3, <1>7, <1>8, <2>2 DEF ReaderInv, Whole
  <2> QED
    BY <1>5, <2>1, <2>2
<1>10. WireInv(p)'
  BY <1>2, <1>3, <1>6, <1>9 DEF WireInv
<1> QED
  BY <1>10 DEF Inv
-----------------------------------------------------------------------------
(***************************************************************************)
(* The reader                                                              *)
(***************************************************************************)
LEMMA ItemAt ==
  ASSUME NEW p \in Seq(Nat), WireInv(p), Len(got) < Len(script)
  PROVE  LET k == Len(got) + 1
         IN  /\ k \in 1 .. Len(script) /\ script[k] = NextItem
             /\ k + 1 \in 1 .. Len(p) /\ p[k] \in Nat /\ p[k + 1] \in Nat
             /\ NextItem \in Items /\ WellFormed(NextItem)
             /\ Holds(enc, NextItem, p[k], p[k + 1])
<1> DEFINE n == Len(script)
           k == Len(got) + 1
<1>1. /\ script \in Seq(Items) /\ got \in Seq(Seq(Nat))
      /\ \A i \in 1 .. n : WellFormed(script[i])
      /\ Len(p) = n + 1 /\ \A i \in 1 .. n : Holds(enc, script[i], p[i], p[i + 1])
  BY DEF WireInv, WriterTypeOK, ReaderInv, Laid
<1>2. n \in Nat /\ Len(got) \in Nat /\ Len(got) < n
  BY <1>1
<1> HIDE DEF n
<1>3. k \in 1 .. n /\ k \in 1 .. n + 1 /\ k + 1 \in 1 .. n + 1
  BY ONLY <1>2
<1> HIDE DEF k
<1>4. p[k] \in Nat /\ p[k + 1] \in Nat
  <2>1. p \in Seq(Nat) /\ Len(p) = n + 1
    BY <1>1
  <2> QED
    BY ONLY <1>3, <2>1
<1>5. script[k] = NextItem
  BY DEF NextItem, k
<1>6. script[k] \in Items
  BY <1>1, <1>3 DEF n
<1> QED
  BY <1>1, <1>3, <1>4, <1>5, <1>6 DEF k, n

\* A read gets the value that was written and stops where the writer's call
\* did, or the payload was cut off.
LEMMA ReadsValue ==
  ASSUME NEW p \in Seq(Nat), WireInv(p), ReadNext
  PROVE  /\ dec' \in Decoders /\ dec'.data = dec.data /\ dec'.order = enc.order
         /\ \/ /\ phase' = "read" /\ got' = Append(got, NextItem.v)
               /\ dec'.pos = p[Len(got) + 2] /\ dec'.pos <= Len(dec.data)
            \/ phase' = "failed" /\ got' = got /\ dec.data # enc.buf
<1> DEFINE k == Len(got) + 1
           item == NextItem
           c == DecoderAt(enc, p[k])
           r == ReadOf(item, dec)
           s == ReadOf(item, c)
<1>1. /\ phase = "read" /\ Len(got) < Len(script) /\ Matching(item)
      /\ IF ret'.ok
         THEN /\ got' = Append(got, IF item.call = "raw" THEN item.v ELSE ret'.v)
              /\ phase' = phase
         ELSE phase' = "failed" /\ got' = got
  BY DEF ReadNext
<1>2. /\ p[k] \in Nat /\ item \in Items /\ WellFormed(item)
      /\ Holds(enc, item, p[k], p[k + 1])
  BY <1>1, ItemAt
<1>3. /\ enc \in Encoders /\ dec \in Decoders /\ Len(dec.data) <= Len(enc.buf)
      /\ \A i \in 1 .. Len(dec.data) : dec.data[i] = enc.buf[i]
      /\ dec.order = enc.order /\ dec.pos = p[k] /\ dec.pos <= Len(dec.data)
      /\ got \in Seq(Seq(Nat))
  BY <1>1 DEF WireInv, WriterTypeOK, ReaderInv, Prefix
<1>4. k + 1 = Len(got) + 2
  BY <1>3
<1> HIDE DEF k, item
<1>5. dec' = r.d /\ ret'.ok = r.ok /\ (item.call # "raw" => ret'.v = r.v)
  BY <1>1, <1>2, MatchingReads
<1>6. /\ c \in Decoders /\ c.data = enc.buf /\ c.pos = p[k] /\ c.order = enc.order
  BY <1>2, <1>3 DEF DecoderAt, Encoders, Decoders
<1>7. s.ok /\ ValueOf(item, s) = item.v /\ s.d.pos = p[k + 1]
  BY <1>2 DEF Holds
<1> HIDE DEF c
<1>8. /\ r.d \in Decoders /\ r.d.data = dec.data /\ r.d.order = dec.order
      /\ r.ok \in BOOLEAN
      /\ r.ok => r.d.pos >= dec.pos /\ r.d.pos <= Len(dec.data)
  BY <1>2, <1>3, ItemReads
<1>9. CASE r.ok
  <2>1. Agrees(dec, c, r.d.pos)
    <3> DEFINE to == r.d.pos
               m == Len(dec.data)
    <3>1. /\ to \in Nat /\ to <= m /\ m <= Len(enc.buf) /\ m \in Nat
          /\ Len(enc.buf) \in Nat /\ dec.pos \in Nat
      BY <1>3, <1>8, <1>9 DEF Decoders, Encoders
    <3>2. \A i \in 1 .. m : dec.data[i] = enc.buf[i]
      BY <1>3
    <3> HIDE DEF to, m
    <3>3. to <= Len(enc.buf)
      BY ONLY <3>1
    <3>4. \A i \in dec.pos + 1 .. to : i \in 1 .. m
      BY <3>1, RangeInside
    <3>5. \A i \in dec.pos + 1 .. to : enc.buf[i] = dec.data[i]
      BY <3>2, <3>4
    <3> QED
      BY <1>3, <1>6, <3>3, <3>5 DEF Agrees, to
  <2>2. ReadOf(item, dec).ok /\ Agrees(dec, c, ReadOf(item, dec).d.pos)
    BY <1>9, <2>1
  <2>3. SameRead(ReadOf(item, dec), ReadOf(item, c))
    BY <1>2, <1>3, <2>2, ItemLocal
  <2>4. s.v = r.v /\ s.d.pos = r.d.pos
    BY <2>3 DEF SameRead
  <2> HIDE DEF r, s
  <2>5. (IF item.call = "raw" THEN item.v ELSE ret'.v) = item.v
    BY <1>5, <1>7, <2>4 DEF ValueOf
  <2>6. phase' = "read" /\ got' = Append(got, item.v)
    BY <1>1, <1>5, <1>9, <2>5
  <2>7. dec'.pos = p[k + 1] /\ dec'.pos <= Len(dec.data)
    BY <1>5, <1>7, <1>8, <1>9, <2>4
  <2> QED
    BY <1>3, <1>4, <1>5, <1>8, <2>6, <2>7 DEF item
<1>10. CASE ~r.ok
  <2>1. phase' = "failed" /\ got' = got
    BY <1>1, <1>5, <1>10
  <2>2. dec.data # enc.buf
    <3> SUFFICES ASSUME dec.data = enc.buf PROVE FALSE
      OBVIOUS
    <3>0. /\ dec \in Decoders /\ c \in Decoders
          /\ dec.data = c.data /\ dec.pos = c.pos /\ dec.order = c.order
      BY <1>3, <1>6
    <3>1. dec = c
      BY ONLY <3>0 DEF Decoders
    <3> QED
      BY <1>7, <1>10, <3>1
  <2> QED
    BY <1>3, <1>5, <1>8, <2>1, <2>2
<1> QED
  BY <1>8, <1>9, <1>10

LEMMA ReadHolds ==
  ASSUME Inv, ReadNext
  PROVE  Inv'
<1>1. PICK p \in Seq(Nat) : WireInv(p)
  BY DEF Inv
<1>2. /\ WriterTypeOK /\ HeaderWritten /\ p[1] = Start /\ Laid(p, script, enc)
      /\ Headed(p, script, open, slots, bodies) /\ ReaderInv(p)
  BY <1>1 DEF WireInv
<1>3. /\ phase = "read" /\ Len(got) < Len(script)
      /\ UNCHANGED <<enc, open, bodies, script, slots, framed>>
  BY DEF ReadNext, writer
<1>4. /\ dec' \in Decoders /\ dec'.data = dec.data /\ dec'.order = enc.order
      /\ \/ /\ phase' = "read" /\ got' = Append(got, NextItem.v)
            /\ dec'.pos = p[Len(got) + 2] /\ dec'.pos <= Len(dec.data)
         \/ phase' = "failed" /\ got' = got /\ dec.data # enc.buf
  BY <1>1, ReadsValue
<1>5. WriterTypeOK' /\ HeaderWritten' /\ (p[1] = Start)'
  BY <1>2, <1>3, <1>4 DEF WriterTypeOK, HeaderWritten, Start
<1>6. Prefix' /\ open' = <<>> /\ got \in Seq(Seq(Nat))
  BY <1>2, <1>3, <1>4 DEF Prefix, ReaderInv
<1>7. NextItem.v \in Seq(Nat)
  BY <1>1, <1>3, ItemAt DEF Items
<1>8. ReaderInv(p)'
  <2>1. CASE /\ phase' = "read" /\ got' = Append(got, NextItem.v)
             /\ dec'.pos = p[Len(got) + 2] /\ dec'.pos <= Len(dec.data)
    <3>1. got' \in Seq(Seq(Nat)) /\ Len(got') = Len(got) + 1
      BY <1>6, <1>7, <2>1, AppendIs
    <3>2. Len(got) \in Nat /\ Len(script) \in Nat
      BY <1>2, <1>6 DEF WriterTypeOK
    <3>3. Len(got') <= Len(script) /\ Len(got') + 1 = Len(got) + 2
      BY ONLY <1>3, <3>1, <3>2
    <3>4. /\ Len(got') <= Len(script') /\ dec'.order = enc'.order
          /\ dec'.pos = p[Len(got') + 1] /\ dec'.pos <= Len(dec'.data)
      BY <1>3, <1>4, <2>1, <3>3
    <3> QED
      BY <1>6, <2>1, <3>1, <3>4 DEF ReaderInv
  <2>2. CASE phase' = "failed" /\ got' = got /\ dec.data # enc.buf
    BY <1>3, <1>4, <1>6, <2>2 DEF ReaderInv, Whole
  <2> QED
    BY <1>4, <2>1, <2>2
<1>9. WireInv(p)'
  BY <1>2, <1>3, <1>5, <1>8 DEF WireInv
<1> QED
  BY <1>9 DEF Inv
-----------------------------------------------------------------------------
(***************************************************************************)
(* The invariant, and what follows from it                                 *)
(***************************************************************************)
LEMMA WriteHolds ==
  ASSUME Inv
  PROVE  /\ \A w \in Scalars : WriteS(w) => Inv'
         /\ \A b \in Booleans : WriteB(b) => Inv'
         /\ \A s \in Strings : WriteStr(s) => Inv'
         /\ \A m \in {0, 1}, id \in Members, size \in Sizes : WriteMember(m, id, size) => Inv'
         /\ \A bytes \in Raws : WriteBytes(bytes) => Inv'
<1>1. ASSUME NEW w \in Scalars, WriteS(w)
      PROVE  Inv'
  <2>1. w \in Seq(Byte) /\ Len(w) \in {1, 2, 4, 8}
    BY WireAssumption
  <2>2. enc' = WriteScalar(enc, w) /\ UNCHANGED <<open, bodies>> /\ Record("scalar", w)
    BY <1>1, WriterScalar, Zenon DEF WriteS, W!Scalar
  <2>3. \A e \in Encoders : e = enc /\ e.pos = Len(e.buf)
                            => Written(e, enc', [call |-> "scalar", v |-> w])
    BY <2>1, <2>2, ScalarWritten
  <2>4. "scalar" \in Calls /\ "scalar" # "dheader"
    BY DEF Calls
  <2> QED
    BY <2>2, <2>3, <2>4, RecordHolds
<1>2. ASSUME NEW b \in Booleans, WriteB(b)
      PROVE  Inv'
  <2>2. enc' = WriteBool(enc, b) /\ UNCHANGED <<open, bodies>> /\ Record("bool", b)
    BY <1>2, WriterBool, Zenon DEF WriteB, W!Bool
  <2>3. \A e \in Encoders : e = enc /\ e.pos = Len(e.buf)
                            => Written(e, enc', [call |-> "bool", v |-> b])
    BY <2>2, BoolWritten
  <2>4. "bool" \in Calls /\ "bool" # "dheader"
    BY DEF Calls
  <2> QED
    BY <2>2, <2>3, <2>4, RecordHolds
<1>3. ASSUME NEW s \in Strings, WriteStr(s)
      PROVE  Inv'
  <2>1. s \in Seq(Byte) /\ Len(s) + 1 \in Uint32
    BY WireAssumption
  <2>2. enc' = WriteString(enc, s) /\ UNCHANGED <<open, bodies>> /\ Record("string", s)
    BY <1>3, WriterString, Zenon DEF WriteStr, W!String
  <2>3. \A e \in Encoders : e = enc /\ e.pos = Len(e.buf)
                            => Written(e, enc', [call |-> "string", v |-> s])
    BY <2>1, <2>2, StringWritten
  <2>4. "string" \in Calls /\ "string" # "dheader"
    BY DEF Calls
  <2> QED
    BY <2>2, <2>3, <2>4, RecordHolds
<1>4. ASSUME NEW m \in {0, 1}, NEW id \in Members, NEW size \in Sizes,
             WriteMember(m, id, size)
      PROVE  Inv'
  <2>1. id \in 0 .. MaxMemberID - 1 /\ size \in Uint32
    BY WireAssumption, Zenon
  <2>2. /\ enc' = WriteEMHeader(enc, m, id, size) /\ UNCHANGED <<open, bodies>>
        /\ Record("member", MemberValue(m, id, size))
    BY <1>4, WriterEMHeader, Zenon DEF WriteMember, W!MemberHeader
  <2>3. \A e \in Encoders : e = enc /\ e.pos = Len(e.buf)
          => Written(e, enc', [call |-> "member", v |-> MemberValue(m, id, size)])
    BY <2>1, <2>2, MemberWritten, Zenon
  <2>4. "member" \in Calls /\ "member" # "dheader"
    BY DEF Calls
  <2> QED
    BY <2>2, <2>3, <2>4, RecordHolds
<1>5. ASSUME NEW bytes \in Raws, WriteBytes(bytes)
      PROVE  Inv'
  <2>1. bytes \in Seq(Byte)
    BY WireAssumption
  <2>2. enc' = WriteRaw(enc, bytes) /\ UNCHANGED <<open, bodies>> /\ Record("raw", bytes)
    BY <1>5, WriterRaw, Zenon DEF WriteBytes, W!Raw
  <2>3. \A e \in Encoders : e = enc /\ e.pos = Len(e.buf)
                            => Written(e, enc', [call |-> "raw", v |-> bytes])
    BY <2>1, <2>2, RawWritten
  <2>4. "raw" \in Calls /\ "raw" # "dheader"
    BY DEF Calls
  <2> QED
    BY <2>2, <2>3, <2>4, RecordHolds
<1> QED
  BY <1>1, <1>2, <1>3, <1>4, <1>5

LEMMA StutterHolds ==
  ASSUME Inv, UNCHANGED vars
  PROVE  Inv'
<1>1. PICK p \in Seq(Nat) : WireInv(p)
  BY DEF Inv
<1>2. /\ enc' = enc /\ open' = open /\ bodies' = bodies /\ dec' = dec
      /\ framed' = framed /\ script' = script /\ slots' = slots /\ got' = got
      /\ phase' = phase
  BY DEF vars
<1>3. WriterTypeOK' /\ HeaderWritten' /\ (p[1] = Start)'
  BY <1>1, <1>2 DEF WireInv, WriterTypeOK, HeaderWritten, Start
<1>4. Laid(p, script', enc') /\ Headed(p, script', open', slots', bodies')
  BY <1>1, <1>2 DEF WireInv
<1>5. ReaderInv(p)'
  BY <1>1, <1>2 DEF WireInv, ReaderInv, Prefix, Whole
<1>6. WireInv(p)'
  BY <1>3, <1>4, <1>5 DEF WireInv
<1> QED
  BY <1>6 DEF Inv

LEMMA StepHolds == Inv /\ [Next]_vars => Inv'
<1> SUFFICES ASSUME Inv, [Next]_vars
             PROVE  Inv'
  OBVIOUS
<1>1. CASE \E w \in Scalars : WriteS(w)
  BY <1>1, WriteHolds
<1>2. CASE \E b \in Booleans : WriteB(b)
  BY <1>2, WriteHolds
<1>3. CASE \E s \in Strings : WriteStr(s)
  BY <1>3, WriteHolds
<1>4. CASE \E m \in {0, 1}, id \in Members, size \in Sizes : WriteMember(m, id, size)
  BY <1>4, WriteHolds
<1>5. CASE \E bytes \in Raws : WriteBytes(bytes)
  BY <1>5, WriteHolds
<1>6. CASE BeginBody
  BY <1>6, BeginHolds
<1>7. CASE FinishBody
  BY <1>7, FinishHolds
<1>8. CASE \E n \in 0 .. Len(enc.buf) : Deliver(n)
  BY <1>8, DeliverHolds
<1>9. CASE ReadNext
  BY <1>9, ReadHolds
<1>10. CASE Done \/ UNCHANGED vars
  BY <1>10, StutterHolds DEF Done
<1> QED
  BY <1>1, <1>2, <1>3, <1>4, <1>5, <1>6, <1>7, <1>8, <1>9, <1>10 DEF Next

\* Whatever the writer's calls were, they have left every value at a place of
\* its own in the buffer, from which the matching read gets it, patched sizes
\* of bodies included; the reader stands at the place of its next value.
THEOREM WireInvariant == Spec => []Inv
<1> QED
  BY InitHolds, StepHolds, PTL DEF Spec
LEMMA InvCursorsMeet == Inv => CursorsMeet
<1> SUFFICES ASSUME Inv, phase = "read"
             PROVE  IF Len(got) = Len(script)
                    THEN Whole => dec.pos = enc.pos
                    ELSE NextItem.call = "dheader" =>
                           \E b \in bodies :
                             /\ b.start = dec.pos + Pad(dec.pos, 4)
                             /\ NextItem.v = Word(b.end - b.start - 4)
  BY DEF CursorsMeet
<1>1. PICK p \in Seq(Nat) : WireInv(p)
  BY DEF Inv
<1>2. /\ open = <<>> /\ Len(got) <= Len(script) /\ dec.pos = p[Len(got) + 1]
      /\ Headed(p, script, open, slots, bodies)
      /\ p[Len(script) + 1] = enc.pos
      /\ Len(got) \in Nat /\ Len(script) \in Nat
  BY <1>1 DEF WireInv, ReaderInv, WriterTypeOK, Laid
<1>3. CASE Len(got) = Len(script)
  BY <1>2, <1>3
<1>4. CASE Len(got) # Len(script)
  <2> SUFFICES ASSUME NextItem.call = "dheader"
               PROVE  \E b \in bodies :
                        /\ b.start = dec.pos + Pad(dec.pos, 4)
                        /\ NextItem.v = Word(b.end - b.start - 4)
    BY <1>4
  <2> DEFINE k == Len(got) + 1
  <2>1. Len(got) < Len(script)
    BY <1>2, <1>4
  <2>2. k \in 1 .. Len(script) /\ script[k] = NextItem
    BY <1>1, <2>1, ItemAt
  <2>3. dec.pos = p[k] /\ Len(slots) = 0
    BY <1>2 DEF Headed
  <2> HIDE DEF k
  <2>4. ~ \E j \in 1 .. Len(slots) : slots[j] = k
    BY <2>3
  <2>5. \E b \in bodies : BodyOf(b, p[k], script[k].v)
    BY <1>2, <2>2, <2>4 DEF Headed
  <2> QED
    BY <2>2, <2>3, <2>5 DEF BodyOf, HeaderAt
<1> QED
  BY <1>3, <1>4

\* The cursor of a reader whose payload may have been cut off stands where the
\* writer's stood before the matching call: at the header of a finished body,
\* which holds the size that skips it, and behind the last value at the end.
THEOREM CursorsMeetProved == Spec => []CursorsMeet
<1> QED
  BY WireInvariant, InvCursorsMeet, PTL

-----------------------------------------------------------------------------
(***************************************************************************)
(* The channel of values                                                   *)
(***************************************************************************)
LEMMA ChannelInit == Init => Channel!Init
<1> SUFFICES ASSUME Init PROVE Channel!Init
  OBVIOUS
<1>1. phase = "write" /\ got = <<>>
  BY DEF Init
<1> QED
  BY <1>1 DEF Channel!Init

LEMMA WritingStutters ==
  ASSUME phase = "write", phase' = phase, got' = got
  PROVE  UNCHANGED Channel!vars
  BY DEF Channel!vars

LEMMA DeliverPublishes ==
  ASSUME Inv, Inv', NEW n \in 0 .. Len(enc.buf), Deliver(n)
  PROVE  Channel!Publish
<1>1. PICK p \in Seq(Nat) : WireInv(p)
  BY DEF Inv
<1>2. /\ phase = "write" /\ script # <<>> /\ script' = script /\ got' = got
      /\ enc' = enc /\ got = <<>> /\ script \in Seq(Items)
  BY <1>1 DEF Deliver, writer, WireInv, ReaderInv, WriterTypeOK
<1>3. phase' \in {"read", "failed"}
  BY DEF Deliver, DeliverTo
<1>4. phase' = "failed" => ~Whole'
  <2>1. PICK q \in Seq(Nat) : WireInv(q)'
    BY DEF Inv
  <2> QED
    BY <2>1 DEF WireInv, ReaderInv
<1>5. Values' # <<>>
  <2>1. Len(script) \in Nat /\ Len(script) # 0
    BY <1>2
  <2>2. Len(Values') = Len(script)
    BY <1>2, <2>1 DEF Values
  <2> QED
    BY <2>1, <2>2
<1> QED
  BY <1>2, <1>3, <1>4, <1>5 DEF Channel!Publish

LEMMA ReadReceives ==
  ASSUME Inv, ReadNext
  PROVE  Channel!Receive \/ Channel!Break
<1>1. PICK p \in Seq(Nat) : WireInv(p)
  BY DEF Inv
<1>2. /\ phase = "read" /\ Len(got) < Len(script)
      /\ script' = script /\ enc' = enc
  BY DEF ReadNext, writer
<1>3. /\ dec'.data = dec.data
      /\ \/ phase' = "read" /\ got' = Append(got, NextItem.v)
         \/ phase' = "failed" /\ got' = got /\ dec.data # enc.buf
  BY <1>1, ReadsValue
<1>4. Values' = Values /\ (Whole' <=> Whole)
  BY <1>2, <1>3 DEF Values, Whole
<1>5. Len(Values) = Len(script) /\ Values[Len(got) + 1] = NextItem.v
  <2>1. Len(script) \in Nat
    BY <1>1 DEF WireInv, WriterTypeOK
  <2>2. Len(got) + 1 \in 1 .. Len(script)
    BY <1>1, <1>2, ItemAt
  <2> QED
    BY <2>1, <2>2 DEF Values, NextItem
<1>6. CASE phase' = "read" /\ got' = Append(got, NextItem.v)
  BY <1>2, <1>4, <1>5, <1>6 DEF Channel!Receive
<1>7. CASE phase' = "failed" /\ got' = got /\ dec.data # enc.buf
  BY <1>2, <1>4, <1>5, <1>7 DEF Channel!Break, Whole
<1> QED
  BY <1>3, <1>6, <1>7

LEMMA ChannelStep == Inv /\ Inv' /\ [Next]_vars => [Channel!Next]_(Channel!vars)
<1> SUFFICES ASSUME Inv, Inv', [Next]_vars
             PROVE  [Channel!Next]_(Channel!vars)
  OBVIOUS
<1>1. CASE \/ \E w \in Scalars : WriteS(w)
           \/ \E b \in Booleans : WriteB(b)
           \/ \E s \in Strings : WriteStr(s)
           \/ \E m \in {0, 1}, id \in Members, size \in Sizes : WriteMember(m, id, size)
           \/ \E bytes \in Raws : WriteBytes(bytes)
  <2>1. phase = "write" /\ phase' = phase /\ got' = got
    BY <1>1, Zenon DEF WriteS, WriteB, WriteStr, WriteMember, WriteBytes, Record, reader
  <2> QED
    BY <2>1, WritingStutters
<1>2. CASE BeginBody \/ FinishBody
  <2>1. phase = "write" /\ phase' = phase /\ got' = got
    BY <1>2, Zenon DEF BeginBody, FinishBody, reader
  <2> QED
    BY <2>1, WritingStutters
<1>3. CASE \E n \in 0 .. Len(enc.buf) : Deliver(n)
  BY <1>3, DeliverPublishes DEF Channel!Next
<1>4. CASE ReadNext
  BY <1>4, ReadReceives DEF Channel!Next
<1>5. CASE Done \/ UNCHANGED vars
  <2>1. UNCHANGED vars
    BY <1>5 DEF Done
  <2> QED
    BY <2>1 DEF vars, Channel!vars, Values, Whole
<1> QED
  BY <1>1, <1>2, <1>3, <1>4, <1>5 DEF Next

\* Encoder and Decoder implement the channel of values for all sequences of
\* calls: what the reader gets is what the writer wrote, in order and none
\* changed, and a read fails only when the payload did not arrive whole.
THEOREM WireImplementsChannel == Spec => ImplementsChannel
<1> QED
  BY WireInvariant, ChannelInit, ChannelStep, PTL
     DEF Spec, ImplementsChannel, Channel!Spec
=============================================================================
