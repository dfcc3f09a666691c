-------------------------- MODULE TypeCodec_proofs --------------------------
(***************************************************************************)
(* Proofs about TypeCodec: with types whose code keeps the promises of     *)
(* TypeContract, the code of the types made of them keeps them too         *)
(* (LevelFaithful, LevelUp), and so what MarshalCDR returns UnmarshalCDR   *)
(* turns back into the members that both types have (SampleRead).          *)
(*                                                                         *)
(* What was encoded is shown to a decoder, as far as the data reaches      *)
(* (Shows); reading it back succeeds just if it is all there, and ends     *)
(* behind it (Shown).  Both are passed on from what is written first to    *)
(* what comes behind it, element by element and member by member, with     *)
(* what has been assigned so far.                                          *)
(***************************************************************************)
EXTENDS TypeContract, CdrOps_proofs, WellFoundedInduction

-----------------------------------------------------------------------------
(***************************************************************************)
(* Counting                                                                *)
(***************************************************************************)
LEMMA LessIsWellFounded ==
  IsWellFoundedOn({p \in Nat \X Nat : p[1] < p[2]}, Nat)
BY NatLessThanWellFounded DEF OpToRel

\* Induction: what holds of 0 and, of each number, passes to the next, holds
\* of all up to n.
LEMMA CountingUp ==
  ASSUME NEW n \in Nat, NEW Q, 0 \in Q, \A i \in 1 .. n : i - 1 \in Q => i \in Q
  PROVE  \A i \in 0 .. n : i \in Q
<1> DEFINE T == {i \in 0 .. n : i \notin Q}
<1> SUFFICES ASSUME T # {}
             PROVE  FALSE
  OBVIOUS
<1>1. T \subseteq Nat
  OBVIOUS
<1> HIDE DEF T
<1>2. PICK x \in T : \A y \in T : <<y, x>> \notin {p \in Nat \X Nat : p[1] < p[2]}
  BY <1>1, LessIsWellFounded, WFMin
<1>3. x \in 0 .. n /\ x \notin Q
  BY DEF T
<1>4. x \in 1 .. n
  BY <1>3
<1>5. x - 1 \in T /\ x - 1 \in Nat /\ x \in Nat /\ x - 1 < x
  BY <1>3, <1>4 DEF T
<1> QED
  BY <1>2, <1>5

-----------------------------------------------------------------------------
(***************************************************************************)
(* What was written, seen by a decoder                                     *)
(***************************************************************************)
LEMMA PadSame ==
  ASSUME NEW a \in Nat, NEW b \in Nat, a % 4 = b % 4, NEW n \in {1, 2, 4, 8}
  PROVE  Pad(a, n) = Pad(b, n)
<1>1. n = 1 \/ n = 2 \/ n = 4 \/ n = 8
  OBVIOUS
<1>2. a % 1 = b % 1 /\ a % 2 = b % 2
  OBVIOUS
<1> QED
  BY <1>1, <1>2 DEF Pad, Cap

LEMMA ExtendsItself ==
  ASSUME NEW e, Full(e)
  PROVE  Extends(e, e)
BY DEF Full, Extends, Encoders

LEMMA SliceElements ==
  ASSUME NEW s \in Seq(Byte), NEW from \in Nat, NEW n \in Nat, from + n <= Len(s),
         NEW i \in 1 .. n
  PROVE  Slice(s, from, from + n)[i] = s[from + i]
<1>1. from + 1 \in 1 .. Len(s) + 1 /\ from + n \in from .. Len(s)
  OBVIOUS
<1>2. i \in 1 .. (from + n) - (from + 1) + 1 /\ (from + 1) + i - 1 = from + i
  OBVIOUS
<1> QED
  BY <1>1, <1>2 DEF Slice

\* A scalar whose bytes are in the data is read.
LEMMA ScalarThere ==
  ASSUME NEW d \in Decoders, NEW w \in Seq(Byte), Len(w) \in {1, 2, 4, 8},
         NEW p \in Nat, p = d.pos + Pad(d.pos, Len(w)),
         \A i \in 1 .. Len(w) : p + i <= Len(d.data) => d.data[p + i] = Put(d.order, w)[i]
  PROVE  LET r == ReadScalar(d, Len(w))
         IN  /\ r.ok \in BOOLEAN
             /\ r.ok <=> p + Len(w) <= Len(d.data)
             /\ r.ok => r.d = At(d, p + Len(w)) /\ r.v = w
<1> DEFINE r == ReadScalar(d, Len(w))
           b == Put(d.order, w)
<1>1. /\ r.ok \in BOOLEAN
      /\ r.ok <=> p + Len(w) <= Len(d.data)
      /\ r.ok => /\ r.d = At(d, p + Len(w))
                 /\ r.v = Get(d.order, Slice(d.data, p, p + Len(w)))
  BY ScalarFound
<1>2. d.order \in ByteOrders /\ d.data \in Seq(Byte)
  BY DEF Decoders
<1>3. b \in Seq(Byte) /\ Len(b) = Len(w) /\ Get(d.order, b) = w
  BY <1>2, PutType
<1> HIDE DEF r, b
<1>4. ASSUME p + Len(w) <= Len(d.data)
      PROVE  Slice(d.data, p, p + Len(w)) = b
  <2> DEFINE s == Slice(d.data, p, p + Len(w))
  <2>1. s \in Seq(Byte) /\ Len(s) = Len(w)
    BY <1>2, <1>4, SliceType
  <2>2. ASSUME NEW i \in 1 .. Len(w)
        PROVE  s[i] = b[i]
    <3>1. s[i] = d.data[p + i]
      BY <1>2, <1>4, <2>1, SliceElements
    <3>2. p + i <= Len(d.data)
      BY <1>2, <1>4
    <3> QED
      BY <3>1, <3>2 DEF b
  <2> HIDE DEF s
  <2> QED
    BY <1>3, <2>1, <2>2 DEF s
<1> QED
  BY <1>1, <1>3, <1>4 DEF r

\* The bytes a scalar adds.
LEMMA ScalarBytes ==
  ASSUME NEW e, Full(e), NEW w \in Seq(Byte), Len(w) > 0
  PROVE  LET f == WriteScalar(e, w)
             n == Pad(e.pos, Len(w))
         IN  /\ Full(f) /\ Extends(e, f) /\ n \in Nat /\ f.pos = e.pos + n + Len(w)
             /\ \A i \in 1 .. Len(w) : f.buf[e.pos + n + i] = Put(e.order, w)[i]
<1> DEFINE f == WriteScalar(e, w)
           n == Pad(e.pos, Len(w))
           a == EncAlign(e, Len(w))
           b == Put(e.order, w)
<1>1. e \in Encoders /\ e.pos = Len(e.buf) /\ e.order \in ByteOrders /\ e.buf \in Seq(Byte)
      /\ e.pos \in Nat
  BY DEF Full, Encoders
<1>2. Extends(e, f) /\ f.pos = e.pos + n + Len(w)
  BY <1>1, ScalarExtends
<1>3. Full(f)
  BY <1>2 DEF Extends, Full
<1>4. n \in Nat /\ Zeros(n) \in Seq(Byte) /\ Len(Zeros(n)) = n
  <2>1. Len(w) \in Nat \ {0}
    OBVIOUS
  <2> QED
    BY <1>1, <2>1, PadType
<1>5. b \in Seq(Byte) /\ Len(b) = Len(w)
  BY <1>1, PutType
<1>6. f.buf = (e.buf \o Zeros(n)) \o b
  BY DEF WriteScalar, WriteRaw, Advance, EncAlign
<1> HIDE DEF f, n, a, b
<1>7. ASSUME NEW i \in 1 .. Len(w)
      PROVE  f.buf[e.pos + n + i] = b[i]
  <2>1. e.buf \o Zeros(n) \in Seq(Byte) /\ Len(e.buf \o Zeros(n)) = e.pos + n
    BY <1>1, <1>4
  <2>2. i \in 1 .. Len(b)
    BY <1>5
  <2>3. f.buf[Len(e.buf \o Zeros(n)) + i] = b[i]
    BY <1>5, <1>6, <2>1, <2>2, ConcatElements, SMTT(40)
  <2> QED
    BY <2>1, <2>3
<1> QED
  BY <1>2, <1>3, <1>4, <1>7 DEF f, n, b

LEMMA ScalarShown ==
  ASSUME NEW e, Full(e), NEW w \in Seq(Byte), Len(w) \in {1, 2, 4, 8},
         NEW d, Shows(e, WriteScalar(e, w), d)
  PROVE  LET r == ReadScalar(d, Len(w))
         IN  Shown(e, WriteScalar(e, w), d, r) /\ (r.ok => r.v = w)
<1> DEFINE f == WriteScalar(e, w)
           n == Pad(e.pos, Len(w))
           r == ReadScalar(d, Len(w))
<1>1. /\ n \in Nat /\ f.pos = e.pos + n + Len(w)
      /\ \A i \in 1 .. Len(w) : f.buf[e.pos + n + i] = Put(e.order, w)[i]
  BY ScalarBytes
<1>2. /\ d \in Decoders /\ d.order = e.order /\ d.pos % 4 = e.pos % 4
      /\ d.pos \in Nat /\ e.pos \in Nat /\ d.data \in Seq(Byte)
  BY DEF Shows, Full, Encoders, Decoders
<1>3. Pad(d.pos, Len(w)) = n
  BY <1>2, PadSame
<1>4. \A i \in 1 .. f.pos - e.pos :
        d.pos + i <= Len(d.data) => d.data[d.pos + i] = f.buf[e.pos + i]
  BY DEF Shows
<1> HIDE DEF f, n, r
<1>5. ASSUME NEW i \in 1 .. Len(w), d.pos + n + i <= Len(d.data)
      PROVE  d.data[d.pos + n + i] = Put(d.order, w)[i]
  <2>1. /\ n + i \in 1 .. f.pos - e.pos
        /\ d.pos + (n + i) = d.pos + n + i /\ e.pos + (n + i) = e.pos + n + i
    BY <1>1, <1>2
  <2>2. d.data[d.pos + (n + i)] = f.buf[e.pos + (n + i)]
    BY <1>4, <1>5, <2>1
  <2> QED
    BY <1>1, <1>2, <2>1, <2>2
<1>6. /\ r.ok \in BOOLEAN
      /\ r.ok <=> d.pos + n + Len(w) <= Len(d.data)
      /\ r.ok => r.d = At(d, d.pos + n + Len(w)) /\ r.v = w
  <2>1. d.pos + n \in Nat
    BY <1>1, <1>2
  <2> QED
    BY <1>2, <1>3, <1>5, <2>1, ScalarThere DEF r
<1>7. End(e, f, d) = d.pos + n + Len(w)
  BY <1>1, <1>2 DEF End
<1> QED
  BY <1>6, <1>7 DEF Shown, f, r

LEMMA NextWord ==
  ASSUME NEW a \in Nat, NEW n \in 0 .. 3, (a + n) % 4 = 0, NEW b, b = a + n + 4
  PROVE  b % 4 = 0 /\ b \in Nat /\ a + 4 <= b
OBVIOUS

LEMMA Shifted ==
  ASSUME NEW a \in Nat, NEW b \in Nat, NEW c \in Nat, c <= b, a % 4 = c % 4
  PROVE  a + (b - c) \in Nat /\ a <= a + (b - c) /\ (a + (b - c)) % 4 = b % 4
OBVIOUS

\* What took e to f and what took f to g.
LEMMA ShowsSplits ==
  ASSUME NEW e, Full(e), NEW f, Extends(e, f), NEW g, Extends(f, g),
         NEW d, Shows(e, g, d)
  PROVE  /\ Full(f) /\ Full(g) /\ e.pos <= f.pos /\ f.pos <= g.pos
         /\ Shows(e, f, d)
         /\ End(e, f, d) \in Nat /\ d.pos <= End(e, f, d) /\ End(e, f, d) <= End(e, g, d)
         /\ End(e, f, d) <= Len(d.data) =>
              /\ Shows(f, g, At(d, End(e, f, d)))
              /\ End(f, g, At(d, End(e, f, d))) = End(e, g, d)
<1> DEFINE p == End(e, f, d)
<1>1. /\ e \in Encoders /\ e.pos = Len(e.buf) /\ e.pos \in Nat
      /\ f \in Encoders /\ f.pos = Len(f.buf) /\ f.pos \in Nat
      /\ g \in Encoders /\ g.pos = Len(g.buf) /\ g.pos \in Nat
      /\ e.pos <= f.pos /\ f.pos <= g.pos /\ f.order = e.order
      /\ \A i \in 1 .. Len(f.buf) : g.buf[i] = f.buf[i]
  BY DEF Full, Extends, Encoders
<1>2. /\ d \in Decoders /\ d.order = e.order /\ d.pos \in Nat /\ d.data \in Seq(Byte)
      /\ d.pos % 4 = e.pos % 4 /\ d.pos <= Len(d.data)
      /\ \A i \in 1 .. g.pos - e.pos :
           d.pos + i <= Len(d.data) => d.data[d.pos + i] = g.buf[e.pos + i]
  BY DEF Shows, Decoders
<1>9. /\ e.pos \in Nat /\ f.pos \in Nat /\ g.pos \in Nat /\ d.pos \in Nat
      /\ e.pos <= f.pos /\ f.pos <= g.pos
  BY <1>1, <1>2
<1>0. p = d.pos + (f.pos - e.pos) /\ End(e, g, d) = d.pos + (g.pos - e.pos)
  BY DEF End
<1> HIDE DEF p
<1>3. p \in Nat /\ d.pos <= p /\ p <= End(e, g, d) /\ p % 4 = f.pos % 4
  <2>1. p \in Nat /\ d.pos <= p /\ p % 4 = f.pos % 4
    BY <1>0, <1>1, <1>2, Shifted
  <2> QED
    BY <1>0, <1>9, <2>1
<1>4. Shows(e, f, d)
  <2>1. ASSUME NEW i \in 1 .. f.pos - e.pos, d.pos + i <= Len(d.data)
        PROVE  d.data[d.pos + i] = f.buf[e.pos + i]
    <3>1. i \in 1 .. g.pos - e.pos /\ e.pos + i \in 1 .. Len(f.buf)
      BY <1>1
    <3> QED
      BY <1>1, <1>2, <2>1, <3>1
  <2> QED
    BY <1>2, <2>1 DEF Shows
<1> DEFINE h == At(d, p)
<1>5. h \in Decoders /\ h.data = d.data /\ h.pos = p /\ h.order = d.order
  BY <1>2, <1>3 DEF At, Decoders
<1>6. ASSUME p <= Len(d.data)
      PROVE  Shows(f, g, h)
  <2>1. ASSUME NEW i \in 1 .. g.pos - f.pos, p + i <= Len(d.data)
        PROVE  d.data[p + i] = g.buf[f.pos + i]
    <3>1. /\ (f.pos - e.pos) + i \in 1 .. g.pos - e.pos
          /\ d.pos + ((f.pos - e.pos) + i) = p + i /\ e.pos + ((f.pos - e.pos) + i) = f.pos + i
      <4>1. i \in 1 .. g.pos - f.pos
        OBVIOUS
      <4> QED
        BY <1>0, <1>9, <4>1
    <3> QED
      BY <1>2, <2>1, <3>1
  <2> HIDE DEF h, p
  <2> QED
    BY <1>1, <1>2, <1>3, <1>5, <1>6, <2>1 DEF Shows
<1>7. End(f, g, h) = End(e, g, d)
  <2>1. End(f, g, h) = p + (g.pos - f.pos)
    BY <1>5 DEF End
  <2> QED
    BY <1>0, <1>9, <2>1
<1>8. Full(f) /\ Full(g)
  BY <1>1 DEF Full
<1> QED
  BY <1>1, <1>3, <1>4, <1>6, <1>7, <1>8 DEF p

LEMMA BoolShown ==
  ASSUME NEW e, Full(e), NEW v \in Booleans, NEW d, Shows(e, WriteBool(e, v), d)
  PROVE  /\ Extends(e, WriteBool(e, v))
         /\ Shown(e, WriteBool(e, v), d, ReadBool(d))
         /\ ReadBool(d).ok => ReadBool(d).v = v
<1> DEFINE f == WriteBool(e, v)
           r == ReadScalar(d, 1)
<1>1. v \in Seq(Byte) /\ Len(v) = 1 /\ f = WriteScalar(e, v)
  BY BoolIsScalar DEF Full
<1>2. Extends(e, f)
  BY <1>1, ScalarBytes
<1>3. Shown(e, f, d, r) /\ (r.ok => r.v = v)
  <2>1. Shows(e, WriteScalar(e, v), d) /\ Len(v) \in {1, 2, 4, 8}
    BY <1>1
  <2> QED
    BY <1>1, <2>1, ScalarShown
<1>4. ReadBool(d) = IF r.ok THEN Got(r.d, v) ELSE r
  <2>1. v = <<0>> \/ v = <<1>>
    BY DEF Booleans
  <2> QED
    BY <1>3, <2>1 DEF ReadBool
<1> HIDE DEF f, r
<1>5. CASE r.ok
  BY <1>2, <1>3, <1>4, <1>5 DEF Shown, Got, f
<1>6. CASE ~r.ok
  BY <1>2, <1>3, <1>4, <1>6 DEF f
<1> QED
  BY <1>5, <1>6

\* Raw bytes are there, to be taken or passed over.
LEMMA RawShown ==
  ASSUME NEW e, Full(e), NEW bytes \in Seq(Byte), NEW d, Shows(e, WriteRaw(e, bytes), d)
  PROVE  /\ Extends(e, WriteRaw(e, bytes))
         /\ WriteRaw(e, bytes).pos = e.pos + Len(bytes)
         /\ End(e, WriteRaw(e, bytes), d) = d.pos + Len(bytes)
         /\ \A i \in 1 .. Len(bytes) : WriteRaw(e, bytes).buf[e.pos + i] = bytes[i]
         /\ \A i \in 1 .. Len(bytes) :
              d.pos + i <= Len(d.data) => d.data[d.pos + i] = bytes[i]
         /\ Shown(e, WriteRaw(e, bytes), d, Skip(d, Len(bytes)))
<1> DEFINE f == WriteRaw(e, bytes)
<1>1. /\ e \in Encoders /\ e.pos = Len(e.buf) /\ e.buf \in Seq(Byte) /\ e.pos \in Nat
      /\ d.pos \in Nat /\ d.data \in Seq(Byte) /\ d \in Decoders
  BY DEF Full, Encoders, Shows, Decoders
<1>2. Extends(e, f) /\ f.pos = e.pos + Len(bytes)
  BY <1>1, AdvanceExtends DEF WriteRaw
<1>3. f.buf = e.buf \o bytes
  BY DEF WriteRaw, Advance
<1>4. \A i \in 1 .. f.pos - e.pos :
        d.pos + i <= Len(d.data) => d.data[d.pos + i] = f.buf[e.pos + i]
  BY DEF Shows
<1> HIDE DEF f
<1>5. f.pos - e.pos = Len(bytes) /\ End(e, f, d) = d.pos + Len(bytes)
  BY <1>1, <1>2 DEF End
<1>6. ASSUME NEW i \in 1 .. Len(bytes)
      PROVE  f.buf[e.pos + i] = bytes[i]
  BY <1>1, <1>3, ConcatElements
<1>7. Shown(e, f, d, Skip(d, Len(bytes)))
  BY <1>1, <1>5 DEF Shown, Skip, CheckRemaining, Got, Failed, Past, At
<1> QED
  BY <1>2, <1>4, <1>5, <1>6, <1>7 DEF f

LEMMA StringShown ==
  ASSUME NEW e, Full(e), NEW s \in Seq(Byte), Len(s) + 1 \in Uint32,
         NEW d, Shows(e, WriteString(e, s), d)
  PROVE  /\ Extends(e, WriteString(e, s))
         /\ Shown(e, WriteString(e, s), d, ReadString(d))
         /\ ReadString(d).ok => ReadString(d).v = s
<1> DEFINE n == Len(s) + 1
           l == WriteScalar(e, Word(n))
           f == WriteString(e, s)
           r == ReadScalar(d, 4)
           h == At(d, End(e, l, d))
<1>1. n \in Nat /\ Word(n) \in Seq(Byte) /\ Len(Word(n)) = 4 /\ Num(Word(n)) = n
  BY WordType, NumOfWord DEF Uint32
<1>2. s \o <<0>> \in Seq(Byte) /\ Len(s \o <<0>>) = n
      /\ \A i \in 1 .. Len(s) : (s \o <<0>>)[i] = s[i]
  BY DEF Byte
<1>3. Full(l) /\ Extends(e, l)
  <2> HIDE DEF n
  <2>1. Len(Word(n)) > 0
    BY <1>1
  <2> QED
    BY <1>1, <2>1, ScalarBytes
<1>4. f = WriteRaw(l, s \o <<0>>)
  BY <1>2 DEF WriteString, WriteRaw
<1> HIDE DEF l, f, r, n
<1>5. Extends(l, f)
  <2>1. l \in Encoders /\ l.pos = Len(l.buf)
    BY <1>3 DEF Full
  <2> QED
    BY <1>2, <1>4, <2>1, AdvanceExtends DEF WriteRaw
<1>6. Shows(e, f, d)
  BY DEF f
<1>7. /\ Shows(e, l, d) /\ End(e, l, d) \in Nat /\ End(e, l, d) <= End(e, f, d)
      /\ End(e, f, d) \in Nat
      /\ End(e, l, d) <= Len(d.data) => Shows(l, f, h) /\ End(l, f, h) = End(e, f, d)
  <2>1. Extends(e, f) /\ Extends(f, f)
    BY <1>3, <1>5, ExtendsTransitive, ExtendsItself DEF Full, Extends
  <2> QED
    BY <1>3, <1>5, <1>6, <2>1, ShowsSplits
<1>8. Shown(e, l, d, r) /\ (r.ok => r.v = Word(n))
  <2>1. Len(Word(n)) \in {1, 2, 4, 8}
    BY <1>1
  <2> QED
    BY <1>1, <1>7, <2>1, ScalarShown DEF l, r
<1>11. Extends(e, f)
  BY <1>3, <1>5, ExtendsTransitive DEF Full
<1>9. CASE ~r.ok
  <2>1. ReadString(d) = r
    BY <1>9 DEF ReadString, StringBehind, r
  <2>2. ~(End(e, f, d) <= Len(d.data))
    <3>1. Len(d.data) \in Nat
      BY DEF Shows, Decoders
    <3> QED
      BY <1>7, <1>8, <1>9, <3>1 DEF Shown
  <2>3. Shown(e, f, d, r)
    BY <1>8, <1>9, <2>2 DEF Shown
  <2> QED
    BY <1>9, <1>11, <2>1, <2>3 DEF f
<1>10. CASE r.ok
  <2>1. r.d = h /\ Num(r.v) = n /\ n # 0 /\ n - 1 = Len(s)
    BY <1>1, <1>8, <1>10 DEF Shown, n
  <2>2. /\ Shows(l, f, h) /\ End(l, f, h) = End(e, f, d) /\ h.data = d.data
        /\ h.pos \in Nat /\ h.data \in Seq(Byte)
    BY <1>7, <1>8, <1>10 DEF Shown, Shows, At, Decoders
  <2>3. /\ End(l, f, h) = h.pos + n
        /\ \A i \in 1 .. n : h.pos + i <= Len(h.data) => h.data[h.pos + i] = (s \o <<0>>)[i]
    <3>1. Shows(l, WriteRaw(l, s \o <<0>>), h)
      BY <1>4, <2>2
    <3>2. /\ End(l, WriteRaw(l, s \o <<0>>), h) = h.pos + Len(s \o <<0>>)
          /\ \A i \in 1 .. Len(s \o <<0>>) :
               h.pos + i <= Len(h.data) => h.data[h.pos + i] = (s \o <<0>>)[i]
      <4> HIDE DEF h
      <4> DEFINE b == s \o <<0>>
      <4>1. b \in Seq(Byte) /\ Shows(l, WriteRaw(l, b), h)
        BY <1>2, <3>1
      <4> HIDE DEF b
      <4>2. /\ End(l, WriteRaw(l, b), h) = h.pos + Len(b)
            /\ \A i \in 1 .. Len(b) : h.pos + i <= Len(h.data) => h.data[h.pos + i] = b[i]
        BY <1>3, <4>1, RawShown
      <4> QED
        BY <4>2 DEF b
    <3> QED
      BY <1>2, <1>4, <3>2
  <2> HIDE DEF h
  <2> DEFINE x == Slice(h.data, h.pos, h.pos + n - 1)
  <2>4. ReadString(d) = IF h.pos + n <= Len(h.data) THEN Got(Past(h, n), x) ELSE Failed(h)
    BY <1>10, <2>1 DEF ReadString, StringBehind, CheckRemaining, r
  <2>5. ASSUME h.pos + n <= Len(h.data)
        PROVE  x = s
    <3>1. h.pos + n - 1 = h.pos + Len(s) /\ h.pos + Len(s) <= Len(h.data)
      BY <1>1, <2>1, <2>2, <2>5
    <3>2. x \in Seq(Byte) /\ Len(x) = Len(s)
      BY <2>2, <3>1, SliceType
    <3>3. ASSUME NEW i \in 1 .. Len(s)
          PROVE  x[i] = s[i]
      <4>1. x[i] = h.data[h.pos + i]
        BY <2>2, <3>1, SliceElements
      <4>2. i \in 1 .. n /\ h.pos + i <= Len(h.data)
        BY <1>1, <2>1, <2>2, <2>5
      <4> QED
        BY <1>2, <2>3, <4>1, <4>2
    <3> HIDE DEF x
    <3> QED
      BY <3>2, <3>3
  <2> HIDE DEF x
  <2>6. Past(h, n) = At(d, End(e, f, d))
    BY <2>2, <2>3 DEF Past, At, h
  <2> DEFINE y == ReadString(d)
  <2>7. CASE h.pos + n <= Len(h.data)
    <3>1. y = Got(At(d, End(e, f, d)), s)
      BY <2>4, <2>5, <2>6, <2>7
    <3> HIDE DEF y
    <3>2. Shown(e, f, d, y) /\ y.v = s
      BY <2>2, <2>3, <2>7, <3>1 DEF Shown, Got
    <3> QED
      BY <1>11, <3>2 DEF f, y
  <2>8. CASE ~(h.pos + n <= Len(h.data))
    <3>1. y = Failed(h)
      BY <2>4, <2>8
    <3> HIDE DEF y
    <3>2. Shown(e, f, d, y) /\ ~y.ok
      BY <2>2, <2>3, <2>8, <3>1 DEF Shown, Failed
    <3> QED
      BY <1>11, <3>2 DEF f, y
  <2> QED
    BY <2>7, <2>8
<1> QED
  BY <1>9, <1>10

\* The size a header says is the one it was written with.
LEMMA SizeOfCode ==
  ASSUME NEW size \in Nat
  PROVE  MemberSize(LengthCode(size), IF LengthCode(size) = 4 THEN size ELSE 0) = size
<1>1. CASE \E lc \in 0 .. 3 : CompactSizes[lc + 1] = size
  <2>1. LengthCode(size) \in 0 .. 3 /\ CompactSizes[LengthCode(size) + 1] = size
    BY <1>1 DEF LengthCode
  <2> QED
    BY <2>1 DEF MemberSize
<1>2. CASE ~\E lc \in 0 .. 3 : CompactSizes[lc + 1] = size
  <2>1. LengthCode(size) = 4
    BY <1>2 DEF LengthCode
  <2> QED
    BY <2>1 DEF MemberSize
<1> QED
  BY <1>1, <1>2

LEMMA EMHeaderShown ==
  ASSUME NEW e, Full(e), NEW id \in 0 .. MaxMemberID - 1, NEW size \in Uint32
  PROVE  LET f == WriteEMHeader(e, 0, id, size)
         IN  /\ Extends(e, f) /\ f.pos % 4 = 0 /\ e.pos + 4 <= f.pos
             /\ \A d : Shows(e, f, d) =>
                  LET r == ReadEMHeader(d)
                  IN  /\ Shown(e, f, d, r)
                      /\ r.ok => r.v[3] = id /\ MemberSize(r.v[2], r.v[4]) = size
<1> DEFINE lc == LengthCode(size)
           w == EMWord(0, lc, id)
           n == Word(size)
           h == WriteScalar(e, w)
           f == WriteEMHeader(e, 0, id, size)
           x == IF lc = 4 THEN size ELSE 0
<1>1. lc \in 0 .. 4 /\ size \in Nat
  BY LengthCodeType DEF Uint32
<1>2. f = IF lc = 4 THEN WriteScalar(h, n) ELSE h
  BY DEF WriteEMHeader
<1>3. MemberSize(lc, x) = size
  BY <1>1, SizeOfCode
<1> HIDE DEF lc
<1>4. w \in Seq(Byte) /\ Len(w) = 4
  <2>1. id \in Nat
    BY MemberIDs
  <2> QED
    BY <1>1, <2>1, EMWordType
<1>5. (w[1] \div 16) % 8 = lc /\ \A y : EMHeader(w, y) = <<0, lc, id, y>>
  BY <1>1, EMHeaderOfWord
<1>6. n \in Seq(Byte) /\ Len(n) = 4 /\ Num(n) = size
  BY WordType, NumOfWord DEF Uint32
<1> HIDE DEF w, n, h, f
<1>7. Full(h) /\ Extends(e, h) /\ h.pos = e.pos + Pad(e.pos, 4) + 4 /\ e.pos \in Nat
  <2>1. Len(w) > 0
    BY <1>4
  <2>2. e.pos \in Nat
    BY DEF Full, Encoders
  <2> QED
    BY <1>4, <2>1, <2>2, ScalarBytes DEF h
<1>8. h.pos % 4 = 0 /\ e.pos + 4 <= h.pos /\ h.pos \in Nat
  <2>1. Pad(e.pos, 4) \in 0 .. 3 /\ (e.pos + Pad(e.pos, 4)) % 4 = 0
    BY <1>7, PadAligns
  <2> QED
    BY <1>7, <2>1, NextWord
<1>9. CASE lc # 4
  <2>1. f = h
    BY <1>2, <1>9
  <2>2. ASSUME NEW d, Shows(e, f, d)
        PROVE  LET r == ReadEMHeader(d)
               IN  /\ Shown(e, f, d, r)
                   /\ r.ok => r.v[3] = id /\ MemberSize(r.v[2], r.v[4]) = size
    <3> DEFINE r == ReadEMHeader(d)
               g == ReadScalar(d, 4)
    <3>1. Shown(e, h, d, g) /\ (g.ok => g.v = w)
      <4>1. Shows(e, WriteScalar(e, w), d) /\ Len(w) \in {1, 2, 4, 8}
        BY <1>4, <2>1, <2>2 DEF h
      <4> QED
        BY <1>4, <4>1, ScalarShown DEF h
    <3>2. r = EMHeaderBehind(g)
      BY DEF ReadEMHeader
    <3> HIDE DEF g, r
    <3>3. CASE g.ok
      <4>1. r = Got(g.d, <<0, lc, id, 0>>)
        BY <1>1, <1>5, <1>9, <3>1, <3>2, <3>3 DEF EMHeaderBehind
      <4> QED
        BY <1>3, <1>9, <2>1, <3>1, <3>3, <4>1 DEF Got, Shown, r
    <3>4. CASE ~g.ok
      <4>1. r = g
        BY <3>2, <3>4 DEF EMHeaderBehind
      <4> QED
        BY <2>1, <3>1, <3>4, <4>1 DEF r
    <3> QED
      BY <3>3, <3>4
  <2> QED
    BY <1>7, <1>8, <2>1, <2>2 DEF f
<1>10. CASE lc = 4
  <2>1. f = WriteScalar(h, n)
    BY <1>2, <1>10
  <2>2. /\ Full(f) /\ Extends(h, f) /\ f.pos = h.pos + Pad(h.pos, 4) + 4
        /\ Extends(e, f)
    <3>1. Len(n) > 0
      BY <1>6
    <3>2. Full(f) /\ Extends(h, f) /\ f.pos = h.pos + Pad(h.pos, 4) + 4
      BY <1>6, <1>7, <2>1, <3>1, ScalarBytes
    <3> QED
      BY <1>7, <3>2, ExtendsTransitive DEF Full
  <2>3. f.pos % 4 = 0 /\ e.pos + 4 <= f.pos
    <3>1. Pad(h.pos, 4) \in 0 .. 3 /\ (h.pos + Pad(h.pos, 4)) % 4 = 0
      BY <1>8, PadAligns
    <3>2. f.pos % 4 = 0 /\ h.pos + 4 <= f.pos
      BY <1>8, <2>2, <3>1, NextWord
    <3>3. e.pos + 4 <= h.pos /\ f.pos \in Nat
      BY <1>8, <2>2 DEF Full, Encoders
    <3> QED
      BY <1>7, <1>8, <3>2, <3>3
  <2>4. ASSUME NEW d, Shows(e, f, d)
        PROVE  LET r == ReadEMHeader(d)
               IN  /\ Shown(e, f, d, r)
                   /\ r.ok => r.v[3] = id /\ MemberSize(r.v[2], r.v[4]) = size
    <3> DEFINE r == ReadEMHeader(d)
               g == ReadScalar(d, 4)
               i == At(d, End(e, h, d))
               k == ReadScalar(i, 4)
    <3>1. /\ Shows(e, h, d) /\ End(e, h, d) \in Nat /\ End(e, h, d) <= End(e, f, d)
          /\ End(e, h, d) <= Len(d.data) => Shows(h, f, i) /\ End(h, f, i) = End(e, f, d)
      BY <1>7, <2>2, <2>4, ShowsSplits
    <3>2. Shown(e, h, d, g) /\ (g.ok => g.v = w)
      <4>1. Shows(e, WriteScalar(e, w), d) /\ Len(w) \in {1, 2, 4, 8}
        BY <1>4, <3>1 DEF h
      <4> QED
        BY <1>4, <4>1, ScalarShown DEF h
    <3>3. r = EMHeaderBehind(g)
      BY DEF ReadEMHeader
    <3>4. Shows(h, f, i) => Shown(h, f, i, k) /\ (k.ok => k.v = n)
      <4>1. Len(n) \in {1, 2, 4, 8}
        BY <1>6
      <4> QED
        BY <1>6, <1>7, <2>1, <4>1, ScalarShown
    <3>5. i.data = d.data /\ d.data \in Seq(Byte) /\ \A p : At(i, p) = At(d, p)
      BY <2>4 DEF At, Shows, Decoders
    <3>6. Len(d.data) \in Nat /\ End(e, f, d) \in Nat
      <4>1. Extends(f, f)
        BY <2>2, ExtendsItself
      <4> QED
        BY <2>2, <2>4, <3>5, <4>1, ShowsSplits
    <3>7. CASE g.ok /\ k.ok
      <4>1. g.d = i /\ Shows(h, f, i)
        BY <3>1, <3>2, <3>7 DEF Shown
      <4> HIDE DEF i, g
      <4>2. r = NextIntBehind(w, k)
        BY <1>5, <1>10, <3>2, <3>3, <3>7, <4>1 DEF EMHeaderBehind
      <4> HIDE DEF k, r
      <4>3. r = Got(k.d, <<0, lc, id, size>>)
        BY <1>5, <1>6, <3>4, <3>7, <4>1, <4>2 DEF NextIntBehind
      <4>4. k.d = At(d, End(e, f, d)) /\ End(e, f, d) <= Len(d.data)
        BY <3>1, <3>2, <3>4, <3>5, <3>7, <4>1 DEF Shown
      <4> QED
        BY <1>3, <1>10, <4>3, <4>4 DEF Got, Shown, r
    <3>8. CASE g.ok /\ ~k.ok
      <4>1. g.d = i /\ Shows(h, f, i)
        BY <3>1, <3>2, <3>8 DEF Shown
      <4> HIDE DEF i, g
      <4>2. r = NextIntBehind(w, k)
        BY <1>5, <1>10, <3>2, <3>3, <3>8, <4>1 DEF EMHeaderBehind
      <4> HIDE DEF k, r
      <4>3. r = k
        BY <3>8, <4>2 DEF NextIntBehind
      <4>4. ~(End(e, f, d) <= Len(d.data))
        BY <3>1, <3>2, <3>4, <3>5, <3>8, <4>1 DEF Shown
      <4>5. ~r.ok /\ r.ok \in BOOLEAN
        BY <3>4, <3>8, <4>1, <4>3 DEF Shown
      <4> QED
        BY <4>4, <4>5 DEF Shown, r
    <3>9. CASE ~g.ok
      <4>1. r = g
        BY <3>3, <3>9 DEF EMHeaderBehind
      <4>2. ~(End(e, f, d) <= Len(d.data))
        BY <3>1, <3>2, <3>6, <3>9 DEF Shown
      <4> HIDE DEF g, r
      <4>3. ~r.ok /\ r.ok \in BOOLEAN
        BY <3>2, <3>9, <4>1 DEF Shown
      <4> QED
        BY <4>2, <4>3 DEF Shown, r
    <3> QED
      BY <3>7, <3>8, <3>9
  <2> QED
    BY <2>2, <2>3, <2>4 DEF f
<1> QED
  BY <1>9, <1>10

\* A value in bytes that an encoder of its own wrote.
LEMMA SubShown ==
  ASSUME NEW e, Full(e), e.pos % 4 = 0, NEW f, Extends(NewRawEncoder(e.order), f)
  PROVE  /\ Full(NewRawEncoder(e.order)) /\ f.buf \in Seq(Byte)
         /\ WriteRaw(e, f.buf).pos = e.pos + Len(f.buf)
         /\ \A d : Shows(e, WriteRaw(e, f.buf), d) =>
              /\ Shows(NewRawEncoder(e.order), f, d)
              /\ End(NewRawEncoder(e.order), f, d) = End(e, WriteRaw(e, f.buf), d)
<1> DEFINE z == NewRawEncoder(e.order)
           g == WriteRaw(e, f.buf)
<1>1. e \in Encoders /\ e.order \in ByteOrders /\ e.pos = Len(e.buf)
  BY DEF Full, Encoders
<1>2. z \in Encoders /\ z.pos = 0 /\ z.order = e.order /\ Len(z.buf) = 0 /\ Full(z)
  BY <1>1 DEF NewRawEncoder, Encoders, Full
<1>3. f.buf \in Seq(Byte) /\ f.pos = Len(f.buf)
  BY DEF Extends, Encoders
<1>4. g.pos = e.pos + Len(f.buf)
  BY DEF WriteRaw, Advance
<1> HIDE DEF z, g
<1>5. ASSUME NEW d, Shows(e, g, d)
      PROVE  Shows(z, f, d) /\ End(z, f, d) = End(e, g, d)
  <2>1. d.pos \in Nat /\ e.pos \in Nat /\ Len(f.buf) \in Nat
    BY <1>1, <1>3, <1>5 DEF Shows, Decoders, Encoders
  <2>2. \A i \in 1 .. Len(f.buf) : d.pos + i <= Len(d.data) => d.data[d.pos + i] = f.buf[i]
    BY <1>3, <1>5, RawShown DEF g
  <2>3. f.pos - z.pos = Len(f.buf) /\ g.pos - e.pos = Len(f.buf)
    BY <1>2, <1>3, <1>4, <2>1
  <2>4. End(z, f, d) = End(e, g, d)
    BY <2>3 DEF End
  <2>5. ASSUME NEW i \in 1 .. f.pos - z.pos, d.pos + i <= Len(d.data)
        PROVE  d.data[d.pos + i] = f.buf[z.pos + i]
    <3>1. i \in 1 .. Len(f.buf) /\ z.pos + i = i
      BY <1>2, <2>3, <2>5
    <3> QED
      BY <2>2, <2>5, <3>1
  <2>6. d.pos % 4 = z.pos % 4
    BY <1>2, <1>5 DEF Shows
  <2> QED
    BY <1>2, <1>5, <2>4, <2>5, <2>6 DEF Shows
<1> QED
  BY <1>2, <1>3, <1>4, <1>5 DEF z, g

LEMMA LessIsUint32 ==
  ASSUME NEW m \in Uint32, NEW n \in Nat, n <= m
  PROVE  n \in Uint32
<1>1. m \in Nat /\ m \div 65536 < 65536
  BY DEF Uint32
<1>2. n \div 65536 <= m \div 65536
  BY <1>1
<1> QED
  BY <1>1, <1>2 DEF Uint32

\* What is behind a DHEADER: the size in it is that of the body, which is as it
\* was written.
LEMMA DHeaderShown ==
  ASSUME NEW e, Full(e), NEW f, Extends(BeginDHeader(e), f), f.pos \in Uint32
  PROVE  LET b == BeginDHeader(e)
             g == FinishDHeader(f, DHeaderStart(e))
         IN  /\ Full(b) /\ Extends(e, g) /\ g.pos = f.pos /\ e.pos + 4 <= b.pos
             /\ \A d : Shows(e, g, d) =>
                  LET r == ReadDHeader(d)
                  IN  /\ Shown(e, b, d, r)
                      /\ End(e, b, d) <= End(e, g, d)
                      /\ r.ok => /\ Num(r.v) = f.pos - b.pos
                                 /\ Shows(b, f, r.d) /\ End(b, f, r.d) = End(e, g, d)
<1> DEFINE b == BeginDHeader(e)
           start == DHeaderStart(e)
           g == FinishDHeader(f, start)
           n == f.pos - start - 4
           w == Word(n)
<1>1. e \in Encoders /\ e.pos = Len(e.buf) /\ e.pos \in Nat /\ e.order \in ByteOrders
  BY DEF Full, Encoders
<1>2. /\ Extends(e, b) /\ start \in Nat /\ start >= e.pos /\ start + 4 = b.pos
      /\ start = e.pos + Pad(e.pos, 4)
  BY <1>1, BeginExtends DEF DHeaderStart, Extends
<1> HIDE DEF b, start
<1>3. /\ f \in Encoders /\ f.pos = Len(f.buf) /\ f.order = e.order
      /\ b.pos = Len(b.buf) /\ b.pos \in Nat /\ f.pos \in Nat /\ b.pos <= f.pos
      /\ \A i \in 1 .. b.pos : f.buf[i] = b.buf[i]
      /\ \A i \in 1 .. e.pos : b.buf[i] = e.buf[i]
  BY <1>1, <1>2 DEF Extends, Encoders, b
<1>0. /\ e.pos \in Nat /\ start \in Nat /\ b.pos \in Nat /\ f.pos \in Nat
      /\ start >= e.pos /\ start + 4 = b.pos /\ b.pos <= f.pos
  BY <1>1, <1>2, <1>3
<1>4. n = f.pos - b.pos /\ n \in Uint32
  <2>1. n = f.pos - b.pos /\ n \in Nat /\ n <= f.pos
    BY <1>0
  <2> QED
    BY <2>1, LessIsUint32
<1>5. w \in Seq(Byte) /\ Len(w) = 4 /\ Num(w) = n
  BY <1>4, WordType, NumOfWord DEF Uint32
<1>6. /\ g \in Encoders /\ g.order = e.order /\ g.pos = f.pos
      /\ Len(g.buf) = f.pos
      /\ \A i \in 1 .. f.pos : i \notin start + 1 .. start + 4 => g.buf[i] = f.buf[i]
      /\ Get(e.order, Slice(g.buf, start, start + 4)) = w
  <2>1. start + 4 <= Len(f.buf)
    BY <1>2, <1>3
  <2> QED
    BY <1>2, <1>3, <2>1, FinishPatches
<1> HIDE DEF g, w, n
<1>7. Extends(e, g)
  <2>1. ASSUME NEW i \in 1 .. e.pos
        PROVE  g.buf[i] = e.buf[i]
    <3>1. i \in 1 .. f.pos /\ i \in 1 .. b.pos /\ i \notin start + 1 .. start + 4
      BY <1>1, <1>2, <1>3
    <3> QED
      BY <1>3, <1>6, <3>1
  <2> QED
    BY <1>1, <1>2, <1>3, <1>6, <2>1 DEF Extends
<1>8. \A i \in 1 .. 4 : g.buf[start + i] = Put(e.order, w)[i]
  <2> DEFINE s == Slice(g.buf, start, start + 4)
  <2>1. g.buf \in Seq(Byte) /\ start + 4 <= Len(g.buf)
    BY <1>2, <1>3, <1>6 DEF Encoders
  <2>2. s \in Seq(Byte)
    BY <1>2, <2>1, SliceType
  <2>4. \A i \in 1 .. 4 : s[i] = g.buf[start + i]
    BY <1>2, <2>1, SliceElements
  <2> HIDE DEF s
  <2>3. Put(e.order, Get(e.order, s)) = s
    BY <1>1, <2>2, PutType DEF Put, Get
  <2> QED
    BY <1>6, <2>3, <2>4 DEF s
<1>9. ASSUME NEW d, Shows(e, g, d)
      PROVE  LET r == ReadDHeader(d)
             IN  /\ Shown(e, b, d, r)
                 /\ End(e, b, d) <= End(e, g, d)
                 /\ r.ok => /\ Num(r.v) = f.pos - b.pos
                            /\ Shows(b, f, r.d) /\ End(b, f, r.d) = End(e, g, d)
  <2> DEFINE r == ReadDHeader(d)
             p == d.pos + Pad(d.pos, 4)
  <2>1. /\ d \in Decoders /\ d.order = e.order /\ d.pos \in Nat /\ d.data \in Seq(Byte)
        /\ d.pos % 4 = e.pos % 4
        /\ \A i \in 1 .. f.pos - e.pos :
             d.pos + i <= Len(d.data) => d.data[d.pos + i] = g.buf[e.pos + i]
    BY <1>6, <1>9 DEF Shows, Decoders
  <2>2. /\ p \in Nat /\ p = d.pos + (start - e.pos) /\ Pad(d.pos, 4) = Pad(e.pos, 4)
    <3>1. Pad(d.pos, 4) = Pad(e.pos, 4)
      BY <1>1, <2>1, PadSame
    <3>2. Pad(e.pos, 4) \in Nat
      <4>1. Pad(e.pos, 4) \in 0 .. 3
        BY <1>0, PadAligns
      <4> QED
        BY <4>1
    <3>3. d.pos \in Nat /\ start = e.pos + Pad(e.pos, 4)
      BY <1>2, <2>1
    <3> QED
      BY <1>0, <3>1, <3>2, <3>3
  <2>3. ASSUME NEW i \in 1 .. 4, p + i <= Len(d.data)
        PROVE  d.data[p + i] = Put(d.order, w)[i]
    <3>1. /\ (start - e.pos) + i \in 1 .. f.pos - e.pos
          /\ d.pos + ((start - e.pos) + i) = p + i /\ e.pos + ((start - e.pos) + i) = start + i
      <4> HIDE DEF p
      <4>1. d.pos \in Nat /\ p = d.pos + (start - e.pos) /\ i \in 1 .. 4
        BY <2>1, <2>2
      <4> QED
        BY <1>0, <4>1
    <3>2. d.data[d.pos + ((start - e.pos) + i)] = g.buf[e.pos + ((start - e.pos) + i)]
      BY <2>1, <2>3, <3>1
    <3> QED
      BY <1>8, <2>1, <3>1, <3>2
  <2> HIDE DEF r, p
  <2>4. /\ r.ok \in BOOLEAN
        /\ r.ok <=> p + 4 <= Len(d.data)
        /\ r.ok => r.d = At(d, p + 4) /\ r.v = w
    <3>1. Len(w) \in {1, 2, 4, 8} /\ p = d.pos + Pad(d.pos, Len(w))
      BY <1>5 DEF p
    <3>2. \A i \in 1 .. Len(w) : p + i <= Len(d.data) => d.data[p + i] = Put(d.order, w)[i]
      BY <1>5, <2>3
    <3>3. ReadDHeader(d) = ReadScalar(d, Len(w))
      BY <1>5 DEF ReadDHeader
    <3> DEFINE x == ReadScalar(d, Len(w))
    <3>4. /\ x.ok \in BOOLEAN
          /\ x.ok <=> p + Len(w) <= Len(d.data)
          /\ x.ok => x.d = At(d, p + Len(w)) /\ x.v = w
      <4>1. w \in Seq(Byte) /\ d \in Decoders /\ p \in Nat
        BY <1>5, <2>1, <2>2
      <4> QED
        BY <3>1, <3>2, <4>1, ScalarThere
    <3> HIDE DEF x
    <3> QED
      BY <1>5, <3>3, <3>4 DEF r, x
  <2>5. End(e, b, d) = p + 4 /\ End(e, b, d) <= End(e, g, d)
    <3>1. End(e, b, d) = d.pos + (b.pos - e.pos) /\ End(e, g, d) = d.pos + (f.pos - e.pos)
      BY <1>6 DEF End
    <3>2. d.pos \in Nat /\ p = d.pos + (start - e.pos)
      BY <2>1, <2>2
    <3>3. d.pos + (b.pos - e.pos) = p + 4
      BY <1>0, <3>2
    <3>4. d.pos + (b.pos - e.pos) <= d.pos + (f.pos - e.pos)
      BY <1>0, <3>2
    <3> QED
      BY <3>1, <3>3, <3>4
  <2>6. ASSUME r.ok
        PROVE  Shows(b, f, r.d) /\ End(b, f, r.d) = End(e, g, d)
    <3> DEFINE h == At(d, p + 4)
    <3>1. h \in Decoders /\ h.data = d.data /\ h.pos = p + 4 /\ h.order = b.order
      BY <1>2, <2>1, <2>2 DEF At, Decoders, Extends
    <3> HIDE DEF h
    <3>2. ASSUME NEW i \in 1 .. f.pos - b.pos, p + 4 + i <= Len(d.data)
          PROVE  d.data[p + 4 + i] = f.buf[b.pos + i]
      <4>1. /\ (b.pos - e.pos) + i \in 1 .. f.pos - e.pos
            /\ d.pos + ((b.pos - e.pos) + i) = p + 4 + i /\ e.pos + ((b.pos - e.pos) + i) = b.pos + i
            /\ b.pos + i \in 1 .. f.pos /\ b.pos + i \notin start + 1 .. start + 4
        <5>1. d.pos \in Nat /\ p = d.pos + (start - e.pos) /\ i \in 1 .. f.pos - b.pos
          BY <2>1, <2>2
        <5> QED
          BY <1>0, <5>1
      <4>2. d.data[d.pos + ((b.pos - e.pos) + i)] = g.buf[e.pos + ((b.pos - e.pos) + i)]
        BY <2>1, <3>2, <4>1
      <4> QED
        BY <1>6, <4>1, <4>2
    <3>3. (p + 4) % 4 = b.pos % 4
      <4>1. Pad(d.pos, 4) \in 0 .. 3 /\ (d.pos + Pad(d.pos, 4)) % 4 = 0
        BY <2>1, PadAligns
      <4>2. Pad(e.pos, 4) \in 0 .. 3 /\ (e.pos + Pad(e.pos, 4)) % 4 = 0
        BY <1>1, PadAligns
      <4>3. (p + 4) % 4 = 0
        BY <2>1, <4>1, NextWord DEF p
      <4>4. b.pos % 4 = 0
        BY <1>1, <1>2, <4>2, NextWord
      <4> QED
        BY <4>3, <4>4
    <3>4. End(b, f, h) = End(e, g, d)
      <4>1. End(b, f, h) = p + 4 + (f.pos - b.pos) /\ End(e, g, d) = d.pos + (f.pos - e.pos)
        BY <1>6, <3>1 DEF End
      <4>2. d.pos \in Nat /\ p = d.pos + (start - e.pos)
        BY <2>1, <2>2
      <4> QED
        BY <1>0, <4>1, <4>2
    <3> QED
      BY <2>4, <2>6, <3>1, <3>2, <3>3, <3>4 DEF Shows, h
  <2> QED
    BY <1>4, <1>5, <2>4, <2>5, <2>6 DEF Shown, r
<1>10. Full(b) /\ e.pos + 4 <= b.pos
  BY <1>1, <1>2, <1>3 DEF Full, Extends
<1> QED
  BY <1>6, <1>7, <1>9, <1>10 DEF g, b, start

-----------------------------------------------------------------------------
(***************************************************************************)
(* Rounds                                                                  *)
(***************************************************************************)
\* What every round adds, all of them add.
LEMMA RoundsExtend ==
  ASSUME NEW n \in Nat, NEW f, Full(f[0]),
         \A i \in 1 .. n : Full(f[i - 1]) => Extends(f[i - 1], f[i])
  PROVE  /\ \A i \in 0 .. n : Full(f[i])
         /\ \A j \in 0 .. n : \A i \in 0 .. j : Extends(f[i], f[j])
<1> DEFINE P == {i \in 0 .. n : Full(f[i])}
           Q == {j \in 0 .. n : \A i \in 0 .. j : Extends(f[i], f[j])}
<1>1. \A i \in 0 .. n : i \in P
  <2>1. 0 \in P
    OBVIOUS
  <2>2. ASSUME NEW i \in 1 .. n, i - 1 \in P
        PROVE  i \in P
    <3>1. Extends(f[i - 1], f[i])
      BY <2>2
    <3> QED
      BY <3>1 DEF Extends, Full
  <2> HIDE DEF P
  <2> QED
    BY <2>1, <2>2, CountingUp
<1>2. \A j \in 0 .. n : j \in Q
  <2>1. 0 \in Q
    <3>1. Extends(f[0], f[0])
      BY ExtendsItself
    <3> QED
      BY <3>1
  <2>2. ASSUME NEW j \in 1 .. n, j - 1 \in Q
        PROVE  j \in Q
    <3>1. j - 1 \in 0 .. n /\ j \in 0 .. n
      OBVIOUS
    <3>2. Full(f[j - 1]) /\ Full(f[j])
      BY <1>1, <3>1
    <3>3. Extends(f[j - 1], f[j])
      BY <3>2
    <3>4. ASSUME NEW i \in 0 .. j
          PROVE  Extends(f[i], f[j])
      <4>1. CASE i = j
        BY <3>2, <4>1, ExtendsItself
      <4>2. CASE i # j
        <5>1. i \in 0 .. j - 1 /\ i \in 0 .. n
          BY <4>2
        <5>2. Extends(f[i], f[j - 1]) /\ f[i] \in Encoders
          BY <1>1, <2>2, <5>1 DEF Full
        <5> QED
          BY <3>3, <5>2, ExtendsTransitive
      <4> QED
        BY <4>1, <4>2
    <3> QED
      BY <3>1, <3>4
  <2> HIDE DEF Q
  <2> QED
    BY <2>1, <2>2, CountingUp
<1> QED
  BY <1>1, <1>2

\* If each round g[i] reads what the round f[i] wrote, and then i is in Q, all
\* rounds read what all wrote; a round that fails is the last.
LEMMA RoundsShown ==
  ASSUME NEW n \in Nat, NEW f, Full(f[0]),
         \A j \in 0 .. n : \A i \in 0 .. j : Extends(f[i], f[j]),
         NEW d, Shows(f[0], f[n], d),
         NEW g, NEW Q, g[0].ok = TRUE, g[0].d = d, 0 \in Q,
         \A i \in 1 .. n : ~g[i - 1].ok => g[i] = g[i - 1],
         \A i \in 1 .. n :
           g[i - 1].ok /\ i - 1 \in Q /\ Shows(f[i - 1], f[i], g[i - 1].d) =>
             Shown(f[i - 1], f[i], g[i - 1].d, g[i]) /\ (g[i].ok => i \in Q)
  PROVE  Shown(f[0], f[n], d, g[n]) /\ (g[n].ok => n \in Q)
<1> DEFINE P == {i \in 0 .. n : Shown(f[0], f[i], d, g[i]) /\ (g[i].ok => i \in Q)}
<1>1. d.pos \in Nat /\ d.pos <= Len(d.data) /\ d = At(d, d.pos) /\ d.data \in Seq(Byte)
  BY DEF Shows, Decoders, At
<1>2. 0 \in P
  <2>1. End(f[0], f[0], d) = d.pos
    <3>1. f[0].pos \in Nat
      BY DEF Full, Encoders
    <3> QED
      BY <1>1, <3>1 DEF End
  <2>2. g[0].d = At(d, End(f[0], f[0], d)) /\ End(f[0], f[0], d) <= Len(d.data)
    BY <1>1, <2>1
  <2>3. Shown(f[0], f[0], d, g[0])
    BY <2>2 DEF Shown
  <2> QED
    BY <2>3
<1>3. ASSUME NEW i \in 1 .. n, i - 1 \in P
      PROVE  i \in P
  <2>1. /\ i - 1 \in 0 .. n /\ i \in 0 .. n /\ 0 \in 0 .. i - 1 /\ i - 1 \in 0 .. i
        /\ i \in 0 .. n
        /\ n \in 0 .. n /\ 0 \in 0 .. i
    OBVIOUS
  <2>2. /\ Extends(f[0], f[i - 1]) /\ Extends(f[i - 1], f[i]) /\ Extends(f[i], f[n])
        /\ Extends(f[0], f[i])
    BY <2>1
  <2>3. Shown(f[0], f[i - 1], d, g[i - 1]) /\ (g[i - 1].ok => i - 1 \in Q)
    BY <1>3
  <2> HIDE DEF P
  <2>4. Shows(f[0], f[i], d)
    BY <2>2, ShowsSplits
  <2> DEFINE p == End(f[0], f[i - 1], d)
             h == At(d, p)
  <2>5. /\ p \in Nat /\ p <= End(f[0], f[i], d)
        /\ p <= Len(d.data) => /\ Shows(f[i - 1], f[i], h)
                               /\ End(f[i - 1], f[i], h) = End(f[0], f[i], d)
    BY <2>2, <2>4, ShowsSplits
  <2>6. End(f[0], f[i], d) \in Nat
    <3>1. Extends(f[i], f[i])
      BY <2>2, ExtendsItself DEF Extends, Full
    <3> QED
      BY <2>2, <2>4, <3>1, ShowsSplits
  <2> HIDE DEF p
  <2>7. CASE g[i - 1].ok
    <3>1. p <= Len(d.data) /\ g[i - 1].d = h
      BY <2>3, <2>7 DEF Shown, p
    <3>2. Shown(f[i - 1], f[i], h, g[i]) /\ (g[i].ok => i \in Q)
      BY <2>3, <2>5, <2>7, <3>1
    <3>3. h.data = d.data /\ \A q : At(h, q) = At(d, q)
      BY DEF At
    <3> HIDE DEF h
    <3>4. Shown(f[0], f[i], d, g[i])
      BY <2>5, <3>1, <3>2, <3>3 DEF Shown
    <3> QED
      BY <2>1, <3>2, <3>4 DEF P
  <2>8. CASE ~g[i - 1].ok
    <3>1. g[i] = g[i - 1] /\ ~(p <= Len(d.data)) /\ g[i - 1].ok \in BOOLEAN
      BY <2>3, <2>8 DEF Shown, p
    <3>2. ~(End(f[0], f[i], d) <= Len(d.data))
      BY <1>1, <2>5, <2>6, <3>1
    <3>3. Shown(f[0], f[i], d, g[i])
      BY <2>8, <3>1, <3>2 DEF Shown
    <3> QED
      BY <2>1, <2>8, <3>1, <3>3 DEF P
  <2> QED
    BY <2>7, <2>8
<1>4. n \in 0 .. n
  OBVIOUS
<1> HIDE DEF P
<1>5. n \in P
  BY <1>2, <1>3, <1>4, CountingUp
<1> QED
  BY <1>5 DEF P

\* The rounds of each loop.
LEMMA EncodeElemsRun ==
  ASSUME NEW t, NEW v, Len(v) \in Nat, NEW e
  PROVE  \E f : /\ f[0] = e
                /\ \A i \in 1 .. Len(v) : f[i] = EncodePart(t, v[i], f[i - 1])
                /\ EncodeElems(t, v, e) = f[Len(v)]
<1> DEFINE n == Len(v)
           Is(m, f) == f = [i \in 0 .. m |-> IF i = 0 THEN e
                                             ELSE EncodePart(t, v[i], f[i - 1])]
           Q == {m \in 0 .. n : \E f : Is(m, f)}
<1>1. \A m \in 0 .. n : m \in Q
  <2>1. 0 \in Q
    <3>1. Is(0, [i \in 0 .. 0 |-> e])
      OBVIOUS
    <3> HIDE DEF Is
    <3> QED
      BY <3>1
  <2>2. ASSUME NEW m \in 1 .. n, m - 1 \in Q
        PROVE  m \in Q
    <3>1. PICK f : Is(m - 1, f)
      BY <2>2
    <3> DEFINE g == [i \in 0 .. m |-> IF i = m THEN EncodePart(t, v[m], f[m - 1]) ELSE f[i]]
    <3>2. ASSUME NEW i \in 0 .. m
          PROVE  g[i] = IF i = 0 THEN e ELSE EncodePart(t, v[i], g[i - 1])
      <4>1. CASE i = m
        <5>1. g[i - 1] = f[m - 1] /\ i # 0
          BY <4>1
        <5> QED
          BY <4>1, <5>1
      <4>2. CASE i # m
        <5>1. i \in 0 .. m - 1 /\ (i # 0 => i - 1 \in 0 .. m /\ i - 1 # m)
          BY <4>2
        <5>2. f[i] = IF i = 0 THEN e ELSE EncodePart(t, v[i], f[i - 1])
          BY <3>1, <5>1
        <5>3. g[i] = f[i] /\ (i # 0 => g[i - 1] = f[i - 1])
          BY <4>2, <5>1
        <5> QED
          BY <5>2, <5>3
      <4> QED
        BY <4>1, <4>2
    <3>3. g = [i \in 0 .. m |-> g[i]]
      OBVIOUS
    <3> HIDE DEF g
    <3>4. Is(m, g)
      BY <3>2, <3>3
    <3> HIDE DEF Is
    <3> QED
      BY <3>4
  <2> HIDE DEF Q
  <2> QED
    BY <2>1, <2>2, CountingUp
<1> DEFINE f == CHOOSE f : Is(n, f)
<1>2. Is(n, f)
  <2>1. n \in 0 .. n
    OBVIOUS
  <2> HIDE DEF Is
  <2> QED
    BY <1>1, <2>1
<1>3. EncodeElems(t, v, e) = f[n]
  BY DEF EncodeElems
<1> HIDE DEF f
<1>4. f[0] = e /\ \A i \in 1 .. n : f[i] = EncodePart(t, v[i], f[i - 1])
  <2>1. \A i \in 0 .. n : f[i] = IF i = 0 THEN e ELSE EncodePart(t, v[i], f[i - 1])
    BY <1>2
  <2> QED
    BY <2>1
<1> QED
  BY <1>3, <1>4

LEMMA EncodeFieldsRun ==
  ASSUME NEW S, Len(Fields(S)) \in Nat, NEW v, NEW e
  PROVE  \E f : /\ f[0] = e
                /\ \A i \in 1 .. Len(Fields(S)) : f[i] = EncodeField(Fields(S)[i], v[i], f[i - 1])
                /\ EncodeFields(S, v, e) = f[Len(Fields(S))]
<1> DEFINE n == Len(Fields(S))
           Is(m, f) == f = [i \in 0 .. m |-> IF i = 0 THEN e
                                             ELSE EncodeField(Fields(S)[i], v[i], f[i - 1])]
           Q == {m \in 0 .. n : \E f : Is(m, f)}
<1>1. \A m \in 0 .. n : m \in Q
  <2>1. 0 \in Q
    <3>1. Is(0, [i \in 0 .. 0 |-> e])
      OBVIOUS
    <3> HIDE DEF Is
    <3> QED
      BY <3>1
  <2>2. ASSUME NEW m \in 1 .. n, m - 1 \in Q
        PROVE  m \in Q
    <3>1. PICK f : Is(m - 1, f)
      BY <2>2
    <3> DEFINE g == [i \in 0 .. m |->
                       IF i = m THEN EncodeField(Fields(S)[m], v[m], f[m - 1]) ELSE f[i]]
    <3>2. ASSUME NEW i \in 0 .. m
          PROVE  g[i] = IF i = 0 THEN e ELSE EncodeField(Fields(S)[i], v[i], g[i - 1])
      <4>1. CASE i = m
        <5>1. g[i - 1] = f[m - 1] /\ i # 0
          BY <4>1
        <5> QED
          BY <4>1, <5>1
      <4>2. CASE i # m
        <5>1. i \in 0 .. m - 1 /\ (i # 0 => i - 1 \in 0 .. m /\ i - 1 # m)
          BY <4>2
        <5>2. f[i] = IF i = 0 THEN e ELSE EncodeField(Fields(S)[i], v[i], f[i - 1])
          BY <3>1, <5>1
        <5>3. g[i] = f[i] /\ (i # 0 => g[i - 1] = f[i - 1])
          BY <4>2, <5>1
        <5> QED
          BY <5>2, <5>3
      <4> QED
        BY <4>1, <4>2
    <3>3. g = [i \in 0 .. m |-> g[i]]
      OBVIOUS
    <3> HIDE DEF g
    <3>4. Is(m, g)
      BY <3>2, <3>3
    <3> HIDE DEF Is
    <3> QED
      BY <3>4
  <2> HIDE DEF Q
  <2> QED
    BY <2>1, <2>2, CountingUp
<1> DEFINE f == CHOOSE f : Is(n, f)
<1>2. Is(n, f)
  <2>1. n \in 0 .. n
    OBVIOUS
  <2> HIDE DEF Is
  <2> QED
    BY <1>1, <2>1
<1>3. EncodeFields(S, v, e) = f[n]
  BY DEF EncodeFields
<1> HIDE DEF f
<1>4. f[0] = e /\ \A i \in 1 .. n : f[i] = EncodeField(Fields(S)[i], v[i], f[i - 1])
  <2>1. \A i \in 0 .. n : f[i] = IF i = 0 THEN e ELSE EncodeField(Fields(S)[i], v[i], f[i - 1])
    BY <1>2
  <2> QED
    BY <2>1
<1> QED
  BY <1>3, <1>4

LEMMA EncodeMembersRun ==
  ASSUME NEW S, Len(Fields(S)) \in Nat, NEW v, NEW e
  PROVE  \E f : /\ f[0] = e
                /\ \A i \in 1 .. Len(Fields(S)) : f[i] = EncodeMember(Fields(S)[i], v[i], f[i - 1])
                /\ EncodeMembers(S, v, e) = f[Len(Fields(S))]
<1> DEFINE n == Len(Fields(S))
           Is(m, f) == f = [i \in 0 .. m |-> IF i = 0 THEN e
                                             ELSE EncodeMember(Fields(S)[i], v[i], f[i - 1])]
           Q == {m \in 0 .. n : \E f : Is(m, f)}
<1>1. \A m \in 0 .. n : m \in Q
  <2>1. 0 \in Q
    <3>1. Is(0, [i \in 0 .. 0 |-> e])
      OBVIOUS
    <3> HIDE DEF Is
    <3> QED
      BY <3>1
  <2>2. ASSUME NEW m \in 1 .. n, m - 1 \in Q
        PROVE  m \in Q
    <3>1. PICK f : Is(m - 1, f)
      BY <2>2
    <3> DEFINE g == [i \in 0 .. m |->
                       IF i = m THEN EncodeMember(Fields(S)[m], v[m], f[m - 1]) ELSE f[i]]
    <3>2. ASSUME NEW i \in 0 .. m
          PROVE  g[i] = IF i = 0 THEN e ELSE EncodeMember(Fields(S)[i], v[i], g[i - 1])
      <4>1. CASE i = m
        <5>1. g[i - 1] = f[m - 1] /\ i # 0
          BY <4>1
        <5> QED
          BY <4>1, <5>1
      <4>2. CASE i # m
        <5>1. i \in 0 .. m - 1 /\ (i # 0 => i - 1 \in 0 .. m /\ i - 1 # m)
          BY <4>2
        <5>2. f[i] = IF i = 0 THEN e ELSE EncodeMember(Fields(S)[i], v[i], f[i - 1])
          BY <3>1, <5>1
        <5>3. g[i] = f[i] /\ (i # 0 => g[i - 1] = f[i - 1])
          BY <4>2, <5>1
        <5> QED
          BY <5>2, <5>3
      <4> QED
        BY <4>1, <4>2
    <3>3. g = [i \in 0 .. m |-> g[i]]
      OBVIOUS
    <3> HIDE DEF g
    <3>4. Is(m, g)
      BY <3>2, <3>3
    <3> HIDE DEF Is
    <3> QED
      BY <3>4
  <2> HIDE DEF Q
  <2> QED
    BY <2>1, <2>2, CountingUp
<1> DEFINE f == CHOOSE f : Is(n, f)
<1>2. Is(n, f)
  <2>1. n \in 0 .. n
    OBVIOUS
  <2> HIDE DEF Is
  <2> QED
    BY <1>1, <2>1
<1>3. EncodeMembers(S, v, e) = f[n]
  BY DEF EncodeMembers
<1> HIDE DEF f
<1>4. f[0] = e /\ \A i \in 1 .. n : f[i] = EncodeMember(Fields(S)[i], v[i], f[i - 1])
  <2>1. \A i \in 0 .. n : f[i] = IF i = 0 THEN e ELSE EncodeMember(Fields(S)[i], v[i], f[i - 1])
    BY <1>2
  <2> QED
    BY <2>1
<1> QED
  BY <1>3, <1>4

LEMMA DecodeElemsRun ==
  ASSUME NEW t, NEW len \in Nat, NEW r
  PROVE  \E f : /\ f[0] = r
                /\ \A i \in 1 .. len : f[i] = NextElem(t, f[i - 1])
                /\ DecodeElems(t, len, r) = f[len]
<1> DEFINE n == len
           Is(m, f) == f = [i \in 0 .. m |-> IF i = 0 THEN r
                                             ELSE NextElem(t, f[i - 1])]
           Q == {m \in 0 .. n : \E f : Is(m, f)}
<1>1. \A m \in 0 .. n : m \in Q
  <2>1. 0 \in Q
    <3>1. Is(0, [i \in 0 .. 0 |-> r])
      OBVIOUS
    <3> HIDE DEF Is
    <3> QED
      BY <3>1
  <2>2. ASSUME NEW m \in 1 .. n, m - 1 \in Q
        PROVE  m \in Q
    <3>1. PICK f : Is(m - 1, f)
      BY <2>2
    <3> DEFINE g == [i \in 0 .. m |-> IF i = m THEN NextElem(t, f[m - 1]) ELSE f[i]]
    <3>2. ASSUME NEW i \in 0 .. m
          PROVE  g[i] = IF i = 0 THEN r ELSE NextElem(t, g[i - 1])
      <4>1. CASE i = m
        <5>1. g[i - 1] = f[m - 1] /\ i # 0
          BY <4>1
        <5> QED
          BY <4>1, <5>1
      <4>2. CASE i # m
        <5>1. i \in 0 .. m - 1 /\ (i # 0 => i - 1 \in 0 .. m /\ i - 1 # m)
          BY <4>2
        <5>2. f[i] = IF i = 0 THEN r ELSE NextElem(t, f[i - 1])
          BY <3>1, <5>1
        <5>3. g[i] = f[i] /\ (i # 0 => g[i - 1] = f[i - 1])
          BY <4>2, <5>1
        <5> QED
          BY <5>2, <5>3
      <4> QED
        BY <4>1, <4>2
    <3>3. g = [i \in 0 .. m |-> g[i]]
      OBVIOUS
    <3> HIDE DEF g
    <3>4. Is(m, g)
      BY <3>2, <3>3
    <3> HIDE DEF Is
    <3> QED
      BY <3>4
  <2> HIDE DEF Q
  <2> QED
    BY <2>1, <2>2, CountingUp
<1> DEFINE f == CHOOSE f : Is(n, f)
<1>2. Is(n, f)
  <2>1. n \in 0 .. n
    OBVIOUS
  <2> HIDE DEF Is
  <2> QED
    BY <1>1, <2>1
<1>3. DecodeElems(t, len, r) = f[n]
  BY DEF DecodeElems
<1> HIDE DEF f
<1>4. f[0] = r /\ \A i \in 1 .. n : f[i] = NextElem(t, f[i - 1])
  <2>1. \A i \in 0 .. n : f[i] = IF i = 0 THEN r ELSE NextElem(t, f[i - 1])
    BY <1>2
  <2> QED
    BY <2>1
<1> QED
  BY <1>3, <1>4

LEMMA DecodeArrayRun ==
  ASSUME NEW t, NEW len \in Nat, NEW d, NEW old
  PROVE  \E f : /\ f[0] = Got(d, old)
                /\ \A i \in 1 .. len : f[i] = NextAt(t, i, f[i - 1])
                /\ DecodeArray(t, len, d, old) = f[len]
<1> DEFINE n == len
           Is(m, f) == f = [i \in 0 .. m |-> IF i = 0 THEN Got(d, old)
                                             ELSE NextAt(t, i, f[i - 1])]
           Q == {m \in 0 .. n : \E f : Is(m, f)}
<1>1. \A m \in 0 .. n : m \in Q
  <2>1. 0 \in Q
    <3>1. Is(0, [i \in 0 .. 0 |-> Got(d, old)])
      OBVIOUS
    <3> HIDE DEF Is
    <3> QED
      BY <3>1
  <2>2. ASSUME NEW m \in 1 .. n, m - 1 \in Q
        PROVE  m \in Q
    <3>1. PICK f : Is(m - 1, f)
      BY <2>2
    <3> DEFINE g == [i \in 0 .. m |-> IF i = m THEN NextAt(t, m, f[m - 1]) ELSE f[i]]
    <3>2. ASSUME NEW i \in 0 .. m
          PROVE  g[i] = IF i = 0 THEN Got(d, old) ELSE NextAt(t, i, g[i - 1])
      <4>1. CASE i = m
        <5>1. g[i - 1] = f[m - 1] /\ i # 0
          BY <4>1
        <5> QED
          BY <4>1, <5>1
      <4>2. CASE i # m
        <5>1. i \in 0 .. m - 1 /\ (i # 0 => i - 1 \in 0 .. m /\ i - 1 # m)
          BY <4>2
        <5>2. f[i] = IF i = 0 THEN Got(d, old) ELSE NextAt(t, i, f[i - 1])
          BY <3>1, <5>1
        <5>3. g[i] = f[i] /\ (i # 0 => g[i - 1] = f[i - 1])
          BY <4>2, <5>1
        <5> QED
          BY <5>2, <5>3
      <4> QED
        BY <4>1, <4>2
    <3>3. g = [i \in 0 .. m |-> g[i]]
      OBVIOUS
    <3> HIDE DEF g
    <3>4. Is(m, g)
      BY <3>2, <3>3
    <3> HIDE DEF Is
    <3> QED
      BY <3>4
  <2> HIDE DEF Q
  <2> QED
    BY <2>1, <2>2, CountingUp
<1> DEFINE f == CHOOSE f : Is(n, f)
<1>2. Is(n, f)
  <2>1. n \in 0 .. n
    OBVIOUS
  <2> HIDE DEF Is
  <2> QED
    BY <1>1, <2>1
<1>3. DecodeArray(t, len, d, old) = f[n]
  BY DEF DecodeArray
<1> HIDE DEF f
<1>4. f[0] = Got(d, old) /\ \A i \in 1 .. n : f[i] = NextAt(t, i, f[i - 1])
  <2>1. \A i \in 0 .. n : f[i] = IF i = 0 THEN Got(d, old) ELSE NextAt(t, i, f[i - 1])
    BY <1>2
  <2> QED
    BY <2>1
<1> QED
  BY <1>3, <1>4

LEMMA DecodeFieldsRun ==
  ASSUME NEW S, Len(Fields(S)) \in Nat, NEW r
  PROVE  \E f : /\ f[0] = r
                /\ \A i \in 1 .. Len(Fields(S)) : f[i] = NextField(S, i, f[i - 1])
                /\ DecodeFields(S, r) = f[Len(Fields(S))]
<1> DEFINE n == Len(Fields(S))
           Is(m, f) == f = [i \in 0 .. m |-> IF i = 0 THEN r
                                             ELSE NextField(S, i, f[i - 1])]
           Q == {m \in 0 .. n : \E f : Is(m, f)}
<1>1. \A m \in 0 .. n : m \in Q
  <2>1. 0 \in Q
    <3>1. Is(0, [i \in 0 .. 0 |-> r])
      OBVIOUS
    <3> HIDE DEF Is
    <3> QED
      BY <3>1
  <2>2. ASSUME NEW m \in 1 .. n, m - 1 \in Q
        PROVE  m \in Q
    <3>1. PICK f : Is(m - 1, f)
      BY <2>2
    <3> DEFINE g == [i \in 0 .. m |-> IF i = m THEN NextField(S, m, f[m - 1]) ELSE f[i]]
    <3>2. ASSUME NEW i \in 0 .. m
          PROVE  g[i] = IF i = 0 THEN r ELSE NextField(S, i, g[i - 1])
      <4>1. CASE i = m
        <5>1. g[i - 1] = f[m - 1] /\ i # 0
          BY <4>1
        <5> QED
          BY <4>1, <5>1
      <4>2. CASE i # m
        <5>1. i \in 0 .. m - 1 /\ (i # 0 => i - 1 \in 0 .. m /\ i - 1 # m)
          BY <4>2
        <5>2. f[i] = IF i = 0 THEN r ELSE NextField(S, i, f[i - 1])
          BY <3>1, <5>1
        <5>3. g[i] = f[i] /\ (i # 0 => g[i - 1] = f[i - 1])
          BY <4>2, <5>1
        <5> QED
          BY <5>2, <5>3
      <4> QED
        BY <4>1, <4>2
    <3>3. g = [i \in 0 .. m |-> g[i]]
      OBVIOUS
    <3> HIDE DEF g
    <3>4. Is(m, g)
      BY <3>2, <3>3
    <3> HIDE DEF Is
    <3> QED
      BY <3>4
  <2> HIDE DEF Q
  <2> QED
    BY <2>1, <2>2, CountingUp
<1> DEFINE f == CHOOSE f : Is(n, f)
<1>2. Is(n, f)
  <2>1. n \in 0 .. n
    OBVIOUS
  <2> HIDE DEF Is
  <2> QED
    BY <1>1, <2>1
<1>3. DecodeFields(S, r) = f[n]
  BY DEF DecodeFields
<1> HIDE DEF f
<1>4. f[0] = r /\ \A i \in 1 .. n : f[i] = NextField(S, i, f[i - 1])
  <2>1. \A i \in 0 .. n : f[i] = IF i = 0 THEN r ELSE NextField(S, i, f[i - 1])
    BY <1>2
  <2> QED
    BY <2>1
<1> QED
  BY <1>3, <1>4

MembersAre(S, end, r, n, f) ==
  /\ f[0] = r
  /\ \A i \in 1 .. n : f[i] = NextMember(S, end, f[i - 1])
  /\ n = Len(r.d.data) \div 4 => DecodeMembers(S, end, r) = f[n]
LEMMA DecodeMembersRun ==
  ASSUME NEW S, NEW end, NEW r, NEW n \in Nat
  PROVE  \E f : MembersAre(S, end, r, n, f)
<1> DEFINE Is(m, f) == f = [i \in 0 .. m |-> IF i = 0 THEN r
                                             ELSE NextMember(S, end, f[i - 1])]
           Q == {m \in 0 .. n : \E f : Is(m, f)}
<1>1. \A m \in 0 .. n : m \in Q
  <2>1. 0 \in Q
    <3>1. Is(0, [i \in 0 .. 0 |-> r])
      OBVIOUS
    <3> HIDE DEF Is
    <3> QED
      BY <3>1
  <2>2. ASSUME NEW m \in 1 .. n, m - 1 \in Q
        PROVE  m \in Q
    <3>1. PICK f : Is(m - 1, f)
      BY <2>2
    <3> DEFINE g == [i \in 0 .. m |-> IF i = m THEN NextMember(S, end, f[m - 1]) ELSE f[i]]
    <3>2. ASSUME NEW i \in 0 .. m
          PROVE  g[i] = IF i = 0 THEN r ELSE NextMember(S, end, g[i - 1])
      <4>1. CASE i = m
        <5>1. g[i - 1] = f[m - 1] /\ i # 0
          BY <4>1
        <5> QED
          BY <4>1, <5>1
      <4>2. CASE i # m
        <5>1. i \in 0 .. m - 1 /\ (i # 0 => i - 1 \in 0 .. m /\ i - 1 # m)
          BY <4>2
        <5>2. f[i] = IF i = 0 THEN r ELSE NextMember(S, end, f[i - 1])
          BY <3>1, <5>1
        <5>3. g[i] = f[i] /\ (i # 0 => g[i - 1] = f[i - 1])
          BY <4>2, <5>1
        <5> QED
          BY <5>2, <5>3
      <4> QED
        BY <4>1, <4>2
    <3>3. g = [i \in 0 .. m |-> g[i]]
      OBVIOUS
    <3> HIDE DEF g
    <3>4. Is(m, g)
      BY <3>2, <3>3
    <3> HIDE DEF Is
    <3> QED
      BY <3>4
  <2> HIDE DEF Q
  <2> QED
    BY <2>1, <2>2, CountingUp
<1> DEFINE f == CHOOSE f : Is(n, f)
<1>2. Is(n, f)
  <2>1. n \in 0 .. n
    OBVIOUS
  <2> HIDE DEF Is
  <2> QED
    BY <1>1, <2>1
<1>3. ASSUME n = Len(r.d.data) \div 4
      PROVE  DecodeMembers(S, end, r) = f[n]
  BY <1>3 DEF DecodeMembers
<1> HIDE DEF f
<1>4. f[0] = r /\ \A i \in 1 .. n : f[i] = NextMember(S, end, f[i - 1])
  <2>1. \A i \in 0 .. n : f[i] = IF i = 0 THEN r ELSE NextMember(S, end, f[i - 1])
    BY <1>2
  <2> QED
    BY <2>1
<1> QED
  BY <1>3, <1>4 DEF MembersAre

WalkIs(d, end, n, f) ==
  /\ f[0] = Got(d, <<>>)
  /\ \A i \in 1 .. n : f[i] = PastMember(end, f[i - 1])
  /\ n = Len(d.data) \div 4 => (WalkHeaders(d, end) <=> f[n].ok /\ f[n].d.pos = end)
LEMMA WalkHeadersRun ==
  ASSUME NEW d, NEW end, NEW n \in Nat
  PROVE  \E f : WalkIs(d, end, n, f)
<1> DEFINE Is(m, f) == f = [i \in 0 .. m |-> IF i = 0 THEN Got(d, <<>>)
                                             ELSE PastMember(end, f[i - 1])]
           Q == {m \in 0 .. n : \E f : Is(m, f)}
<1>1. \A m \in 0 .. n : m \in Q
  <2>1. 0 \in Q
    <3>1. Is(0, [i \in 0 .. 0 |-> Got(d, <<>>)])
      OBVIOUS
    <3> HIDE DEF Is
    <3> QED
      BY <3>1
  <2>2. ASSUME NEW m \in 1 .. n, m - 1 \in Q
        PROVE  m \in Q
    <3>1. PICK f : Is(m - 1, f)
      BY <2>2
    <3> DEFINE g == [i \in 0 .. m |-> IF i = m THEN PastMember(end, f[m - 1]) ELSE f[i]]
    <3>2. ASSUME NEW i \in 0 .. m
          PROVE  g[i] = IF i = 0 THEN Got(d, <<>>) ELSE PastMember(end, g[i - 1])
      <4>1. CASE i = m
        <5>1. g[i - 1] = f[m - 1] /\ i # 0
          BY <4>1
        <5> QED
          BY <4>1, <5>1
      <4>2. CASE i # m
        <5>1. i \in 0 .. m - 1 /\ (i # 0 => i - 1 \in 0 .. m /\ i - 1 # m)
          BY <4>2
        <5>2. f[i] = IF i = 0 THEN Got(d, <<>>) ELSE PastMember(end, f[i - 1])
          BY <3>1, <5>1
        <5>3. g[i] = f[i] /\ (i # 0 => g[i - 1] = f[i - 1])
          BY <4>2, <5>1
        <5> QED
          BY <5>2, <5>3
      <4> QED
        BY <4>1, <4>2
    <3>3. g = [i \in 0 .. m |-> g[i]]
      OBVIOUS
    <3> HIDE DEF g
    <3>4. Is(m, g)
      BY <3>2, <3>3
    <3> HIDE DEF Is
    <3> QED
      BY <3>4
  <2> HIDE DEF Q
  <2> QED
    BY <2>1, <2>2, CountingUp
<1> DEFINE f == CHOOSE f : Is(n, f)
<1>2. Is(n, f)
  <2>1. n \in 0 .. n
    OBVIOUS
  <2> HIDE DEF Is
  <2> QED
    BY <1>1, <2>1
<1>3. ASSUME n = Len(d.data) \div 4
      PROVE  WalkHeaders(d, end) <=> f[n].ok /\ f[n].d.pos = end
  BY <1>3 DEF WalkHeaders
<1> HIDE DEF f
<1>4. f[0] = Got(d, <<>>) /\ \A i \in 1 .. n : f[i] = PastMember(end, f[i - 1])
  <2>1. \A i \in 0 .. n : f[i] = IF i = 0 THEN Got(d, <<>>) ELSE PastMember(end, f[i - 1])
    BY <1>2
  <2> QED
    BY <2>1
<1> QED
  BY <1>3, <1>4 DEF WalkIs

-----------------------------------------------------------------------------
(***************************************************************************)
(* Encoding adds to what was encoded                                       *)
(***************************************************************************)
LEMMA ElemsWritten ==
  ASSUME NEW t, PartWrites(t), NEW v, Len(v) \in Nat,
         \A i \in 1 .. Len(v) : SendablePart(t, v[i]), NEW e, Full(e)
  PROVE  \E f : /\ f[0] = e /\ EncodeElems(t, v, e) = f[Len(v)]
                /\ \A i \in 1 .. Len(v) : f[i] = EncodePart(t, v[i], f[i - 1])
                /\ \A i \in 0 .. Len(v) : Full(f[i])
                /\ \A j \in 0 .. Len(v) : \A i \in 0 .. j : Extends(f[i], f[j])
<1>1. PICK f : /\ f[0] = e /\ EncodeElems(t, v, e) = f[Len(v)]
               /\ \A i \in 1 .. Len(v) : f[i] = EncodePart(t, v[i], f[i - 1])
  BY EncodeElemsRun
<1>2. \A i \in 1 .. Len(v) : Full(f[i - 1]) => Extends(f[i - 1], f[i])
  BY <1>1 DEF PartWrites
<1>3. /\ \A i \in 0 .. Len(v) : Full(f[i])
      /\ \A j \in 0 .. Len(v) : \A i \in 0 .. j : Extends(f[i], f[j])
  BY <1>1, <1>2, RoundsExtend
<1> QED
  BY <1>1, <1>3

LEMMA ElemsExtend ==
  ASSUME NEW t, PartWrites(t), NEW v, Len(v) \in Nat,
         \A i \in 1 .. Len(v) : SendablePart(t, v[i]), NEW e, Full(e)
  PROVE  Extends(e, EncodeElems(t, v, e))
<1>1. PICK f : /\ f[0] = e /\ EncodeElems(t, v, e) = f[Len(v)]
               /\ \A j \in 0 .. Len(v) : \A i \in 0 .. j : Extends(f[i], f[j])
  BY ElemsWritten
<1> QED
  BY <1>1

LEMMA BoolWritten ==
  ASSUME NEW e, Full(e), NEW b \in Booleans
  PROVE  Extends(e, WriteBool(e, b)) /\ Full(WriteBool(e, b))
<1>1. b \in Seq(Byte) /\ Len(b) = 1 /\ WriteBool(e, b) = WriteScalar(e, b)
  BY BoolIsScalar DEF Full
<1> QED
  BY <1>1, ScalarBytes

LEMMA FieldWritten ==
  ASSUME NEW f, IsField(f), PartWrites(f.type), NEW v, SendableField(f, v), NEW e, Full(e)
  PROVE  Extends(e, EncodeField(f, v, e))
<1>1. CASE ~f.opt
  BY <1>1 DEF EncodeField, SendableField, IsFieldValue, EncodableField, SendablePart, PartWrites
<1>2. CASE f.opt
  <2>1. \A b \in Booleans : Extends(e, WriteBool(e, b)) /\ Full(WriteBool(e, b))
    BY BoolWritten
  <2>2. <<0>> \in Booleans /\ <<1>> \in Booleans
    BY DEF Booleans
  <2>3. CASE v = <<>>
    BY <1>2, <2>1, <2>2, <2>3 DEF EncodeField
  <2>4. CASE v # <<>>
    <3>1. SendablePart(f.type, v[1])
      BY <1>2, <2>4 DEF SendableField, IsFieldValue, EncodableField, SendablePart
    <3>2. Extends(WriteBool(e, <<1>>), EncodePart(f.type, v[1], WriteBool(e, <<1>>)))
      BY <2>1, <2>2, <3>1 DEF PartWrites
    <3> QED
      BY <1>2, <2>1, <2>2, <2>4, <3>2, ExtendsTransitive DEF EncodeField, Full
  <2> QED
    BY <2>3, <2>4
<1> QED
  BY <1>1, <1>2

FieldsBy(S, v, e, n, f) ==
  /\ f[0] = e /\ EncodeFields(S, v, e) = f[n]
  /\ \A i \in 1 .. n : f[i] = EncodeField(Fields(S)[i], v[i], f[i - 1])
  /\ \A i \in 0 .. n : Full(f[i])
  /\ \A j \in 0 .. n : \A i \in 0 .. j : Extends(f[i], f[j])
LEMMA FieldsWritten ==
  ASSUME NEW S, IsStruct(S), PartsFaithful,
         NEW v, \A i \in Places(Fields(S)) : SendableField(Fields(S)[i], v[i]),
         NEW e, Full(e)
  PROVE  \E f : FieldsBy(S, v, e, Len(Fields(S)), f)
<1> DEFINE n == Len(Fields(S))
<1>0. /\ n \in Nat /\ Places(Fields(S)) = 1 .. n
      /\ \A i \in 1 .. n : IsField(Fields(S)[i]) /\ PartWrites(Fields(S)[i].type)
  BY DEF IsStruct, Places, IsField, PartsFaithful, PartFaithful
<1>1. PICK f : /\ f[0] = e /\ EncodeFields(S, v, e) = f[n]
               /\ \A i \in 1 .. n : f[i] = EncodeField(Fields(S)[i], v[i], f[i - 1])
  BY <1>0, EncodeFieldsRun
<1> HIDE DEF n
<1>2. \A i \in 1 .. n : Full(f[i - 1]) => Extends(f[i - 1], f[i])
  BY <1>0, <1>1, FieldWritten
<1>3. /\ \A i \in 0 .. n : Full(f[i])
      /\ \A j \in 0 .. n : \A i \in 0 .. j : Extends(f[i], f[j])
  BY <1>0, <1>1, <1>2, RoundsExtend
<1> QED
  BY <1>1, <1>3 DEF n, FieldsBy

\* The header and the bytes of a member that is present, of a fixed size or not.
Sub(f, x, e) == EncodePart(f.type, x, NewRawEncoder(e.order))
Header(f, x, e) == WriteEMHeader(e, 0, f.id, Len(Sub(f, x, e).buf))

LEMMA MemberWritten ==
  ASSUME NEW f, IsField(f), PartWrites(f.type), PartIsPlain(f.type),
         NEW v, SendableField(f, v), NEW e, Full(e)
  PROVE  /\ f.opt /\ v = <<>> => EncodeMember(f, v, e) = e
         /\ ~(f.opt /\ v = <<>>) =>
              LET x == IF f.opt THEN v[1] ELSE v
              IN  /\ SendablePart(f.type, x)
                  /\ Extends(NewRawEncoder(e.order), Sub(f, x, e))
                  /\ Extends(e, Header(f, x, e))
                  /\ Extends(Header(f, x, e), EncodeMember(f, v, e))
                  /\ EncodeMember(f, v, e) = WriteRaw(Header(f, x, e), Sub(f, x, e).buf)
         /\ Extends(e, EncodeMember(f, v, e))
<1>1. CASE f.opt /\ v = <<>>
  BY <1>1, ExtendsItself DEF EncodeMember
<1>2. CASE ~(f.opt /\ v = <<>>)
  <2> DEFINE x == IF f.opt THEN v[1] ELSE v
             z == NewRawEncoder(e.order)
             s == Sub(f, x, e)
             h == Header(f, x, e)
             r == WriteRaw(h, s.buf)
  <2>1. SendablePart(f.type, x)
    BY <1>2 DEF SendableField, IsFieldValue, EncodableField, SendablePart
  <2> HIDE DEF x
  <2>2. Full(z) /\ z.buf = <<>> /\ z.pos = 0 /\ z.order = e.order
    BY DEF NewRawEncoder, Full, Encoders
  <2>3. Extends(z, s) /\ s.buf \in Seq(Byte)
    BY <2>1, <2>2 DEF PartWrites, Sub, Extends, Encoders
  <2>4. Extends(e, h)
    <3>1. f.id \in Nat /\ Len(s.buf) \in Nat /\ 0 \in {0, 1}
      BY <2>3 DEF IsField
    <3> QED
      BY <3>1, EMHeaderExtends DEF Header, Full
  <2>5. h \in Encoders /\ h.pos = Len(h.buf) /\ h.order = e.order
    BY <2>4 DEF Extends
  <2>6. Extends(h, r)
    BY <2>3, <2>5, AdvanceExtends DEF WriteRaw
  <2>7. EncodeMember(f, v, e) = r
    <3>1. CASE ~IsFixedPrimitive(f.type)
      BY <1>2, <3>1 DEF EncodeMember, Sub, Header, x
    <3>2. CASE IsFixedPrimitive(f.type)
      <4> DEFINE n == f.type.n
      <4>1. /\ n \in {1, 2, 4, 8} /\ x \in Seq(Byte) /\ Len(x) = n
            /\ s = WriteScalar(z, x)
        BY <2>1, <3>2 DEF PartIsPlain, SendablePart, Sub
      <4>2. n \in Nat \ {0}
        BY <4>1
      <4> HIDE DEF n, h, s, z
      <4>3. ASSUME NEW y \in Encoders, y.pos % 4 = 0
            PROVE  WriteScalar(y, x) = WriteRaw(y, Put(y.order, x))
        <5>1. y.buf \in Seq(Byte) /\ y.pos \in Nat
          BY DEF Encoders
        <5>2. Pad(y.pos, n) = 0
          <6>1. Pad(y.pos, n) = Pad(0, n)
            BY <4>1, <4>3, <5>1, PadSame
          <6> QED
            BY <4>1, <6>1 DEF Pad, Cap
        <5>3. y.buf \o Zeros(0) = y.buf /\ y.pos + 0 = y.pos
          BY <5>1 DEF Zeros
        <5>4. EncAlign(y, n) = [buf |-> y.buf, pos |-> y.pos, order |-> y.order]
          BY <5>2, <5>3, Zenon DEF EncAlign, Advance
        <5>5. WriteRaw(EncAlign(y, n), Put(y.order, x)) = WriteRaw(y, Put(y.order, x))
          <6> DEFINE a == EncAlign(y, n)
          <6>1. a.buf = y.buf /\ a.pos = y.pos /\ a.order = y.order
            BY <5>4
          <6> HIDE DEF a
          <6>2. WriteRaw(a, Put(y.order, x)) = WriteRaw(y, Put(y.order, x))
            BY <6>1, Zenon DEF WriteRaw, Advance
          <6> QED
            BY <6>2 DEF a
        <5>6. EncAlign(y, n).order = y.order
          BY <5>4
        <5> QED
          BY <4>1, <5>5, <5>6, Zenon DEF WriteScalar
      <4>4. z \in Encoders /\ h.order = z.order /\ z.pos % 4 = 0
        BY <2>2, <2>5 DEF Full
      <4>5. s.buf = Put(e.order, x) /\ Len(s.buf) = n
        <5>1. s = WriteRaw(z, Put(z.order, x))
          BY <4>1, <4>3, <4>4
        <5>2. Put(e.order, x) \in Seq(Byte) /\ Len(Put(e.order, x)) = n
          BY <4>1, <4>4, <2>2, PutType DEF Encoders
        <5>3. s.buf = <<>> \o Put(e.order, x)
          BY <2>2, <5>1 DEF WriteRaw, Advance
        <5> QED
          BY <5>2, <5>3
      <4>6. h.pos % 4 = 0
        <5>1. n \in Uint32 /\ f.id \in 0 .. MaxMemberID - 1
          <6>1. \A k \in {1, 2, 4, 8} : k \in Uint32
            BY DEF Uint32
          <6>2. f.id \in 0 .. MaxMemberID - 1
            BY MaxMemberIDType DEF IsField
          <6> QED
            BY <4>1, <6>1, <6>2
        <5> QED
          BY <4>5, <5>1, EMHeaderShown DEF h, s, Header
      <4>7. EncodeMember(f, v, e) = WriteScalar(WriteEMHeader(e, 0, f.id, n), x)
        BY <1>2, <3>2 DEF EncodeMember, n, x
      <4>8. WriteEMHeader(e, 0, f.id, n) = h
        BY <4>5 DEF h, s, Header
      <4> QED
        BY <2>5, <4>3, <4>5, <4>6, <4>7, <4>8 DEF h, s
    <3> QED
      BY <3>1, <3>2
  <2>8. Extends(e, r)
    BY <2>4, <2>6, ExtendsTransitive DEF Full
  <2> HIDE DEF h, r, s, z
  <2> QED
    BY <1>2, <2>1, <2>3, <2>4, <2>6, <2>7, <2>8 DEF x, h, r, s, z
<1> QED
  BY <1>1, <1>2

MembersBy(S, v, e, n, f) ==
  /\ f[0] = e /\ EncodeMembers(S, v, e) = f[n]
  /\ \A i \in 1 .. n : f[i] = EncodeMember(Fields(S)[i], v[i], f[i - 1])
  /\ \A i \in 0 .. n : Full(f[i])
  /\ \A j \in 0 .. n : \A i \in 0 .. j : Extends(f[i], f[j])
LEMMA MembersWritten ==
  ASSUME NEW S, IsStruct(S), PartsFaithful,
         NEW v, \A i \in Places(Fields(S)) : SendableField(Fields(S)[i], v[i]),
         NEW e, Full(e)
  PROVE  \E f : MembersBy(S, v, e, Len(Fields(S)), f)
<1> DEFINE n == Len(Fields(S))
<1>0. /\ n \in Nat /\ Places(Fields(S)) = 1 .. n
      /\ \A i \in 1 .. n : /\ IsField(Fields(S)[i]) /\ PartWrites(Fields(S)[i].type)
                           /\ PartIsPlain(Fields(S)[i].type)
  BY DEF IsStruct, Places, IsField, PartsFaithful, PartFaithful
<1>1. PICK f : /\ f[0] = e /\ EncodeMembers(S, v, e) = f[n]
               /\ \A i \in 1 .. n : f[i] = EncodeMember(Fields(S)[i], v[i], f[i - 1])
  BY <1>0, EncodeMembersRun
<1> HIDE DEF n
<1>2. \A i \in 1 .. n : Full(f[i - 1]) => Extends(f[i - 1], f[i])
  BY <1>0, <1>1, MemberWritten
<1>3. /\ \A i \in 0 .. n : Full(f[i])
      /\ \A j \in 0 .. n : \A i \in 0 .. j : Extends(f[i], f[j])
  BY <1>0, <1>1, <1>2, RoundsExtend
<1> QED
  BY <1>1, <1>3 DEF n, MembersBy

\* A body whose size is put in front of it when it is complete.
LEMMA DHeaderWritten ==
  ASSUME NEW e, Full(e), NEW f, Extends(BeginDHeader(e), f)
  PROVE  /\ Extends(e, FinishDHeader(f, DHeaderStart(e)))
         /\ FinishDHeader(f, DHeaderStart(e)).pos = f.pos
<1> DEFINE b == BeginDHeader(e)
           start == DHeaderStart(e)
           g == FinishDHeader(f, start)
<1>1. e \in Encoders /\ e.pos = Len(e.buf) /\ e.pos \in Nat
  BY DEF Full, Encoders
<1>2. Extends(e, b) /\ start \in Nat /\ start >= e.pos /\ start + 4 = Len(b.buf)
  BY <1>1, BeginExtends
<1> HIDE DEF b, start
<1>3. f \in Encoders /\ f.pos = Len(f.buf) /\ f.order = e.order /\ Len(b.buf) <= Len(f.buf)
      /\ Extends(e, f)
  <2>1. Extends(e, f)
    BY <1>1, <1>2, ExtendsTransitive DEF b
  <2> QED
    BY <2>1 DEF Extends, b
<1>4. /\ g \in Encoders /\ g.order = f.order /\ g.pos = f.pos /\ Len(g.buf) = Len(f.buf)
      /\ \A i \in 1 .. Len(f.buf) : i \notin start + 1 .. start + 4 => g.buf[i] = f.buf[i]
  <2>1. start + 4 <= Len(f.buf)
    BY <1>2, <1>3
  <2> QED
    BY <1>2, <1>3, <2>1, FinishPatches
<1> HIDE DEF g
<1>5. ASSUME NEW i \in 1 .. Len(e.buf)
      PROVE  g.buf[i] = e.buf[i]
  <2>1. i \in 1 .. Len(f.buf) /\ i \notin start + 1 .. start + 4
    BY <1>1, <1>2, <1>3 DEF Extends
  <2> QED
    BY <1>3, <1>4, <2>1 DEF Extends
<1>6. Extends(e, g)
  BY <1>3, <1>4, <1>5 DEF Extends
<1> QED
  BY <1>4, <1>6 DEF g, start

LEMMA StructWritten ==
  ASSUME NEW S, IsStruct(S), PartsFaithful,
         NEW v, \A i \in Places(Fields(S)) : SendableField(Fields(S)[i], v[i]),
         NEW e, Full(e)
  PROVE  Extends(e, EncodeStruct(S, v, e))
<1>1. CASE Structs[S].ext = "FINAL"
  <2>1. Extends(e, EncodeFields(S, v, e))
    <3> DEFINE n == Len(Fields(S))
    <3>1. PICK f : FieldsBy(S, v, e, n, f)
      BY FieldsWritten
    <3>2. n \in Nat
      BY DEF IsStruct
    <3> QED
      BY <3>1, <3>2 DEF FieldsBy
  <2> QED
    BY <1>1, <2>1 DEF EncodeStruct
<1>2. CASE Structs[S].ext # "FINAL"
  <2> DEFINE b == BeginDHeader(e)
             n == Len(Fields(S))
  <2>1. Full(b)
    <3>1. Extends(e, b)
      BY BeginExtends DEF Full
    <3> QED
      BY <3>1 DEF Full, Extends
  <2> HIDE DEF b
  <2>2. n \in Nat
    BY DEF IsStruct
  <2>3. Extends(b, EncodeFields(S, v, b))
    <3>1. PICK f : FieldsBy(S, v, b, n, f)
      BY <2>1, FieldsWritten
    <3> QED
      BY <2>2, <3>1 DEF FieldsBy
  <2>4. Extends(b, EncodeMembers(S, v, b))
    <3>1. PICK f : MembersBy(S, v, b, n, f)
      BY <2>1, MembersWritten
    <3> QED
      BY <2>2, <3>1 DEF MembersBy
  <2>5. CASE Structs[S].ext = "APPENDABLE"
    <3>1. EncodeStruct(S, v, e) = FinishDHeader(EncodeFields(S, v, b), DHeaderStart(e))
      BY <2>5 DEF EncodeStruct, b
    <3> QED
      BY <2>3, <3>1, DHeaderWritten DEF b
  <2>6. CASE Structs[S].ext = "MUTABLE"
    <3>1. EncodeStruct(S, v, e) = FinishDHeader(EncodeMembers(S, v, b), DHeaderStart(e))
      BY <2>6 DEF EncodeStruct, b
    <3> QED
      BY <2>4, <3>1, DHeaderWritten DEF b
  <2> QED
    BY <1>2, <2>5, <2>6 DEF IsStruct, Extensibilities
<1> QED
  BY <1>1, <1>2

\* The discriminator of a union that has a value, and that value.
Disc(U, v) == IF v[1] = 0 THEN v[2] ELSE FirstLabel(U, v[1])
CaseType(U, v) == IF v[1] = 0 THEN Unions[U].default[1] ELSE Unions[U].types[v[1]]
CaseValue(v) == IF v[1] = 0 THEN v[3] ELSE v[2]

LEMMA UnionHolds ==
  ASSUME NEW U, IsUnion(U), NEW v, IsUnionValue(U, v),
         Encodable([k |-> "union", name |-> U], v)
  PROVE  /\ v # <<>> /\ Disc(U, v) \in Uint32
         /\ IsTypePart(CaseType(U, v)) /\ SendablePart(CaseType(U, v), CaseValue(v))
         /\ \A e : EncodeUnion(U, v, e) =
                     EncodePart(CaseType(U, v), CaseValue(v), WriteScalar(e, Word(Disc(U, v))))
<1> DEFINE t == [k |-> "union", name |-> U]
<1>1. /\ v # <<>>
      /\ IF v[1] = 0 THEN EncodablePart(Unions[U].default[1], v[3])
         ELSE EncodablePart(Unions[U].types[v[1]], v[2])
  <2>1. t.k = "union" /\ t.name = U
    OBVIOUS
  <2> HIDE DEF t
  <2>2. Encodable(t, v)
    BY DEF t
  <2> QED
    BY <2>1, <2>2 DEF Encodable
<1>2. CASE v[1] = 0
  <2>1. 0 \notin Places(Unions[U].labels)
    BY DEF Places, IsUnion
  <2> QED
    BY <1>1, <1>2, <2>1
    DEF IsUnion, IsUnionValue, Disc, CaseType, CaseValue, SendablePart, EncodeUnion
<1>3. CASE v[1] # 0
  <2>1. v[1] \in Places(Unions[U].labels) /\ IsValuePart(Unions[U].types[v[1]], v[2])
    BY <1>1, <1>3 DEF IsUnionValue
  <2> QED
    BY <1>1, <1>3, <2>1 DEF IsUnion, Disc, CaseType, CaseValue, SendablePart, EncodeUnion
<1> QED
  BY <1>2, <1>3

\* The word in front of a value.
LEMMA WordWritten ==
  ASSUME NEW e, Full(e), NEW n \in Uint32
  PROVE  /\ Word(n) \in Seq(Byte) /\ Len(Word(n)) = 4 /\ Num(Word(n)) = n
         /\ Full(WriteScalar(e, Word(n))) /\ Extends(e, WriteScalar(e, Word(n)))
<1>1. Word(n) \in Seq(Byte) /\ Len(Word(n)) = 4 /\ Num(Word(n)) = n
  BY WordType, NumOfWord DEF Uint32
<1> DEFINE w == Word(n)
<1> HIDE DEF w
<1>2. Len(w) > 0 /\ w \in Seq(Byte)
  BY <1>1 DEF w
<1>3. Full(WriteScalar(e, w)) /\ Extends(e, WriteScalar(e, w))
  BY <1>2, ScalarBytes
<1> QED
  BY <1>1, <1>3 DEF w

\* Encoding only adds to what was encoded before.
LEMMA TypeWrites ==
  ASSUME PartsFaithful, NEW t, IsType(t), NEW v, IsValue(t, v), Encodable(t, v),
         NEW e, Full(e)
  PROVE  Extends(e, EncodeType(t, v, e))
<1>1. CASE t.k = "prim"
  <2>1. v \in Seq(Byte) /\ Len(v) > 0
    BY <1>1 DEF IsType, IsValue
  <2> QED
    BY <1>1, <2>1, ScalarBytes DEF EncodeType
<1>2. CASE t.k = "string"
  <2>1. v \in Seq(Byte)
    BY <1>2 DEF IsValue
  <2> QED
    BY <1>2, <2>1, StringExtends DEF EncodeType, Full
<1>3. CASE t.k = "seq"
  <2> DEFINE l == WriteScalar(e, Word(Len(v)))
  <2>1. /\ Len(v) \in Nat /\ PartWrites(t.of)
        /\ \A i \in 1 .. Len(v) : SendablePart(t.of, v[i])
    BY <1>3 DEF IsType, IsValue, Encodable, SendablePart, Places, PartsFaithful, PartFaithful,
       Uint32
  <2>2. Full(l) /\ Extends(e, l)
    <3>1. Len(v) \in Uint32
      BY <1>3 DEF IsValue
    <3> QED
      BY <3>1, WordWritten
  <2> HIDE DEF l
  <2>3. Extends(l, EncodeElems(t.of, v, l))
    BY <2>1, <2>2, ElemsExtend
  <2>4. EncodeType(t, v, e) = EncodeElems(t.of, v, l)
    BY <1>3 DEF EncodeType, l
  <2> QED
    BY <2>2, <2>3, <2>4, ExtendsTransitive DEF Full
<1>4. CASE t.k = "array"
  <2>1. /\ Len(v) \in Nat /\ PartWrites(t.of)
        /\ \A i \in 1 .. Len(v) : SendablePart(t.of, v[i])
    <3>1. t.len \in Nat /\ v = [i \in 1 .. t.len |-> v[i]]
      BY <1>4 DEF IsType, IsValue, Holds
    <3>2. Len(v) = t.len
      BY <3>1
    <3> QED
      BY <1>4, <3>1, <3>2
      DEF IsType, IsValue, Encodable, SendablePart, PartsFaithful, PartFaithful
  <2> QED
    BY <1>4, <2>1, ElemsExtend DEF EncodeType
<1>5. CASE t.k = "struct"
  <2>1. IsStruct(t.name)
        /\ \A i \in Places(Fields(t.name)) : SendableField(Fields(t.name)[i], v[i])
    BY <1>5 DEF IsType, IsValue, Encodable, SendableField, Places
  <2> QED
    BY <1>5, <2>1, StructWritten DEF EncodeType
<1>6. CASE t.k = "union"
  <2> DEFINE U == t.name
             l == WriteScalar(e, Word(Disc(U, v)))
  <2>1. IsUnion(U) /\ IsUnionValue(U, v)
    BY <1>6 DEF IsType, IsValue
  <2>2. Encodable([k |-> "union", name |-> U], v)
    BY <1>6 DEF Encodable
  <2>3. /\ Disc(U, v) \in Uint32
        /\ IsTypePart(CaseType(U, v)) /\ SendablePart(CaseType(U, v), CaseValue(v))
        /\ EncodeType(t, v, e) = EncodePart(CaseType(U, v), CaseValue(v), l)
    BY <1>6, <2>1, <2>2, UnionHolds DEF EncodeType
  <2>4. Full(l) /\ Extends(e, l)
    BY <2>3, WordWritten
  <2> HIDE DEF l
  <2>5. Extends(l, EncodeType(t, v, e))
    BY <2>3, <2>4 DEF PartsFaithful, PartFaithful, PartWrites
  <2> QED
    BY <2>4, <2>5, ExtendsTransitive DEF Full
<1>7. CASE t.k = "typedef"
  BY <1>7 DEF IsType, IsValue, Encodable, EncodeType, SendablePart, PartsFaithful,
     PartFaithful, PartWrites
<1> QED
  BY <1>1, <1>2, <1>3, <1>4, <1>5, <1>6, <1>7 DEF IsType

-----------------------------------------------------------------------------
(***************************************************************************)
(* Decoding, of whatever data, keeps the shape of the destination          *)
(***************************************************************************)
LEMMA ReadsFollow ==
  ASSUME NEW d, Within(d)
  PROVE  /\ \A n \in {1, 2, 4, 8} : Follows(d, ReadScalar(d, n))
         /\ ReadScalar(d, 4).ok => Num(ReadScalar(d, 4).v) \in Nat
         /\ Follows(d, ReadBool(d)) /\ Follows(d, ReadString(d)) /\ Follows(d, ReadEMHeader(d))
         /\ \A n \in Nat : Follows(d, Skip(d, n))
<1>1. d \in Decoders /\ d.pos <= Bound(d.data)
  BY DEF Within
<1>2. ASSUME NEW r, Reads(d, r)
      PROVE  Follows(d, r)
  BY <1>2 DEF Reads, Follows, Within
<1>3. ASSUME NEW n \in {1, 2, 4, 8}
      PROVE  Reads(d, ReadScalar(d, n))
  BY <1>1, ScalarReads
<1>4. ReadScalar(d, 4).ok => Num(ReadScalar(d, 4).v) \in Nat
  <2>1. ReadScalar(d, 4).ok => ReadScalar(d, 4).v \in Seq(Byte) /\ Len(ReadScalar(d, 4).v) = 4
    BY <1>1, ScalarReads
  <2> QED
    BY <2>1, NumType
<1>5. Reads(d, ReadBool(d)) /\ Reads(d, ReadString(d)) /\ Reads(d, ReadEMHeader(d))
  BY <1>1, BoolReads, StringReads, EMHeaderReads
<1>6. ASSUME NEW n \in Nat
      PROVE  Follows(d, Skip(d, n))
  BY <1>1, SkipStays DEF Follows, Within
<1> QED
  BY <1>2, <1>3, <1>4, <1>5, <1>6

LEMMA FollowsFurther ==
  ASSUME NEW d, NEW q, Follows(d, q), NEW r, Follows(q.d, r)
  PROVE  Follows(d, r)
BY DEF Follows

\* A header that was read says how much is to be skipped.
LEMMA HeaderHasSize ==
  ASSUME NEW d, Within(d), ReadEMHeader(d).ok
  PROVE  MemberSize(ReadEMHeader(d).v[2], ReadEMHeader(d).v[4]) \in Nat
<1> DEFINE h == ReadScalar(d, 4)
           w == h.v
           lc == (w[1] \div 16) % 8
           k == ReadScalar(h.d, 4)
<1>1. ReadEMHeader(d) = EMHeaderBehind(h)
  BY DEF ReadEMHeader
<1>2. h.ok
  BY <1>1 DEF EMHeaderBehind
<1>3. w[1] \in Byte
  <2>1. w \in Seq(Byte) /\ Len(w) = 4
    BY <1>2, ScalarReads DEF Within
  <2> QED
    BY <2>1
<1>4. lc \in 0 .. 7
  BY <1>3 DEF Byte
<1>5. ASSUME NEW n \in Nat
      PROVE  MemberSize(lc, n) \in Nat
  <2> HIDE DEF lc
  <2>1. lc \in {0, 1, 2, 3, 4, 5, 6, 7}
    BY <1>4
  <2> QED
    BY <2>1 DEF MemberSize, CompactSizes
<1> HIDE DEF lc, k
<1>6. CASE lc < 4
  <2>1. ReadEMHeader(d) = Got(h.d, EMHeader(w, 0))
    BY <1>1, <1>2, <1>6 DEF EMHeaderBehind, lc
  <2>2. ReadEMHeader(d).v = EMHeader(w, 0)
    BY <2>1 DEF Got
  <2>3. EMHeader(w, 0)[2] = lc /\ EMHeader(w, 0)[4] = 0
    BY DEF EMHeader, lc
  <2> QED
    BY <1>5, <2>2, <2>3
<1>7. CASE ~(lc < 4)
  <2>1. ReadEMHeader(d) = NextIntBehind(w, k)
    BY <1>1, <1>2, <1>7 DEF EMHeaderBehind, lc, k
  <2>2. k.ok
    BY <2>1 DEF NextIntBehind
  <2>3. ReadEMHeader(d).v = EMHeader(w, Num(k.v))
    BY <2>1, <2>2 DEF NextIntBehind, Got
  <2>4. Num(k.v) \in Nat
    <3>1. Follows(d, h)
      BY ReadsFollow
    <3> QED
      BY <2>2, <3>1, ReadsFollow DEF Follows, k
  <2>5. EMHeader(w, Num(k.v))[2] = lc /\ EMHeader(w, Num(k.v))[4] = Num(k.v)
    BY DEF EMHeader, lc
  <2> QED
    BY <1>5, <2>3, <2>4, <2>5
<1> QED
  BY <1>6, <1>7

LEMMA ElemsFollow ==
  ASSUME NEW t, PartKeepsShape(t), PartZeroes(t), NEW len \in Nat,
         NEW r, r.ok \in BOOLEAN, Within(r.d)
  PROVE  Follows(r.d, DecodeElems(t, len, r))
<1>1. PICK g : /\ g[0] = r /\ DecodeElems(t, len, r) = g[len]
               /\ \A i \in 1 .. len : g[i] = NextElem(t, g[i - 1])
  BY DecodeElemsRun
<1> DEFINE Q == {i \in 0 .. len : Follows(r.d, g[i])}
<1>2. 0 \in Q
  BY <1>1 DEF Follows
<1>3. ASSUME NEW i \in 1 .. len, i - 1 \in Q
      PROVE  i \in Q
  <2>1. Follows(r.d, g[i - 1]) /\ g[i] = NextElem(t, g[i - 1]) /\ i \in 0 .. len
    BY <1>1, <1>3
  <2> DEFINE x == DecodeFresh(t, g[i - 1].d)
  <2>2. Follows(g[i - 1].d, x)
    BY <2>1 DEF Follows, PartKeepsShape, PartZeroes, DecodeFresh
  <2> HIDE DEF x
  <2>3. CASE g[i - 1].ok
    <3>1. g[i].d = x.d /\ g[i].ok = x.ok
      BY <2>1, <2>3 DEF NextElem, Appended, Into, x
    <3> QED
      BY <2>1, <2>2, <3>1 DEF Follows
  <2>4. CASE ~g[i - 1].ok
    BY <2>1, <2>4 DEF NextElem
  <2> QED
    BY <2>3, <2>4
<1> HIDE DEF Q
<1>4. len \in Q
  BY <1>2, <1>3, CountingUp
<1> QED
  BY <1>1, <1>4 DEF Q

\* An element or member is assigned: the others stay.
Assigned(v, i, x, g) ==
  /\ g.d = x.d /\ g.ok = x.ok
  /\ DOMAIN g.v = DOMAIN v
  /\ g.v[i] = x.v
  /\ \A j \in DOMAIN v : j # i => g.v[j] = v[j]
  /\ g.v = [j \in DOMAIN v |-> g.v[j]]
LEMMA SetAtKeeps ==
  ASSUME NEW v, NEW i \in DOMAIN v, NEW x
  PROVE  Assigned(v, i, x, SetAt(v, i, x))
BY DEF SetAt, Into, Assigned

LEMMA ArrayKeepsShape ==
  ASSUME NEW t, PartKeepsShape(t), NEW len \in Nat, NEW d, Within(d),
         NEW old, DOMAIN old = 1 .. len, \A i \in 1 .. len : ShapedPart(t, old[i])
  PROVE  LET r == DecodeArray(t, len, d, old)
         IN  /\ Follows(d, r) /\ DOMAIN r.v = 1 .. len
             /\ \A i \in 1 .. len : ShapedPart(t, r.v[i])
<1>1. PICK g : /\ g[0] = Got(d, old) /\ DecodeArray(t, len, d, old) = g[len]
               /\ \A i \in 1 .. len : g[i] = NextAt(t, i, g[i - 1])
  BY DecodeArrayRun
<1> DEFINE Is(r) == /\ Follows(d, r) /\ DOMAIN r.v = 1 .. len
                    /\ \A j \in 1 .. len : ShapedPart(t, r.v[j])
           Q == {i \in 0 .. len : Is(g[i])}
<1>2. 0 \in Q
  <2>1. Follows(d, Got(d, old)) /\ Got(d, old).v = old
    BY DEF Got, Follows
  <2> QED
    BY <1>1, <2>1
<1>3. ASSUME NEW i \in 1 .. len, i - 1 \in Q
      PROVE  i \in Q
  <2> DEFINE q == g[i - 1]
             x == DecodePart(t, q.d, q.v[i])
  <2>1. /\ Follows(d, q) /\ DOMAIN q.v = 1 .. len /\ i \in 0 .. len
        /\ \A j \in 1 .. len : ShapedPart(t, q.v[j])
        /\ g[i] = NextAt(t, i, q)
    BY <1>1, <1>3
  <2> HIDE DEF q, Is
  <2>2. Follows(q.d, x) /\ ShapedPart(t, x.v)
    BY <2>1 DEF Follows, PartKeepsShape
  <2>3. CASE q.ok
    <3>1. g[i] = SetAt(q.v, i, x) /\ i \in DOMAIN q.v
      BY <2>1, <2>3 DEF NextAt
    <3> HIDE DEF x
    <3>2. /\ g[i].d = x.d /\ g[i].ok = x.ok /\ DOMAIN g[i].v = DOMAIN q.v
          /\ g[i].v[i] = x.v /\ \A j \in DOMAIN q.v : j # i => g[i].v[j] = q.v[j]
      <4>1. Assigned(q.v, i, x, g[i])
        BY <3>1, SetAtKeeps
      <4> QED
        BY <4>1 DEF Assigned
    <3>3. Follows(d, g[i])
      BY <2>1, <2>2, <3>2 DEF Follows
    <3>4. Is(g[i])
      BY <2>1, <2>2, <3>2, <3>3 DEF Is
    <3> QED
      BY <2>1, <3>4
  <2>4. CASE ~q.ok
    <3>1. g[i] = q
      BY <2>1, <2>4 DEF NextAt
    <3> QED
      BY <2>1, <3>1 DEF Is
  <2> QED
    BY <2>3, <2>4
<1> HIDE DEF Q
<1>4. len \in Q
  BY <1>2, <1>3, CountingUp
<1> QED
  BY <1>1, <1>4 DEF Q

ShapedField(f, x) == ~f.opt => ShapedPart(f.type, x)

LEMMA FieldKeepsShape ==
  ASSUME NEW f, PartZeroes(f.type), PartKeepsShape(f.type), NEW d, Within(d),
         NEW old, ShapedField(f, old)
  PROVE  /\ Follows(d, DecodeField(f, d, old)) /\ ShapedField(f, DecodeField(f, d, old).v)
         /\ Follows(d, DecodeMember(f, d, old)) /\ ShapedField(f, DecodeMember(f, d, old).v)
<1>1. ASSUME NEW q, Within(q)
      PROVE  Follows(q, DecodeNew(f.type, q, old))
  <2> DEFINE x == DecodeFresh(f.type, q)
  <2>1. Follows(q, x)
    BY <1>1 DEF PartKeepsShape, PartZeroes, DecodeFresh
  <2> HIDE DEF x
  <2>2. DecodeNew(f.type, q, old).d = x.d /\ DecodeNew(f.type, q, old).ok = x.ok
    BY DEF DecodeNew, Into, x
  <2> QED
    BY <2>1, <2>2 DEF Follows
<1>2. CASE ~f.opt
  <2>1. DecodeField(f, d, old) = DecodePart(f.type, d, old)
        /\ DecodeMember(f, d, old) = DecodePart(f.type, d, old)
    BY <1>2 DEF DecodeField, DecodeMember
  <2> QED
    BY <1>2, <2>1 DEF ShapedField, PartKeepsShape
<1>3. CASE f.opt
  <2> DEFINE b == ReadBool(d)
             r == DecodeOptional(f.type, b, old)
  <2>1. Follows(d, b)
    BY ReadsFollow
  <2> HIDE DEF b
  <2>2. Follows(d, r)
    <3>1. CASE b.ok /\ b.v # <<0>>
      <4>1. r = DecodeNew(f.type, b.d, old)
        BY <3>1 DEF DecodeOptional
      <4> QED
        BY <1>1, <2>1, <4>1 DEF Follows
    <3>2. CASE ~(b.ok /\ b.v # <<0>>)
      BY <2>1, <3>2 DEF DecodeOptional, Into, Follows
    <3> QED
      BY <3>1, <3>2
  <2> QED
    BY <1>1, <1>3, <2>2 DEF DecodeField, DecodeMember, ShapedField, b
<1> QED
  BY <1>2, <1>3

\* The members of a struct that may be decoded into.
ShapedStruct(S, v) ==
  /\ DOMAIN v = Places(Fields(S))
  /\ \A i \in Places(Fields(S)) : ShapedField(Fields(S)[i], v[i])

LEMMA FieldsKeepShape ==
  ASSUME PartsFaithful, NEW S, IsStruct(S), NEW d, Within(d), NEW old, ShapedStruct(S, old)
  PROVE  LET r == DecodeFields(S, Got(d, old))
         IN  Follows(d, r) /\ ShapedStruct(S, r.v)
<1> DEFINE n == Len(Fields(S))
<1>0. /\ n \in Nat /\ Places(Fields(S)) = 1 .. n
      /\ \A i \in 1 .. n : PartZeroes(Fields(S)[i].type) /\ PartKeepsShape(Fields(S)[i].type)
  BY DEF IsStruct, Places, IsField, PartsFaithful, PartFaithful
<1>1. PICK g : /\ g[0] = Got(d, old) /\ DecodeFields(S, Got(d, old)) = g[n]
               /\ \A i \in 1 .. n : g[i] = NextField(S, i, g[i - 1])
  BY <1>0, DecodeFieldsRun
<1> HIDE DEF n
<1> DEFINE Q == {i \in 0 .. n : Follows(d, g[i]) /\ ShapedStruct(S, g[i].v)}
<1>2. 0 \in Q
  <2>1. Follows(d, Got(d, old)) /\ Got(d, old).v = old
    BY DEF Got, Follows
  <2> QED
    BY <1>0, <1>1, <2>1
<1>3. ASSUME NEW i \in 1 .. n, i - 1 \in Q
      PROVE  i \in Q
  <2> DEFINE q == g[i - 1]
             x == DecodeField(Fields(S)[i], q.d, q.v[i])
  <2>1. /\ Follows(d, q) /\ ShapedStruct(S, q.v) /\ i \in 0 .. n
        /\ g[i] = NextField(S, i, q)
    BY <1>1, <1>3
  <2> HIDE DEF q
  <2>2. Follows(q.d, x) /\ ShapedField(Fields(S)[i], x.v)
    <3>1. Within(q.d) /\ ShapedField(Fields(S)[i], q.v[i])
      BY <1>0, <2>1 DEF Follows, ShapedStruct
    <3> QED
      BY <1>0, <3>1, FieldKeepsShape
  <2> HIDE DEF x
  <2>3. CASE q.ok
    <3>1. g[i] = SetAt(q.v, i, x) /\ i \in DOMAIN q.v
      BY <1>0, <2>1, <2>3 DEF NextField, x, ShapedStruct
    <3>2. /\ g[i].d = x.d /\ g[i].ok = x.ok /\ DOMAIN g[i].v = DOMAIN q.v
          /\ g[i].v[i] = x.v /\ \A j \in DOMAIN q.v : j # i => g[i].v[j] = q.v[j]
      <4>1. Assigned(q.v, i, x, g[i])
        BY <3>1, SetAtKeeps
      <4> QED
        BY <4>1 DEF Assigned
    <3>3. Follows(d, g[i])
      BY <2>1, <2>2, <3>2 DEF Follows
    <3>4. ShapedStruct(S, g[i].v)
      <4>1. Places(Fields(S)) = DOMAIN q.v
        BY <2>1 DEF ShapedStruct
      <4>2. ASSUME NEW j \in Places(Fields(S))
            PROVE  ShapedField(Fields(S)[j], g[i].v[j])
        BY <2>1, <2>2, <3>2, <4>1 DEF ShapedStruct
      <4> QED
        BY <3>2, <4>1, <4>2 DEF ShapedStruct
    <3> QED
      BY <2>1, <3>3, <3>4
  <2>4. CASE ~q.ok
    BY <2>1, <2>4 DEF NextField
  <2> QED
    BY <2>3, <2>4
<1> HIDE DEF Q
<1>4. n \in Q
  BY <1>0, <1>2, <1>3, CountingUp
<1> QED
  BY <1>1, <1>4 DEF Q, n

LEMMA NextMemberKeepsShape ==
  ASSUME PartsFaithful, NEW S, IsStruct(S), NEW end,
         NEW r, Follows(r.d, r), ShapedStruct(S, r.v)
  PROVE  Follows(r.d, NextMember(S, end, r)) /\ ShapedStruct(S, NextMember(S, end, r).v)
<1> DEFINE h == ReadEMHeader(r.d)
           m == NextMember(S, end, r)
           K == Known(S, h.v[3])
<1>1. Follows(r.d, h)
  BY ReadsFollow DEF Follows
<1>2. CASE ~r.ok \/ BodyRead(r.d, end)
  BY <1>2 DEF NextMember
<1>3. CASE ~(~r.ok \/ BodyRead(r.d, end))
  <2>1. m = DecodeNext(S, r.v, h)
    BY <1>3 DEF NextMember
  <2>2. CASE ~h.ok
    <3>1. m = Into(h, r.v)
      BY <2>1, <2>2 DEF DecodeNext
    <3> HIDE DEF h, m
    <3> QED
      BY <1>1, <3>1 DEF Into, Follows, m
  <2>3. CASE h.ok /\ K = {}
    <3> DEFINE s == MemberSize(h.v[2], h.v[4])
               k == Skip(h.d, s)
    <3>1. s \in Nat
      BY <2>3, HeaderHasSize DEF Follows
    <3>2. m = Into(k, r.v)
      BY <2>1, <2>3 DEF DecodeNext
    <3> HIDE DEF s, h
    <3>3. Follows(h.d, k)
      BY <1>1, <3>1, ReadsFollow DEF Follows
    <3> HIDE DEF k, m
    <3> QED
      BY <1>1, <3>2, <3>3 DEF Into, Follows, m
  <2>4. CASE h.ok /\ K # {}
    <3> DEFINE i == CHOOSE i \in K : TRUE
               x == DecodeMember(Fields(S)[i], h.d, r.v[i])
    <3>1. i \in Places(Fields(S))
      <4>1. i \in K
        BY <2>4
      <4> QED
        BY <4>1 DEF Known, Places
    <3>2. m = SetAt(r.v, i, x)
      BY <2>1, <2>4 DEF DecodeNext, DecodeKnown
    <3> HIDE DEF i, h
    <3>3. /\ PartZeroes(Fields(S)[i].type) /\ PartKeepsShape(Fields(S)[i].type)
          /\ ShapedField(Fields(S)[i], r.v[i]) /\ i \in DOMAIN r.v
      BY <3>1 DEF IsStruct, Places, IsField, PartsFaithful, PartFaithful, ShapedStruct
    <3>4. Follows(h.d, x) /\ ShapedField(Fields(S)[i], x.v)
      <4>1. Within(h.d)
        BY <1>1 DEF Follows
      <4> QED
        BY <3>3, <4>1, FieldKeepsShape
    <3> HIDE DEF x, m
    <3>5. /\ m.d = x.d /\ m.ok = x.ok /\ DOMAIN m.v = DOMAIN r.v
          /\ m.v[i] = x.v /\ \A j \in DOMAIN r.v : j # i => m.v[j] = r.v[j]
      <4>1. Assigned(r.v, i, x, m)
        BY <3>2, <3>3, SetAtKeeps
      <4> QED
        BY <4>1 DEF Assigned
    <3>6. Follows(r.d, m)
      BY <1>1, <3>4, <3>5 DEF Follows
    <3>7. ShapedStruct(S, m.v)
      <4>1. Places(Fields(S)) = DOMAIN r.v
        BY DEF ShapedStruct
      <4>2. ASSUME NEW j \in Places(Fields(S))
            PROVE  ShapedField(Fields(S)[j], m.v[j])
        BY <3>4, <3>5, <4>1 DEF ShapedStruct
      <4> QED
        BY <3>5, <4>1, <4>2 DEF ShapedStruct
    <3> QED
      BY <3>6, <3>7 DEF m
  <2> QED
    BY <2>2, <2>3, <2>4
<1> QED
  BY <1>2, <1>3

\* The number of rounds the loop over the members has, at most.
Rounds(d) == Len(d.data) \div 4
LEMMA RoundsType ==
  ASSUME NEW d, Within(d)
  PROVE  Rounds(d) \in Nat
<1>1. Len(d.data) \in Nat
  BY DEF Within, Decoders
<1>2. ASSUME NEW l \in Nat
      PROVE  l \div 4 \in Nat
  OBVIOUS
<1> QED
  BY <1>1, <1>2 DEF Rounds

LEMMA MembersRun ==
  ASSUME NEW S, NEW end, NEW r, Within(r.d)
  PROVE  \E g : /\ g[0] = r /\ DecodeMembers(S, end, r) = g[Rounds(r.d)]
                /\ \A i \in 1 .. Rounds(r.d) : g[i] = NextMember(S, end, g[i - 1])
<1> DEFINE n == Rounds(r.d)
<1>1. n \in Nat
  BY RoundsType
<1>2. n = Len(r.d.data) \div 4
  BY DEF Rounds
<1> HIDE DEF n
<1>3. PICK g : MembersAre(S, end, r, n, g)
  BY <1>1, DecodeMembersRun
<1>4. /\ g[0] = r /\ DecodeMembers(S, end, r) = g[n]
      /\ \A i \in 1 .. n : g[i] = NextMember(S, end, g[i - 1])
  BY <1>2, <1>3 DEF MembersAre
<1> QED
  BY <1>4 DEF n

\* The same of a reader that knows no member.
LEMMA WalkRun ==
  ASSUME NEW d, Within(d), NEW end
  PROVE  \E g : /\ g[0] = Got(d, <<>>)
                /\ WalkHeaders(d, end) <=> g[Rounds(d)].ok /\ g[Rounds(d)].d.pos = end
                /\ \A i \in 1 .. Rounds(d) : g[i] = PastMember(end, g[i - 1])
<1> DEFINE n == Rounds(d)
<1>1. n \in Nat
  BY RoundsType
<1>2. n = Len(d.data) \div 4
  BY DEF Rounds
<1> HIDE DEF n
<1>3. PICK g : WalkIs(d, end, n, g)
  BY <1>1, WalkHeadersRun
<1>4. /\ g[0] = Got(d, <<>>) /\ (WalkHeaders(d, end) <=> g[n].ok /\ g[n].d.pos = end)
      /\ \A i \in 1 .. n : g[i] = PastMember(end, g[i - 1])
  BY <1>2, <1>3 DEF WalkIs
<1> QED
  BY <1>4 DEF n

LEMMA MembersKeepShape ==
  ASSUME PartsFaithful, NEW S, IsStruct(S), NEW d, Within(d), NEW end,
         NEW old, ShapedStruct(S, old)
  PROVE  LET r == DecodeMembers(S, end, Got(d, old))
         IN  Follows(d, r) /\ ShapedStruct(S, r.v)
<1> DEFINE a == Got(d, old)
           n == Rounds(a.d)
<1>0. n \in Nat /\ Within(a.d) /\ Follows(d, a) /\ a.v = old
  <2>1. Follows(d, a) /\ a.v = old
    BY DEF Got, Follows
  <2> HIDE DEF a
  <2> QED
    BY <2>1, RoundsType DEF Follows
<1> HIDE DEF a
<1>1. PICK g : /\ g[0] = a /\ DecodeMembers(S, end, a) = g[n]
               /\ \A i \in 1 .. n : g[i] = NextMember(S, end, g[i - 1])
  BY <1>0, MembersRun
<1> HIDE DEF n
<1> DEFINE Q == {i \in 0 .. n : Follows(d, g[i]) /\ ShapedStruct(S, g[i].v)}
<1>2. 0 \in Q
  BY <1>0, <1>1
<1>3. ASSUME NEW i \in 1 .. n, i - 1 \in Q
      PROVE  i \in Q
  <2> DEFINE q == g[i - 1]
  <2>1. /\ Follows(d, q) /\ ShapedStruct(S, q.v) /\ i \in 0 .. n
        /\ g[i] = NextMember(S, end, q)
    BY <1>1, <1>3
  <2> HIDE DEF q
  <2>2. Follows(q.d, q)
    BY <2>1 DEF Follows
  <2>3. Follows(q.d, g[i]) /\ ShapedStruct(S, g[i].v)
    BY <2>1, <2>2, NextMemberKeepsShape
  <2>4. Follows(d, g[i])
    BY <2>1, <2>3 DEF Follows
  <2> QED
    BY <2>1, <2>3, <2>4
<1> HIDE DEF Q
<1>4. n \in Q
  BY <1>0, <1>2, <1>3, CountingUp
<1>5. DecodeMembers(S, end, Got(d, old)) = g[n]
  BY <1>1 DEF a
<1> QED
  BY <1>4, <1>5 DEF Q

LEMMA StructKeepsShape ==
  ASSUME PartsFaithful, NEW S, IsStruct(S), NEW d, Within(d), NEW old, ShapedStruct(S, old)
  PROVE  LET r == DecodeStruct(S, d, old)
         IN  Follows(d, r) /\ ShapedStruct(S, r.v)
<1> DEFINE r == DecodeStruct(S, d, old)
           h == ReadDHeader(d)
<1>1. CASE Structs[S].ext = "FINAL"
  BY <1>1, FieldsKeepShape DEF DecodeStruct
<1>2. CASE Structs[S].ext # "FINAL"
  <2>1. Follows(d, h)
    BY ReadsFollow DEF ReadDHeader
  <2>2. r = DecodeBody(S, h, old)
    BY <1>2 DEF DecodeStruct
  <2> HIDE DEF r, h
  <2>3. CASE ~h.ok
    <3>1. r = Into(h, old)
      BY <2>2, <2>3 DEF DecodeBody
    <3>2. r.d = h.d /\ r.ok = h.ok /\ r.v = old
      BY <3>1 DEF Into
    <3> QED
      BY <2>1, <3>2 DEF Follows, r
  <2>4. CASE h.ok
    <3>1. Within(h.d)
      BY <2>1 DEF Follows
    <3>2. Follows(h.d, r) /\ ShapedStruct(S, r.v)
      <4>1. CASE Structs[S].ext = "APPENDABLE"
        <5>1. r = DecodeFields(S, Got(h.d, old))
          BY <2>2, <2>4, <4>1 DEF DecodeBody
        <5> QED
          BY <3>1, <5>1, FieldsKeepShape
      <4>2. CASE Structs[S].ext # "APPENDABLE"
        <5> DEFINE end == h.d.pos + Num(h.v)
        <5>1. r = DecodeMembers(S, end, Got(h.d, old))
          BY <2>2, <2>4, <4>2 DEF DecodeBody
        <5> HIDE DEF end
        <5> QED
          BY <3>1, <5>1, MembersKeepShape
      <4> QED
        BY <4>1, <4>2
    <3>3. Follows(d, r)
      BY <2>1, <3>2, FollowsFurther
    <3> QED
      BY <3>2, <3>3 DEF r
  <2> QED
    BY <2>3, <2>4
<1> QED
  BY <1>1, <1>2

LEMMA CaseOfType ==
  ASSUME NEW U, NEW label
  PROVE  LET c == CaseOf(U, label)
         IN  c = 0 \/ (c \in Places(Unions[U].labels) /\ HasLabel(U, c, label))
<1> DEFINE cs == {c \in 1 .. Len(Unions[U].labels) : HasLabel(U, c, label)}
<1>1. CASE cs = {}
  BY <1>1 DEF CaseOf
<1>2. CASE cs # {}
  <2>1. CaseOf(U, label) \in cs
    BY <1>2 DEF CaseOf
  <2> QED
    BY <2>1 DEF Places
<1> QED
  BY <1>1, <1>2

LEMMA UnionFollows ==
  ASSUME PartsFaithful, NEW U, IsUnion(U), NEW d, Within(d), NEW old
  PROVE  Follows(d, DecodeUnion(U, d, old))
<1> DEFINE n == ReadScalar(d, 4)
           label == Num(n.v)
           c == CaseOf(U, label)
           x == DecodeFresh(Unions[U].types[c], n.d)
           y == DecodeFresh(Unions[U].default[1], n.d)
           r == DecodeUnion(U, d, old)
<1>1. Follows(d, n)
  BY ReadsFollow
<1>2. CASE ~n.ok
  <2>1. r = Into(n, old)
    BY <1>2 DEF DecodeUnion
  <2> HIDE DEF n, r
  <2>2. r.d = n.d /\ r.ok = n.ok
    BY <2>1 DEF Into
  <2> QED
    BY <1>1, <2>2 DEF Follows, r
<1>3. CASE n.ok
  <2>1. r = DecodeCase(U, c, label, n.d, old)
    BY <1>3 DEF DecodeUnion
  <2>2. c = 0 \/ (c \in Places(Unions[U].labels) /\ HasLabel(U, c, label))
    BY CaseOfType
  <2>3. c # 0 => IsTypePart(Unions[U].types[c])
    BY <2>2 DEF IsUnion
  <2> HIDE DEF n, label, c, r
  <2>4. ASSUME NEW t, IsTypePart(t)
        PROVE  Follows(n.d, DecodeFresh(t, n.d))
    BY <1>1, <2>4 DEF DecodeFresh, PartsFaithful, PartFaithful, PartZeroes, PartKeepsShape,
       Follows
  <2>5. CASE EmptyLabel(U, label)
    <3>1. r = Got(n.d, old)
      BY <2>1, <2>5 DEF DecodeCase
    <3>2. r.d = n.d /\ r.ok = TRUE
      BY <3>1 DEF Got
    <3> QED
      BY <1>1, <3>2 DEF Follows, r
  <2>6. CASE ~EmptyLabel(U, label) /\ c # 0
    <3>1. r = Into(x, IF x.ok THEN <<c, x.v>> ELSE old)
      BY <2>1, <2>6 DEF DecodeCase
    <3>2. Follows(n.d, x)
      BY <2>3, <2>4, <2>6
    <3> HIDE DEF x
    <3>3. r.d = x.d /\ r.ok = x.ok
      BY <3>1 DEF Into
    <3> QED
      BY <1>1, <3>2, <3>3 DEF Follows, r
  <2>7. CASE ~EmptyLabel(U, label) /\ c = 0 /\ Unions[U].default = <<>>
    <3>1. r = Into(Failed(n.d), old)
      BY <2>1, <2>7 DEF DecodeCase
    <3>2. r.d = n.d /\ r.ok = FALSE
      BY <3>1 DEF Into, Failed
    <3> QED
      BY <1>1, <3>2 DEF Follows, r
  <2>8. CASE ~EmptyLabel(U, label) /\ c = 0 /\ Unions[U].default # <<>>
    <3>1. r = Into(y, IF y.ok THEN <<0, label, y.v>> ELSE old)
      BY <2>1, <2>8 DEF DecodeCase
    <3>2. Follows(n.d, y)
      BY <2>4, <2>8 DEF IsUnion
    <3> HIDE DEF y
    <3>3. r.d = y.d /\ r.ok = y.ok
      BY <3>1 DEF Into
    <3> QED
      BY <1>1, <3>2, <3>3 DEF Follows, r
  <2> QED
    BY <2>5, <2>6, <2>7, <2>8
<1> QED
  BY <1>2, <1>3

\* A fresh destination has the shape decoding needs, and decoding keeps it.
LEMMA TypeKeepsShape ==
  ASSUME PartsFaithful, NEW t, IsType(t)
  PROVE  /\ Shaped(t, Zero(t))
         /\ \A d, old : Within(d) /\ Shaped(t, old) =>
              Follows(d, DecodeType(t, d, old)) /\ Shaped(t, DecodeType(t, d, old).v)
<1>1. ASSUME NEW u, IsTypePart(u)
      PROVE  PartZeroes(u) /\ PartKeepsShape(u)
  BY <1>1 DEF PartsFaithful, PartFaithful
<1>2. Shaped(t, Zero(t))
  <2>1. CASE t.k = "array"
    BY <1>1, <2>1 DEF Shaped, Zero, IsType, PartZeroes
  <2>2. CASE t.k = "struct"
    <3>1. IsStruct(t.name)
      BY <2>2 DEF IsType
    <3> DEFINE z == [i \in 1 .. Len(Fields(t.name)) |->
                       IF Fields(t.name)[i].opt THEN <<>>
                       ELSE ZeroPart(Fields(t.name)[i].type)]
    <3>2. Zero(t) = z
      BY <2>2 DEF Zero
    <3>3. ASSUME NEW i \in Places(Fields(t.name)), ~Fields(t.name)[i].opt
          PROVE  ShapedPart(Fields(t.name)[i].type, z[i])
      BY <1>1, <3>1, <3>3 DEF IsStruct, IsField, PartZeroes, Places
    <3>4. DOMAIN z = Places(Fields(t.name))
      BY DEF Places
    <3> HIDE DEF z
    <3> QED
      BY <2>2, <3>2, <3>3, <3>4 DEF Shaped
  <2>3. CASE t.k = "typedef"
    BY <1>1, <2>3 DEF Shaped, Zero, IsType, PartZeroes
  <2> QED
    BY <2>1, <2>2, <2>3 DEF Shaped
<1>3. ASSUME NEW d, Within(d), NEW old, Shaped(t, old)
      PROVE  Follows(d, DecodeType(t, d, old)) /\ Shaped(t, DecodeType(t, d, old).v)
  <2> DEFINE r == DecodeType(t, d, old)
  <2>1. CASE t.k \in {"prim", "string"}
    <3> DEFINE q == IF t.k = "prim" THEN ReadScalar(d, t.n) ELSE ReadString(d)
    <3>1. r = Assign(q, old)
      BY <2>1 DEF DecodeType
    <3>2. Follows(d, q)
      BY <1>3, <2>1, ReadsFollow DEF IsType
    <3> HIDE DEF q, r
    <3>3. Follows(d, r)
      <4>1. r.d = q.d /\ r.ok = q.ok
        BY <3>1, <3>2 DEF Assign, Into, Follows
      <4> QED
        BY <3>2, <4>1 DEF Follows
    <3> QED
      BY <2>1, <3>3 DEF Shaped, r
  <2>2. CASE t.k = "seq"
    <3> DEFINE n == ReadScalar(d, 4)
    <3>1. Follows(d, n) /\ (n.ok => Num(n.v) \in Nat)
      BY <1>3, ReadsFollow
    <3>2. r = IF n.ok THEN DecodeElems(t.of, Num(n.v), Got(n.d, <<>>)) ELSE Into(n, old)
      BY <2>2 DEF DecodeType, DecodeSeq
    <3>3. PartZeroes(t.of) /\ PartKeepsShape(t.of)
      BY <1>1, <2>2 DEF IsType
    <3> HIDE DEF n, r
    <3>4. Follows(d, r)
      <4>1. CASE n.ok
        <5> DEFINE g == Got(n.d, <<>>)
        <5>1. Within(g.d) /\ g.ok \in BOOLEAN /\ g.d = n.d
          BY <3>1 DEF Got, Follows
        <5>2. r = DecodeElems(t.of, Num(n.v), g)
          BY <3>2, <4>1
        <5> HIDE DEF g
        <5>3. Follows(n.d, r)
          BY <3>1, <3>3, <4>1, <5>1, <5>2, ElemsFollow
        <5> QED
          BY <3>1, <5>3, FollowsFurther
      <4>2. CASE ~n.ok
        <5>1. r.d = n.d /\ r.ok = n.ok
          BY <3>2, <4>2 DEF Into
        <5> QED
          BY <3>1, <5>1 DEF Follows
      <4> QED
        BY <4>1, <4>2
    <3> QED
      BY <2>2, <3>4 DEF Shaped, r
  <2>3. CASE t.k = "array"
    <3>1. t.len \in Nat /\ PartKeepsShape(t.of) /\ DOMAIN old = 1 .. t.len
          /\ \A i \in 1 .. t.len : ShapedPart(t.of, old[i])
      BY <1>1, <1>3, <2>3 DEF IsType, Shaped
    <3>2. r = DecodeArray(t.of, t.len, d, old)
      BY <2>3 DEF DecodeType
    <3> HIDE DEF r
    <3>3. /\ Follows(d, r) /\ DOMAIN r.v = 1 .. t.len
          /\ \A i \in 1 .. t.len : ShapedPart(t.of, r.v[i])
      BY <1>3, <3>1, <3>2, ArrayKeepsShape
    <3> QED
      BY <2>3, <3>3 DEF Shaped, r
  <2>4. CASE t.k = "struct"
    <3>1. IsStruct(t.name) /\ ShapedStruct(t.name, old) /\ r = DecodeStruct(t.name, d, old)
      BY <1>3, <2>4 DEF IsType, Shaped, ShapedStruct, ShapedField, DecodeType
    <3> HIDE DEF r
    <3>2. Follows(d, r) /\ ShapedStruct(t.name, r.v)
      BY <1>3, <3>1, StructKeepsShape
    <3> QED
      BY <2>4, <3>2 DEF Shaped, ShapedStruct, ShapedField, r
  <2>5. CASE t.k = "union"
    BY <1>3, <2>5, UnionFollows DEF IsType, DecodeType, Shaped
  <2>6. CASE t.k = "typedef"
    BY <1>1, <1>3, <2>6 DEF IsType, DecodeType, Shaped, PartKeepsShape
  <2> QED
    BY <2>1, <2>2, <2>3, <2>4, <2>5, <2>6 DEF IsType
<1> QED
  BY <1>2, <1>3

-----------------------------------------------------------------------------
(***************************************************************************)
(* What was encoded is read back                                           *)
(***************************************************************************)
\* What is behind something that was read.
LEMMA ThenShown ==
  ASSUME NEW e, Full(e), NEW f, Extends(e, f), NEW g, Extends(f, g),
         NEW d, Shows(e, g, d), NEW r, Shown(e, f, d, r)
  PROVE  /\ r.ok => Shows(f, g, r.d)
         /\ \A s : /\ s.ok \in BOOLEAN /\ (r.ok => Shown(f, g, r.d, s)) /\ (~r.ok => ~s.ok)
                   => Shown(e, g, d, s)
<1> DEFINE p == End(e, f, d)
           q == End(e, g, d)
<1>1. /\ p \in Nat /\ p <= q
      /\ p <= Len(d.data) => Shows(f, g, At(d, p)) /\ End(f, g, At(d, p)) = q
  BY ShowsSplits
<1>2. q \in Nat
  <2>1. Extends(g, g)
    BY ShowsSplits, ExtendsItself
  <2>2. Extends(e, g)
    BY ExtendsTransitive DEF Full
  <2> QED
    BY <2>1, <2>2, ShowsSplits
<1>3. Len(d.data) \in Nat
  BY DEF Shows, Decoders
<1>4. r.ok \in BOOLEAN /\ (r.ok <=> p <= Len(d.data)) /\ (r.ok => r.d = At(d, p))
  BY DEF Shown
<1>5. At(d, p).data = d.data /\ \A k : At(At(d, p), k) = At(d, k)
  BY DEF At
<1> HIDE DEF p
<1>6. ASSUME NEW s, s.ok \in BOOLEAN, r.ok => Shown(f, g, r.d, s), ~r.ok => ~s.ok
      PROVE  Shown(e, g, d, s)
  <2>1. CASE r.ok
    <3> DEFINE h == At(d, p)
    <3>1. Shown(f, g, h, s) /\ End(f, g, h) = q /\ h.data = d.data /\ At(h, q) = At(d, q)
      BY <1>1, <1>4, <1>5, <1>6, <2>1
    <3> HIDE DEF h, q
    <3> QED
      BY <3>1 DEF Shown, q
  <2>2. CASE ~r.ok
    <3>1. ~(q <= Len(d.data))
      BY <1>1, <1>2, <1>3, <1>4, <2>2
    <3> QED
      BY <1>6, <2>2, <3>1 DEF Shown
  <2> QED
    BY <1>4, <2>1, <2>2
<1> QED
  BY <1>1, <1>4, <1>6

\* What was encoded up to some point is not longer than all of it.
LEMMA ExtendsUint32 ==
  ASSUME NEW e, Extends(e, e), NEW f, Extends(e, f), f.pos \in Uint32
  PROVE  e.pos \in Uint32
<1>1. e.pos \in Nat /\ e.pos <= f.pos
  BY DEF Extends, Encoders
<1> QED
  BY <1>1, LessIsUint32

LEMMA PartRead ==
  ASSUME NEW t, PartReads(t), NEW v, SendablePart(t, v), NEW e, Full(e),
         EncodePart(t, v, e).pos \in Uint32,
         NEW d, Shows(e, EncodePart(t, v, e), d), NEW old, ShapedPart(t, old)
  PROVE  /\ Shown(e, EncodePart(t, v, e), d, DecodePart(t, d, old))
         /\ DecodePart(t, d, old).ok =>
              /\ old = ZeroPart(t) => DecodePart(t, d, old).v = v
              /\ Alike(t, v, DecodePart(t, d, old).v)
BY DEF PartReads

LEMMA AppendOne ==
  ASSUME NEW n \in Nat, NEW i \in 1 .. n, NEW v
  PROVE  Append([j \in 1 .. i - 1 |-> v[j]], v[i]) = [j \in 1 .. i |-> v[j]]
<1> DEFINE U == {v[j] : j \in 1 .. n}
           s == [j \in 1 .. i - 1 |-> v[j]]
           a == Append(s, v[i])
<1>1. s \in Seq(U) /\ Len(s) = i - 1 /\ v[i] \in U
  OBVIOUS
<1>2. \A j \in 1 .. i - 1 : s[j] = v[j]
  OBVIOUS
<1> HIDE DEF s, U
<1>3. a \in Seq(U) /\ Len(a) = i /\ a[i] = v[i] /\ \A j \in 1 .. i - 1 : a[j] = s[j]
  BY <1>1
<1> HIDE DEF a
<1>4. a = [j \in 1 .. i |-> a[j]]
  BY <1>3
<1>5. \A j \in 1 .. i : a[j] = v[j]
  BY <1>2, <1>3
<1>6. a = [j \in 1 .. i |-> v[j]]
  BY <1>4, <1>5
<1> QED
  BY <1>6 DEF a, s

\* The elements of a sequence are read into a fresh slice.
LEMMA ElemsRead ==
  ASSUME NEW t, PartFaithful(t), NEW v, Len(v) \in Nat, Holds(v, Len(v)),
         \A i \in 1 .. Len(v) : SendablePart(t, v[i]),
         NEW e, Full(e), EncodeElems(t, v, e).pos \in Uint32,
         NEW d, Shows(e, EncodeElems(t, v, e), d)
  PROVE  LET r == DecodeElems(t, Len(v), Got(d, <<>>))
         IN  Shown(e, EncodeElems(t, v, e), d, r) /\ (r.ok => r.v = v)
<1> DEFINE n == Len(v)
<1>1. PartWrites(t) /\ PartReads(t) /\ PartZeroes(t)
  BY DEF PartFaithful
<1>2. PICK f : /\ f[0] = e /\ EncodeElems(t, v, e) = f[n]
               /\ \A i \in 1 .. n : f[i] = EncodePart(t, v[i], f[i - 1])
               /\ \A i \in 0 .. n : Full(f[i])
               /\ \A j \in 0 .. n : \A i \in 0 .. j : Extends(f[i], f[j])
  BY <1>1, ElemsWritten, SMTT(40)
<1>0. n \in Nat
  OBVIOUS
<1> HIDE DEF n
<1>3. PICK g : /\ g[0] = Got(d, <<>>) /\ DecodeElems(t, n, Got(d, <<>>)) = g[n]
               /\ \A i \in 1 .. n : g[i] = NextElem(t, g[i - 1])
  BY <1>0, DecodeElemsRun
<1> DEFINE Part(i) == [j \in 1 .. i |-> v[j]]
           Q == {i \in 0 .. n : g[i].v = Part(i)}
<1>4. g[0].ok = TRUE /\ g[0].d = d /\ 0 \in Q
  <2>1. g[0].ok = TRUE /\ g[0].d = d /\ g[0].v = <<>>
    BY <1>3 DEF Got
  <2>2. Part(0) = <<>> /\ 0 \in 0 .. n
    BY DEF n
  <2> QED
    BY <2>1, <2>2
<1>5. ASSUME NEW i \in 1 .. n, ~g[i - 1].ok
      PROVE  g[i] = g[i - 1]
  BY <1>3, <1>5 DEF NextElem
<1>6. ASSUME NEW i \in 1 .. n, g[i - 1].ok, i - 1 \in Q, Shows(f[i - 1], f[i], g[i - 1].d)
      PROVE  Shown(f[i - 1], f[i], g[i - 1].d, g[i]) /\ (g[i].ok => i \in Q)
  <2> DEFINE a == f[i - 1]
             q == g[i - 1]
             x == DecodePart(t, q.d, ZeroPart(t))
  <2>1. f[i] = EncodePart(t, v[i], a) /\ Full(a) /\ SendablePart(t, v[i])
    <3>1. i - 1 \in 0 .. n
      BY <1>0
    <3> QED
      BY <1>2, <3>1 DEF n
  <2>2. f[i].pos \in Uint32
    <3>1. i \in 0 .. n /\ n \in 0 .. n /\ i \in 0 .. i
      BY <1>0
    <3>2. Extends(f[i], f[i]) /\ Extends(f[i], f[n]) /\ f[n].pos \in Uint32
      BY <1>2, <3>1
    <3> QED
      BY <3>2, ExtendsUint32
  <2>3. g[i] = Appended(q.v, x) /\ q.v = Part(i - 1) /\ i \in 0 .. n
    BY <1>3, <1>6 DEF NextElem, DecodeFresh
  <2>4. Shows(a, f[i], q.d)
    BY <1>6
  <2> HIDE DEF a, q, x
  <2>5. Shown(a, f[i], q.d, x) /\ (x.ok => x.v = v[i])
    <3>1. ShapedPart(t, ZeroPart(t)) /\ EncodePart(t, v[i], a).pos \in Uint32
          /\ Shows(a, EncodePart(t, v[i], a), q.d)
      BY <1>1, <2>1, <2>2, <2>4 DEF PartZeroes
    <3> QED
      <4>1. PartReads(t) /\ Full(a) /\ SendablePart(t, v[i])
        BY <1>1, <2>1
      <4>2. Shown(a, EncodePart(t, v[i], a), q.d, x) /\ (x.ok => x.v = v[i])
        BY <3>1, <4>1, PartRead DEF x
      <4> QED
        BY <2>1, <4>2
  <2>6. g[i].d = x.d /\ g[i].ok = x.ok /\ g[i].v = Append(q.v, x.v)
    BY <2>3 DEF Appended, Into
  <2>7. Shown(a, f[i], q.d, g[i])
    BY <2>5, <2>6 DEF Shown
  <2>8. ASSUME g[i].ok
        PROVE  i \in Q
    <3>1. g[i].v = Append([j \in 1 .. i - 1 |-> v[j]], v[i])
      BY <2>3, <2>5, <2>6, <2>8
    <3>2. g[i].v = Part(i)
      BY <1>0, <3>1, AppendOne
    <3> QED
      BY <2>3, <3>2
  <2> QED
    BY <2>7, <2>8 DEF a, q
<1> HIDE DEF Q
<1>7. Shown(f[0], f[n], d, g[n]) /\ (g[n].ok => n \in Q)
  <2>1. n \in Nat /\ Full(f[0]) /\ Shows(f[0], f[n], d)
    BY <1>0, <1>2
  <2> QED
    BY <1>2, <1>4, <1>5, <1>6, <2>1, RoundsShown
<1>8. n \in Q => g[n].v = v
  BY DEF Q, Holds, n
<1> QED
  BY <1>2, <1>3, <1>7, <1>8 DEF n

IsTuple(v, n) == v = [j \in 1 .. n |-> v[j]]

\* Rounds that each assign one of n places what x was read for it: each place
\* is read as it was before, and keeps what was read.
AssignsEach(n, f, d, old, g, x) ==
  /\ Full(f[0])
  /\ \A j \in 0 .. n : \A i \in 0 .. j : Extends(f[i], f[j])
  /\ Shows(f[0], f[n], d) /\ DOMAIN old = 1 .. n
  /\ g[0].ok = TRUE /\ g[0].d = d /\ g[0].v = old
  /\ \A i \in 1 .. n : ~g[i - 1].ok => g[i] = g[i - 1]
  /\ \A i \in 1 .. n : g[i - 1].ok /\ DOMAIN g[i - 1].v = 1 .. n =>
                         Assigned(g[i - 1].v, i, x[i], g[i])
  /\ \A i \in 1 .. n :
       g[i - 1].ok /\ g[i - 1].v[i] = old[i] /\ Shows(f[i - 1], f[i], g[i - 1].d) =>
         Shown(f[i - 1], f[i], g[i - 1].d, x[i])
AssignedEach(n, f, d, old, g, x) ==
  /\ Shown(f[0], f[n], d, g[n])
  /\ g[n].ok =>
       /\ DOMAIN g[n].v = 1 .. n /\ (IsTuple(old, n) => IsTuple(g[n].v, n))
       /\ \A i \in 1 .. n : /\ g[n].v[i] = x[i].v /\ x[i].ok
                            /\ g[i - 1].v[i] = old[i]
                            /\ Shows(f[i - 1], f[i], g[i - 1].d)
LEMMA AssignedRounds ==
  ASSUME NEW n \in Nat, NEW f, NEW d, NEW old, NEW g, NEW x, AssignsEach(n, f, d, old, g, x)
  PROVE  AssignedEach(n, f, d, old, g, x)
<1>0. /\ Full(f[0])
      /\ \A j \in 0 .. n : \A i \in 0 .. j : Extends(f[i], f[j])
      /\ Shows(f[0], f[n], d) /\ DOMAIN old = 1 .. n
      /\ g[0].ok = TRUE /\ g[0].d = d /\ g[0].v = old
      /\ \A i \in 1 .. n : ~g[i - 1].ok => g[i] = g[i - 1]
      /\ \A i \in 1 .. n : g[i - 1].ok /\ DOMAIN g[i - 1].v = 1 .. n =>
                             Assigned(g[i - 1].v, i, x[i], g[i])
      /\ \A i \in 1 .. n :
           g[i - 1].ok /\ g[i - 1].v[i] = old[i] /\ Shows(f[i - 1], f[i], g[i - 1].d) =>
             Shown(f[i - 1], f[i], g[i - 1].d, x[i])
  BY DEF AssignsEach
<1> DEFINE Done(j) == /\ g[j - 1].v[j] = old[j] /\ x[j].ok
                      /\ Shows(f[j - 1], f[j], g[j - 1].d)
           Is(i) == /\ DOMAIN g[i].v = 1 .. n
                    /\ IsTuple(old, n) => IsTuple(g[i].v, n)
                    /\ \A j \in 1 .. n : j <= i => g[i].v[j] = x[j].v /\ Done(j)
                    /\ \A j \in 1 .. n : j > i => g[i].v[j] = old[j]
           Q == {i \in 0 .. n : Is(i)}
<1>1. 0 \in Q
  BY <1>0
<1>2. ASSUME NEW i \in 1 .. n, g[i - 1].ok, i - 1 \in Q, Shows(f[i - 1], f[i], g[i - 1].d)
      PROVE  Shown(f[i - 1], f[i], g[i - 1].d, g[i]) /\ (g[i].ok => i \in Q)
  <2> DEFINE q == g[i - 1]
             y == x[i]
             r == g[i]
  <2>1. Is(i - 1) /\ i > i - 1 /\ i \in 0 .. n /\ ~(i <= i - 1)
    BY <1>2
  <2>2. q.v[i] = old[i] /\ DOMAIN q.v = 1 .. n
    BY <2>1
  <2>3. Assigned(q.v, i, y, r)
    BY <1>0, <1>2, <2>2
  <2>4. Shown(f[i - 1], f[i], q.d, y)
    BY <1>0, <1>2, <2>2
  <2> HIDE DEF q, y, r, Done
  <2>5. /\ r.d = y.d /\ r.ok = y.ok /\ DOMAIN r.v = 1 .. n /\ r.v[i] = y.v
        /\ \A j \in 1 .. n : j # i => r.v[j] = q.v[j]
        /\ IsTuple(r.v, n)
    BY <2>2, <2>3 DEF Assigned, IsTuple
  <2>6. Shown(f[i - 1], f[i], q.d, r)
    BY <2>4, <2>5 DEF Shown
  <2>7. ASSUME r.ok
        PROVE  i \in Q
    <3>1. Done(i)
      BY <1>2, <2>2, <2>5, <2>7 DEF Done, q, y
    <3>2. ASSUME NEW j \in 1 .. n, j <= i
          PROVE  r.v[j] = x[j].v /\ Done(j)
      <4>1. CASE j = i
        BY <2>5, <3>1, <4>1 DEF y
      <4>2. CASE j # i
        <5>1. j <= i - 1
          BY <3>2, <4>2
        <5>2. q.v[j] = x[j].v /\ Done(j)
          BY <2>1, <5>1 DEF q
        <5> QED
          BY <2>5, <4>2, <5>2
      <4> QED
        BY <4>1, <4>2
    <3>3. ASSUME NEW j \in 1 .. n, j > i
          PROVE  r.v[j] = old[j]
      <4>1. j > i - 1 /\ j # i
        BY <3>3
      <4>2. q.v[j] = old[j]
        BY <2>1, <4>1 DEF q
      <4> QED
        BY <2>5, <4>1, <4>2
    <3>4. Is(i)
      BY <2>5, <3>2, <3>3 DEF r
    <3> QED
      BY <2>1, <3>4
  <2> QED
    BY <2>6, <2>7 DEF q, r
<1> HIDE DEF Q
<1>3. Shown(f[0], f[n], d, g[n]) /\ (g[n].ok => n \in Q)
  BY <1>0, <1>1, <1>2, RoundsShown
<1>4. ASSUME g[n].ok
      PROVE  /\ DOMAIN g[n].v = 1 .. n /\ (IsTuple(old, n) => IsTuple(g[n].v, n))
             /\ \A i \in 1 .. n : g[n].v[i] = x[i].v /\ Done(i)
  <2>1. Is(n)
    BY <1>3, <1>4 DEF Q
  <2> HIDE DEF Done
  <2>2. \A j \in 1 .. n : j <= n
    OBVIOUS
  <2> QED
    BY <2>1, <2>2
<1> QED
  BY <1>3, <1>4 DEF AssignedEach

LEMMA ArrayRead ==
  ASSUME NEW t, PartFaithful(t), NEW v, Len(v) \in Nat, Holds(v, Len(v)),
         \A i \in 1 .. Len(v) : SendablePart(t, v[i]),
         NEW e, Full(e), EncodeElems(t, v, e).pos \in Uint32,
         NEW d, Shows(e, EncodeElems(t, v, e), d),
         NEW old, DOMAIN old = 1 .. Len(v), \A i \in 1 .. Len(v) : ShapedPart(t, old[i])
  PROVE  LET r == DecodeArray(t, Len(v), d, old)
         IN  /\ Shown(e, EncodeElems(t, v, e), d, r)
             /\ r.ok =>
                  /\ DOMAIN r.v = 1 .. Len(v)
                  /\ \A i \in 1 .. Len(v) : Alike(t, v[i], r.v[i])
                  /\ old = [i \in 1 .. Len(v) |-> ZeroPart(t)] => r.v = v
<1> DEFINE n == Len(v)
<1>1. PartWrites(t) /\ PartReads(t) /\ PartZeroes(t)
  BY DEF PartFaithful
<1>2. PICK f : /\ f[0] = e /\ EncodeElems(t, v, e) = f[n]
               /\ \A i \in 1 .. n : f[i] = EncodePart(t, v[i], f[i - 1])
               /\ \A i \in 0 .. n : Full(f[i])
               /\ \A j \in 0 .. n : \A i \in 0 .. j : Extends(f[i], f[j])
  BY <1>1, ElemsWritten
<1>0. n \in Nat
  OBVIOUS
<1>3. /\ DOMAIN old = 1 .. n /\ \A i \in 1 .. n : ShapedPart(t, old[i]) /\ SendablePart(t, v[i])
  OBVIOUS
<1> HIDE DEF n
<1>4. PICK g : /\ g[0] = Got(d, old) /\ DecodeArray(t, n, d, old) = g[n]
               /\ \A i \in 1 .. n : g[i] = NextAt(t, i, g[i - 1])
  BY <1>0, DecodeArrayRun
<1> DEFINE y(q, i) == DecodePart(t, q.d, q.v[i])
           x == [i \in 1 .. n |-> y(g[i - 1], i)]
<1>5. g[0].ok = TRUE /\ g[0].d = d /\ g[0].v = old
  BY <1>4 DEF Got
<1>6. ASSUME NEW i \in 1 .. n, ~g[i - 1].ok
      PROVE  g[i] = g[i - 1]
  BY <1>4, <1>6 DEF NextAt
<1>7. ASSUME NEW i \in 1 .. n, g[i - 1].ok, DOMAIN g[i - 1].v = 1 .. n
      PROVE  Assigned(g[i - 1].v, i, x[i], g[i])
  <2> DEFINE q == g[i - 1]
  <2>1. g[i] = SetAt(q.v, i, x[i]) /\ i \in DOMAIN q.v
    BY <1>4, <1>7 DEF NextAt
  <2> HIDE DEF q, x
  <2> QED
    BY <2>1, SetAtKeeps DEF q
<1>8. ASSUME NEW i \in 1 .. n, g[i - 1].v[i] = old[i], Shows(f[i - 1], f[i], g[i - 1].d)
      PROVE  /\ Shown(f[i - 1], f[i], g[i - 1].d, x[i])
             /\ x[i].ok => /\ old[i] = ZeroPart(t) => x[i].v = v[i]
                           /\ Alike(t, v[i], x[i].v)
  <2> DEFINE a == f[i - 1]
             q == g[i - 1]
  <2>1. i - 1 \in 0 .. n /\ i \in 0 .. n /\ n \in 0 .. n /\ i \in 0 .. i
    BY <1>0
  <2>2. f[i] = EncodePart(t, v[i], a) /\ Full(a) /\ SendablePart(t, v[i])
    BY <1>2, <1>3, <2>1
  <2>3. f[i].pos \in Uint32
    <3>1. Extends(f[i], f[i]) /\ Extends(f[i], f[n]) /\ f[n].pos \in Uint32
      BY <1>2, <2>1
    <3> QED
      BY <3>1, ExtendsUint32
  <2>4. /\ Full(a) /\ SendablePart(t, v[i]) /\ PartReads(t) /\ ShapedPart(t, q.v[i])
        /\ EncodePart(t, v[i], a).pos \in Uint32 /\ Shows(a, EncodePart(t, v[i], a), q.d)
    BY <1>1, <1>3, <1>8, <2>2, <2>3
  <2>5. x[i] = DecodePart(t, q.d, q.v[i]) /\ q.v[i] = old[i]
    BY <1>8
  <2> HIDE DEF a, q, x
  <2>6. /\ Shown(a, EncodePart(t, v[i], a), q.d, x[i])
        /\ x[i].ok => /\ old[i] = ZeroPart(t) => x[i].v = v[i]
                      /\ Alike(t, v[i], x[i].v)
    <3>1. /\ Shown(a, EncodePart(t, v[i], a), q.d, DecodePart(t, q.d, q.v[i]))
          /\ DecodePart(t, q.d, q.v[i]).ok =>
               /\ q.v[i] = ZeroPart(t) => DecodePart(t, q.d, q.v[i]).v = v[i]
               /\ Alike(t, v[i], DecodePart(t, q.d, q.v[i]).v)
      BY <2>4, PartRead
    <3> QED
      BY <2>5, <3>1
  <2> QED
    BY <2>2, <2>6 DEF a, q
<1> HIDE DEF x
<1>9. AssignedEach(n, f, d, old, g, x)
  <2>1. Full(f[0]) /\ Shows(f[0], f[n], d)
    BY <1>2
  <2>2. \A i \in 1 .. n :
          g[i - 1].ok /\ g[i - 1].v[i] = old[i] /\ Shows(f[i - 1], f[i], g[i - 1].d) =>
            Shown(f[i - 1], f[i], g[i - 1].d, x[i])
    BY <1>8
  <2>3. \A j \in 0 .. n : \A i \in 0 .. j : Extends(f[i], f[j])
    BY <1>2
  <2>4. AssignsEach(n, f, d, old, g, x)
    BY <1>3, <1>5, <1>6, <1>7, <2>1, <2>2, <2>3 DEF AssignsEach
  <2> QED
    BY <1>0, <2>4, AssignedRounds
<1>10. ASSUME g[n].ok
       PROVE  /\ DOMAIN g[n].v = 1 .. n
              /\ \A i \in 1 .. n : Alike(t, v[i], g[n].v[i])
              /\ old = [i \in 1 .. n |-> ZeroPart(t)] => g[n].v = v
  <2>1. \A i \in 1 .. n : /\ Alike(t, v[i], g[n].v[i])
                          /\ old[i] = ZeroPart(t) => g[n].v[i] = v[i]
    BY <1>8, <1>9, <1>10 DEF AssignedEach
  <2>2. ASSUME old = [i \in 1 .. n |-> ZeroPart(t)]
        PROVE  g[n].v = v
    <3>1. IsTuple(old, n)
      BY <2>2 DEF IsTuple
    <3>2. IsTuple(g[n].v, n) /\ IsTuple(v, n)
      BY <1>9, <1>10, <3>1 DEF AssignedEach, Holds, IsTuple, n
    <3>3. \A i \in 1 .. n : g[n].v[i] = v[i]
      BY <2>1, <2>2
    <3> QED
      BY <3>2, <3>3 DEF IsTuple
  <2> QED
    BY <1>9, <1>10, <2>1, <2>2 DEF AssignedEach
<1> QED
  BY <1>2, <1>4, <1>9, <1>10 DEF AssignedEach, n

\* A member: what it is in a fresh struct, and whether it was read back.
ZeroField(f) == IF f.opt THEN <<>> ELSE ZeroPart(f.type)
AlikeField(f, v, g, x) == AgreeMember(TRUE, f, v, g, x)
MemberRead(f, v, g, old, x) == (old = ZeroField(g) => x = v) /\ AlikeField(f, v, g, x)

LEMMA AlikeMember ==
  ASSUME NEW f, NEW g, f.type = g.type, NEW v, NEW x
  PROVE  /\ ~f.opt /\ Alike(f.type, v, x) => AlikeField(f, v, g, x)
         /\ f.opt /\ v = <<>> => AlikeField(f, v, g, x)
         /\ f.opt /\ v # <<>> /\ x # <<>> /\ Alike(f.type, v[1], x[1]) => AlikeField(f, v, g, x)
BY Zenon DEF Alike, AlikeField, AgreeMember

LEMMA NewRead ==
  ASSUME NEW t, PartReads(t), PartZeroes(t), NEW v, SendablePart(t, v), NEW e, Full(e),
         EncodePart(t, v, e).pos \in Uint32,
         NEW d, Shows(e, EncodePart(t, v, e), d), NEW old
  PROVE  LET r == DecodeNew(t, d, old)
         IN  /\ Shown(e, EncodePart(t, v, e), d, r)
             /\ r.ok => r.v = <<v>> /\ Alike(t, v, r.v[1])
<1> DEFINE x == DecodePart(t, d, ZeroPart(t))
           r == DecodeNew(t, d, old)
           f == EncodePart(t, v, e)
<1>1. Shown(e, f, d, x) /\ (x.ok => x.v = v /\ Alike(t, v, x.v))
  <2>1. ShapedPart(t, ZeroPart(t))
    BY DEF PartZeroes
  <2> QED
    BY <2>1, PartRead
<1>2. r = Into(x, IF x.ok THEN <<x.v>> ELSE old)
  BY DEF DecodeNew, DecodeFresh
<1> HIDE DEF x, r, f
<1>3. r.d = x.d /\ r.ok = x.ok /\ (x.ok => r.v = <<x.v>>)
  BY <1>2 DEF Into
<1>4. Shown(e, f, d, r)
  BY <1>1, <1>3 DEF Shown
<1>5. ASSUME r.ok
      PROVE  r.v = <<v>> /\ Alike(t, v, r.v[1])
  <2>1. r.v = <<v>> /\ r.v[1] = v
    BY <1>1, <1>3, <1>5
  <2>2. Alike(t, v, v)
    BY <1>1, <1>3, <1>5
  <2> QED
    BY <2>1, <2>2
<1> QED
  BY <1>4, <1>5 DEF r, f

LEMMA OneElement ==
  ASSUME NEW v, Holds(v, 1)
  PROVE  v = <<v[1]>> /\ v # <<>>
BY DEF Holds

LEMMA FieldRead ==
  ASSUME NEW f, IsField(f), PartFaithful(f.type), NEW v, SendableField(f, v), NEW e, Full(e),
         EncodeField(f, v, e).pos \in Uint32, NEW d, Shows(e, EncodeField(f, v, e), d),
         NEW old, ShapedField(f, old)
  PROVE  LET r == DecodeField(f, d, old)
         IN  Shown(e, EncodeField(f, v, e), d, r) /\ (r.ok => MemberRead(f, v, f, old, r.v))
<1> DEFINE r == DecodeField(f, d, old)
           g == EncodeField(f, v, e)
<1>1. PartReads(f.type) /\ PartZeroes(f.type) /\ PartWrites(f.type)
  BY DEF PartFaithful
<1>2. CASE ~f.opt
  <2>1. g = EncodePart(f.type, v, e) /\ r = DecodePart(f.type, d, old)
    BY <1>2 DEF EncodeField, DecodeField
  <2>2. SendablePart(f.type, v) /\ ShapedPart(f.type, old)
    BY <1>2 DEF SendableField, IsFieldValue, EncodableField, SendablePart, ShapedField
  <2>3. Shown(e, g, d, r) /\ (r.ok => (old = ZeroPart(f.type) => r.v = v) /\ Alike(f.type, v, r.v))
    <3>1. EncodePart(f.type, v, e).pos \in Uint32 /\ Shows(e, EncodePart(f.type, v, e), d)
      BY <2>1
    <3> QED
      BY <1>1, <2>1, <2>2, <3>1, PartRead
  <2> HIDE DEF r, g
  <2>4. r.ok => MemberRead(f, v, f, old, r.v)
    BY <1>2, <2>3, AlikeMember DEF MemberRead, ZeroField
  <2> QED
    BY <2>3, <2>4 DEF r, g
<1>3. CASE f.opt
  <2> DEFINE b == ReadBool(d)
  <2>1. r = DecodeOptional(f.type, b, old)
    BY <1>3 DEF DecodeField
  <2>2. <<0>> \in Booleans /\ <<1>> \in Booleans /\ <<0>> # <<1>>
    BY DEF Booleans
  <2>3. CASE v = <<>>
    <3>1. g = WriteBool(e, <<0>>)
      BY <1>3, <2>3 DEF EncodeField
    <3>2. Shown(e, g, d, b) /\ (b.ok => b.v = <<0>>)
      BY <2>2, <3>1, BoolShown
    <3> HIDE DEF b, r, g
    <3>3. r = Into(b, old)
      BY <2>1, <3>2 DEF DecodeOptional
    <3>4. r.d = b.d /\ r.ok = b.ok /\ r.v = old
      BY <3>3 DEF Into
    <3>5. Shown(e, g, d, r)
      BY <3>2, <3>4 DEF Shown
    <3>6. MemberRead(f, v, f, old, r.v)
      BY <1>3, <2>3, <3>4, AlikeMember DEF MemberRead, ZeroField
    <3> QED
      BY <3>5, <3>6 DEF r, g
  <2>4. CASE v # <<>>
    <3> DEFINE w == WriteBool(e, <<1>>)
    <3>1. g = EncodePart(f.type, v[1], w)
      BY <1>3, <2>4 DEF EncodeField
    <3>2. SendablePart(f.type, v[1]) /\ v = <<v[1]>>
      BY <1>3, <2>4, OneElement DEF SendableField, IsFieldValue, EncodableField, SendablePart
    <3>3. Extends(e, w) /\ Full(w)
      BY <2>2, BoolWritten
    <3> HIDE DEF w, g
    <3>4. Extends(w, g)
      BY <1>1, <3>1, <3>2, <3>3 DEF PartWrites
    <3>5. Shows(e, w, d)
      BY <3>3, <3>4, ShowsSplits DEF g
    <3>6. Shown(e, w, d, b) /\ (b.ok => b.v = <<1>>)
      BY <2>2, <3>5, BoolShown DEF w
    <3> HIDE DEF b, r
    <3>7. Shows(e, g, d) /\ g.pos \in Uint32
      BY DEF g
    <3>8. CASE b.ok
      <4>1. r = DecodeNew(f.type, b.d, old)
        BY <2>1, <2>2, <3>6, <3>8 DEF DecodeOptional
      <4>2. Shows(w, g, b.d)
        BY <3>3, <3>4, <3>6, <3>7, <3>8, ThenShown
      <4>3. Shown(w, g, b.d, r) /\ (r.ok => r.v = <<v[1]>> /\ Alike(f.type, v[1], r.v[1]))
        <5>1. EncodePart(f.type, v[1], w).pos \in Uint32
              /\ Shows(w, EncodePart(f.type, v[1], w), b.d)
          BY <3>1, <3>7, <4>2
        <5> QED
          BY <1>1, <3>1, <3>2, <3>3, <4>1, <5>1, NewRead
      <4>4. Shown(e, g, d, r)
        <5>1. r.ok \in BOOLEAN
          BY <4>3 DEF Shown
        <5> QED
          BY <3>3, <3>4, <3>6, <3>7, <3>8, <4>3, <5>1, ThenShown
      <4>5. ASSUME r.ok
            PROVE  MemberRead(f, v, f, old, r.v)
        <5>1. r.v = v /\ r.v # <<>> /\ Alike(f.type, v[1], r.v[1])
          BY <2>4, <3>2, <4>3, <4>5
        <5>2. AlikeField(f, v, f, r.v)
          BY <1>3, <2>4, <5>1, AlikeMember
        <5> QED
          BY <5>1, <5>2 DEF MemberRead
      <4> QED
        BY <4>4, <4>5 DEF r, g
    <3>9. CASE ~b.ok
      <4>1. r = Into(b, old)
        BY <2>1, <3>9 DEF DecodeOptional
      <4>2. r.ok = b.ok /\ b.ok \in BOOLEAN
        BY <3>6, <4>1 DEF Into, Shown
      <4>3. r.ok \in BOOLEAN /\ ~r.ok
        BY <3>9, <4>2
      <4>4. Shown(e, g, d, r)
        BY <3>3, <3>4, <3>6, <3>7, <3>9, <4>3, ThenShown
      <4> QED
        BY <4>3, <4>4 DEF r, g
    <3> QED
      BY <3>8, <3>9
  <2> QED
    BY <2>3, <2>4
<1> QED
  BY <1>2, <1>3

\* What decoding the members of a T, from those of an S, makes of old.
SameID(S, i, T, j) == Fields(S)[i].id = Fields(T)[j].id
MembersRead(S, v, T, old, x) ==
  /\ DOMAIN x = Places(Fields(T))
  /\ IsTuple(old, Len(Fields(T))) => IsTuple(x, Len(Fields(T)))
  /\ \A j \in Places(Fields(T)) :
       (\A i \in Places(Fields(S)) : ~SameID(S, i, T, j)) => x[j] = old[j]
  /\ \A i \in Places(Fields(S)), j \in Places(Fields(T)) :
       SameID(S, i, T, j) => MemberRead(Fields(S)[i], v[i], Fields(T)[j], old[j], x[j])

LEMMA FieldsRead ==
  ASSUME PartsFaithful, NEW S, IsStruct(S),
         NEW v, \A i \in Places(Fields(S)) : SendableField(Fields(S)[i], v[i]),
         NEW e, Full(e), EncodeFields(S, v, e).pos \in Uint32,
         NEW d, Shows(e, EncodeFields(S, v, e), d), NEW old, ShapedStruct(S, old)
  PROVE  LET r == DecodeFields(S, Got(d, old))
         IN  /\ Extends(e, EncodeFields(S, v, e))
             /\ Shown(e, EncodeFields(S, v, e), d, r)
             /\ r.ok => MembersRead(S, v, S, old, r.v)
<1> DEFINE n == Len(Fields(S))
           F(i) == Fields(S)[i]
<1>1. /\ n \in Nat /\ Places(Fields(S)) = 1 .. n /\ DOMAIN old = 1 .. n
      /\ \A i \in 1 .. n : /\ IsField(F(i)) /\ PartFaithful(F(i).type)
                           /\ ShapedField(F(i), old[i]) /\ SendableField(F(i), v[i])
      /\ \A i, j \in 1 .. n : SameID(S, i, S, j) => i = j
  BY DEF IsStruct, Places, IsField, PartsFaithful, ShapedStruct, SameID
<1>2. PICK f : /\ f[0] = e /\ EncodeFields(S, v, e) = f[n]
               /\ \A i \in 1 .. n : f[i] = EncodeField(F(i), v[i], f[i - 1])
               /\ \A i \in 0 .. n : Full(f[i])
               /\ \A j \in 0 .. n : \A i \in 0 .. j : Extends(f[i], f[j])
  <2>1. PICK f : FieldsBy(S, v, e, n, f)
    BY FieldsWritten
  <2> QED
    BY <2>1 DEF FieldsBy
<1>4. PICK g : /\ g[0] = Got(d, old) /\ DecodeFields(S, Got(d, old)) = g[n]
               /\ \A i \in 1 .. n : g[i] = NextField(S, i, g[i - 1])
  BY <1>1, DecodeFieldsRun
<1> DEFINE y(q, i) == DecodeField(F(i), q.d, q.v[i])
           x == [i \in 1 .. n |-> y(g[i - 1], i)]
<1> HIDE DEF n
<1>5. g[0].ok = TRUE /\ g[0].d = d /\ g[0].v = old
  BY <1>4 DEF Got
<1>6. ASSUME NEW i \in 1 .. n, ~g[i - 1].ok
      PROVE  g[i] = g[i - 1]
  BY <1>4, <1>6 DEF NextField
<1>7. ASSUME NEW i \in 1 .. n, g[i - 1].ok, DOMAIN g[i - 1].v = 1 .. n
      PROVE  Assigned(g[i - 1].v, i, x[i], g[i])
  <2> DEFINE q == g[i - 1]
  <2>1. g[i] = SetAt(q.v, i, x[i]) /\ i \in DOMAIN q.v
    BY <1>4, <1>7 DEF NextField
  <2> HIDE DEF q, x
  <2> QED
    BY <2>1, SetAtKeeps DEF q
<1> HIDE DEF F
<1>8. ASSUME NEW i \in 1 .. n, g[i - 1].v[i] = old[i], Shows(f[i - 1], f[i], g[i - 1].d)
      PROVE  /\ Shown(f[i - 1], f[i], g[i - 1].d, x[i])
             /\ x[i].ok => MemberRead(F(i), v[i], F(i), old[i], x[i].v)
  <2> DEFINE a == f[i - 1]
             q == g[i - 1]
             u == F(i)
             w == v[i]
             o == old[i]
  <2>1. i - 1 \in 0 .. n /\ i \in 0 .. n /\ n \in 0 .. n /\ i \in 0 .. i
    BY <1>1
  <2>2. f[i] = EncodeField(u, w, a) /\ Full(a)
    BY <1>2, <2>1
  <2>3. f[i].pos \in Uint32
    <3>1. Extends(f[i], f[i]) /\ Extends(f[i], f[n]) /\ f[n].pos \in Uint32
      BY <1>2, <2>1
    <3> QED
      BY <3>1, ExtendsUint32
  <2>4. /\ IsField(u) /\ PartFaithful(u.type) /\ SendableField(u, w) /\ ShapedField(u, o)
        /\ Full(a) /\ EncodeField(u, w, a).pos \in Uint32 /\ Shows(a, EncodeField(u, w, a), q.d)
    BY <1>1, <1>8, <2>2, <2>3
  <2>5. x[i] = DecodeField(u, q.d, o)
    BY <1>8
  <2> HIDE DEF a, q, x, u, w, o
  <2>6. /\ Shown(a, EncodeField(u, w, a), q.d, x[i])
        /\ x[i].ok => MemberRead(u, w, u, o, x[i].v)
    BY <2>4, <2>5, FieldRead
  <2> QED
    BY <2>2, <2>6 DEF a, q, u, w, o
<1> HIDE DEF x
<1>9. AssignedEach(n, f, d, old, g, x)
  <2>1. Full(f[0]) /\ Shows(f[0], f[n], d)
    BY <1>2
  <2>2. \A i \in 1 .. n :
          g[i - 1].ok /\ g[i - 1].v[i] = old[i] /\ Shows(f[i - 1], f[i], g[i - 1].d) =>
            Shown(f[i - 1], f[i], g[i - 1].d, x[i])
    BY <1>8
  <2>3. \A j \in 0 .. n : \A i \in 0 .. j : Extends(f[i], f[j])
    BY <1>2
  <2>4. AssignsEach(n, f, d, old, g, x)
    BY <1>1, <1>5, <1>6, <1>7, <2>1, <2>2, <2>3 DEF AssignsEach
  <2> QED
    BY <1>1, <2>4, AssignedRounds
<1>10. ASSUME g[n].ok
       PROVE  MembersRead(S, v, S, old, g[n].v)
  <2>1. \A i \in 1 .. n : MemberRead(F(i), v[i], F(i), old[i], g[n].v[i])
    BY <1>8, <1>9, <1>10 DEF AssignedEach
  <2>2. DOMAIN g[n].v = 1 .. n /\ (IsTuple(old, n) => IsTuple(g[n].v, n))
    BY <1>9, <1>10 DEF AssignedEach
  <2>3. \A i \in 1 .. n : SameID(S, i, S, i)
    BY DEF SameID
  <2> DEFINE z == g[n].v
  <2> HIDE DEF z
  <2>4. MembersRead(S, v, S, old, z)
    <3>1. /\ DOMAIN z = 1 .. n /\ (IsTuple(old, n) => IsTuple(z, n))
          /\ \A i \in 1 .. n : MemberRead(F(i), v[i], F(i), old[i], z[i])
      BY <2>1, <2>2 DEF z
    <3>2. \A j \in 1 .. n : (\A i \in 1 .. n : ~SameID(S, i, S, j)) => z[j] = old[j]
      BY <2>3
    <3>3. ASSUME NEW i \in 1 .. n, NEW j \in 1 .. n, SameID(S, i, S, j)
          PROVE  MemberRead(F(i), v[i], F(j), old[j], z[j])
      <4>1. i = j
        BY <1>1, <3>3
      <4> QED
        BY <3>1, <4>1
    <3> QED
      BY <1>1, <3>1, <3>2, <3>3 DEF MembersRead, F, n
  <2> QED
    BY <2>4 DEF z
<1>11. Extends(f[0], f[n])
  BY <1>1, <1>2
<1> QED
  BY <1>2, <1>4, <1>9, <1>10, <1>11 DEF AssignedEach

LEMMA TwoElements ==
  ASSUME NEW v, Holds(v, 2)
  PROVE  v = <<v[1], v[2]>>
BY DEF Holds

LEMMA ThreeElements ==
  ASSUME NEW v, Holds(v, 3)
  PROVE  v = <<v[1], v[2], v[3]>>
BY DEF Holds

\* The discriminator leads back to the case.
LEMMA CaseFound ==
  ASSUME NEW U, IsUnion(U), NEW v, v # <<>>, IsUnionValue(U, v)
  PROVE  CaseOf(U, Disc(U, v)) = v[1] /\ ~EmptyLabel(U, Disc(U, v))
<1> DEFINE label == Disc(U, v)
           P == 1 .. Len(Unions[U].labels)
           cs == {c \in P : HasLabel(U, c, label)}
<1>1. /\ Len(Unions[U].labels) \in Nat /\ Places(Unions[U].labels) = P
      /\ \A c \in P : Len(Unions[U].labels[c]) = 1
      /\ \A b, c \in P : FirstLabel(U, b) = FirstLabel(U, c) => b = c
  BY DEF IsUnion, Places
<1> HIDE DEF P, label
<1>2. \A c \in P : HasLabel(U, c, label) <=> FirstLabel(U, c) = label
  BY <1>1 DEF HasLabel, FirstLabel
<1>3. ~EmptyLabel(U, label)
  <2>1. ASSUME NEW c \in P, NEW i \in 1 .. Len(Unions[U].labels[c]) - 1
        PROVE  FALSE
    <3>1. Len(Unions[U].labels[c]) = 1
      BY <1>1
    <3> QED
      BY <3>1
  <2> QED
    BY <2>1 DEF EmptyLabel, P
<1>4. CaseOf(U, label) = IF cs = {} THEN 0 ELSE CHOOSE c \in cs : TRUE
  BY DEF CaseOf, P
<1>5. 0 \notin P
  BY <1>1 DEF P
<1>6. CASE v[1] \in P
  <2>1. label = FirstLabel(U, v[1])
    BY <1>5, <1>6 DEF label, Disc
  <2>2. cs = {v[1]}
    BY <1>1, <1>2, <1>6, <2>1
  <2> QED
    BY <1>3, <1>4, <2>2 DEF label
<1>7. CASE v[1] \notin P
  <2>1. v[1] = 0 /\ \A c \in P : FirstLabel(U, c) # v[2]
    BY <1>1, <1>7 DEF IsUnionValue
  <2>2. label = v[2]
    BY <2>1 DEF label, Disc
  <2>3. cs = {}
    BY <1>2, <2>1, <2>2
  <2> QED
    BY <1>3, <1>4, <2>1, <2>3 DEF label
<1> QED
  BY <1>6, <1>7

LEMMA UnionRead ==
  ASSUME PartsFaithful, NEW U, IsUnion(U), NEW v, IsUnionValue(U, v),
         Encodable([k |-> "union", name |-> U], v), NEW e, Full(e),
         EncodeUnion(U, v, e).pos \in Uint32,
         NEW d, Shows(e, EncodeUnion(U, v, e), d), NEW old
  PROVE  LET r == DecodeUnion(U, d, old)
         IN  Shown(e, EncodeUnion(U, v, e), d, r) /\ (r.ok => r.v = v)
<1> DEFINE t == CaseType(U, v)
           w == CaseValue(v)
           label == Disc(U, v)
           l == WriteScalar(e, Word(label))
           g == EncodeUnion(U, v, e)
           n == ReadScalar(d, 4)
           r == DecodeUnion(U, d, old)
           x == DecodePart(t, n.d, ZeroPart(t))
<1>1. v # <<>> /\ label \in Uint32 /\ IsTypePart(t) /\ SendablePart(t, w)
      /\ g = EncodePart(t, w, l)
  BY UnionHolds
<1>2. PartWrites(t) /\ PartReads(t) /\ PartZeroes(t)
  BY <1>1 DEF PartsFaithful, PartFaithful
<1>3. CaseOf(U, label) = v[1] /\ ~EmptyLabel(U, label)
  BY <1>1, CaseFound
<1> HIDE DEF label
<1>4. /\ Word(label) \in Seq(Byte) /\ Len(Word(label)) = 4 /\ Num(Word(label)) = label
      /\ Full(l) /\ Extends(e, l)
  BY <1>1, WordWritten
<1>0. g.pos \in Uint32 /\ Shows(e, g, d)
  OBVIOUS
<1> HIDE DEF g, t, w
<1>5. Extends(l, g)
  BY <1>1, <1>2, <1>4 DEF PartWrites
<1>6. Shown(e, l, d, n) /\ (n.ok => n.v = Word(label))
  <2> DEFINE z == Word(label)
  <2>1. z \in Seq(Byte) /\ Len(z) = 4 /\ l = WriteScalar(e, z)
    BY <1>4
  <2>2. Shows(e, l, d)
    BY <1>0, <1>4, <1>5, ShowsSplits
  <2> HIDE DEF z, l
  <2>3. /\ Shown(e, WriteScalar(e, z), d, ReadScalar(d, Len(z)))
        /\ ReadScalar(d, Len(z)).ok => ReadScalar(d, Len(z)).v = z
    <3>1. Len(z) \in {1, 2, 4, 8} /\ Shows(e, WriteScalar(e, z), d)
      BY <2>1, <2>2
    <3> QED
      BY <2>1, <3>1, ScalarShown
  <2> QED
    BY <2>1, <2>3 DEF z
<1> HIDE DEF n
<1>7. CASE ~n.ok
  <2>1. r = Into(n, old)
    BY <1>7 DEF DecodeUnion, n
  <2> HIDE DEF r, l
  <2>2. r.ok = n.ok /\ n.ok \in BOOLEAN
    BY <1>6, <2>1 DEF Into, Shown
  <2>3. r.ok \in BOOLEAN /\ ~r.ok
    BY <1>7, <2>2
  <2>4. Shown(e, g, d, r)
    BY <1>0, <1>4, <1>5, <1>6, <1>7, <2>3, ThenShown
  <2> QED
    BY <2>3, <2>4 DEF r, g
<1>8. CASE n.ok
  <2>1. Num(n.v) = label
    BY <1>4, <1>6, <1>8
  <2>2. r = DecodeCase(U, v[1], label, n.d, old)
    <3>1. r = DecodeCase(U, CaseOf(U, Num(n.v)), Num(n.v), n.d, old)
      BY <1>8 DEF DecodeUnion, n
    <3> QED
      BY <1>3, <2>1, <3>1
  <2> HIDE DEF r, l
  <2>3. Shows(l, g, n.d)
    BY <1>0, <1>4, <1>5, <1>6, <1>8, ThenShown
  <2>4. Shown(l, g, n.d, x) /\ (x.ok => x.v = w)
    <3>1. /\ EncodePart(t, w, l).pos \in Uint32 /\ Shows(l, EncodePart(t, w, l), n.d)
          /\ ShapedPart(t, ZeroPart(t))
      BY <1>0, <1>1, <1>2, <2>3 DEF PartZeroes
    <3> QED
      BY <1>1, <1>2, <1>4, <3>1, PartRead
  <2>5. r.d = x.d /\ r.ok = x.ok /\ (x.ok => r.v = v)
    <3>1. CASE v[1] # 0
      <4>1. t = Unions[U].types[v[1]] /\ w = v[2]
        BY <3>1 DEF t, w, CaseType, CaseValue
      <4>2. r = Into(x, IF x.ok THEN <<v[1], x.v>> ELSE old)
        BY <1>3, <2>2, <3>1, <4>1 DEF DecodeCase, DecodeFresh
      <4>3. v = <<v[1], v[2]>>
        BY <1>1, <3>1, TwoElements DEF IsUnionValue
      <4> HIDE DEF x
      <4>4. r.d = x.d /\ r.ok = x.ok /\ (x.ok => r.v = <<v[1], x.v>>)
        BY <4>2 DEF Into
      <4> QED
        BY <2>4, <4>1, <4>3, <4>4
    <3>2. CASE v[1] = 0
      <4>0. 0 \notin Places(Unions[U].labels)
        BY DEF Places, IsUnion
      <4>1. t = Unions[U].default[1] /\ w = v[3] /\ label = v[2]
        BY <3>2 DEF t, w, label, CaseType, CaseValue, Disc
      <4>2. Unions[U].default # <<>> /\ Holds(v, 3)
        BY <1>1, <3>2, <4>0 DEF IsUnionValue
      <4>3. r = Into(x, IF x.ok THEN <<0, label, x.v>> ELSE old)
        BY <1>3, <2>2, <3>2, <4>1, <4>2 DEF DecodeCase, DecodeFresh
      <4>4. v = <<v[1], v[2], v[3]>>
        BY <4>2, ThreeElements
      <4> HIDE DEF x
      <4>5. r.d = x.d /\ r.ok = x.ok /\ (x.ok => r.v = <<0, label, x.v>>)
        BY <4>3 DEF Into
      <4> QED
        BY <2>4, <3>2, <4>1, <4>4, <4>5
    <3> QED
      BY <3>1, <3>2
  <2> HIDE DEF x
  <2>6. Shown(l, g, n.d, r) /\ r.ok \in BOOLEAN
    BY <2>4, <2>5 DEF Shown
  <2>7. Shown(e, g, d, r)
    BY <1>0, <1>4, <1>5, <1>6, <1>8, <2>6, ThenShown
  <2> QED
    BY <2>5, <2>7 DEF r, g
<1> QED
  BY <1>7, <1>8

\* Once the rounds stand still they stay so.
LEMMA Stationary ==
  ASSUME NEW N \in Nat, NEW g, NEW k \in 0 .. N,
         \A m \in 1 .. N : g[m - 1] = g[k] => g[m] = g[m - 1]
  PROVE  g[N] = g[k]
<1> DEFINE Q == {m \in 0 .. N : m >= k => g[m] = g[k]}
<1>1. 0 \in Q
  OBVIOUS
<1>2. ASSUME NEW m \in 1 .. N, m - 1 \in Q
      PROVE  m \in Q
  <2>1. CASE m = k
    BY <2>1
  <2>2. CASE m # k
    BY <1>2, <2>2
  <2> QED
    BY <2>1, <2>2
<1>3. N \in 0 .. N
  OBVIOUS
<1> HIDE DEF Q
<1>4. N \in Q
  BY <1>1, <1>2, <1>3, CountingUp
<1> QED
  BY <1>4 DEF Q

LEMMA RoundFits ==
  ASSUME NEW len \in Nat, NEW m \in Nat, 4 * m <= len
  PROVE  m <= len \div 4
OBVIOUS

\* What the loop over the members does, in terms of the members that were
\* encoded: a round reads the next member that is there.  Q are the pairs of a
\* member and a round after which what is to hold does.
MemberSteps(n, f, d, g, N, Q) ==
  /\ Full(f[0]) /\ \A j \in 0 .. n : \A i \in 0 .. j : Extends(f[i], f[j])
  /\ Shows(f[0], f[n], d) /\ d.pos >= 4
  /\ g[0].ok = TRUE /\ g[0].d = d /\ <<0, 0>> \in Q
  /\ \A i \in 1 .. n : f[i] = f[i - 1] \/ f[i - 1].pos + 4 <= f[i].pos
  /\ \A k \in 1 .. N :
       ~g[k - 1].ok \/ g[k - 1].d.pos >= End(f[0], f[n], d) => g[k] = g[k - 1]
  /\ \A i \in 1 .. n, k \in 0 .. N : f[i] = f[i - 1] /\ <<i - 1, k>> \in Q => <<i, k>> \in Q
  /\ \A i \in 1 .. n, k \in 1 .. N :
       /\ f[i] # f[i - 1] /\ <<i - 1, k - 1>> \in Q /\ g[k - 1].ok
       /\ g[k - 1].d.pos < End(f[0], f[n], d) /\ Shows(f[i - 1], f[i], g[k - 1].d)
       => Shown(f[i - 1], f[i], g[k - 1].d, g[k]) /\ (g[k].ok => <<i, k>> \in Q)

LEMMA MemberRounds ==
  ASSUME NEW n \in Nat, NEW f, NEW d, Within(d), NEW g, NEW Q,
         MemberSteps(n, f, d, g, Rounds(d), Q)
  PROVE  LET N == Rounds(d)
         IN  /\ Shown(f[0], f[n], d, g[N])
             /\ g[N].ok => \E k \in 0 .. N : g[N] = g[k] /\ <<n, k>> \in Q
<1> DEFINE N == Rounds(d)
           L == Len(d.data)
           E(i) == End(f[0], f[i], d)
<1>1. N \in Nat /\ L \in Nat /\ d.pos \in Nat /\ d.pos >= 4 /\ d = At(d, d.pos) /\ d.pos <= L
  BY RoundsType DEF Within, Decoders, MemberSteps, At, Shows
<1>2. ASSUME NEW m \in Nat, 4 * m <= L
      PROVE  m <= N
  BY <1>1, <1>2, RoundFits DEF Rounds
<1> HIDE DEF N
<1>3. ASSUME NEW i \in 1 .. n
      PROVE  /\ Full(f[i - 1]) /\ Extends(f[0], f[i - 1]) /\ Extends(f[i - 1], f[i])
             /\ Extends(f[i], f[n]) /\ Extends(f[0], f[i]) /\ Shows(f[0], f[i], d)
  <2>1. /\ 0 \in 0 .. i - 1 /\ i - 1 \in 0 .. i /\ i \in 0 .. n /\ 0 \in 0 .. i
        /\ i - 1 \in 0 .. n /\ n \in 0 .. n
    OBVIOUS
  <2>2. /\ Extends(f[0], f[i - 1]) /\ Extends(f[i - 1], f[i])
        /\ Extends(f[i], f[n]) /\ Extends(f[0], f[i])
    BY <2>1 DEF MemberSteps
  <2>3. Full(f[i - 1]) /\ Full(f[0]) /\ Shows(f[0], f[n], d)
    BY <2>2 DEF Extends, Full, MemberSteps
  <2>4. Shows(f[0], f[i], d)
    BY <2>2, <2>3, ShowsSplits
  <2> QED
    BY <2>2, <2>3, <2>4
<1>4. ASSUME NEW i \in 1 .. n
      PROVE  /\ E(i - 1) \in Nat /\ E(i) \in Nat /\ d.pos <= E(i - 1)
             /\ E(i - 1) <= E(i) /\ E(i) <= E(n)
             /\ E(i - 1) <= L => /\ Shows(f[i - 1], f[i], At(d, E(i - 1)))
                                 /\ End(f[i - 1], f[i], At(d, E(i - 1))) = E(i)
             /\ f[i - 1].pos + 4 <= f[i].pos => E(i - 1) + 4 <= E(i)
  <2>1. Full(f[0]) /\ Shows(f[0], f[n], d)
    BY DEF MemberSteps
  <2>2. /\ E(i - 1) \in Nat /\ d.pos <= E(i - 1) /\ E(i - 1) <= E(i)
        /\ E(i - 1) <= L => /\ Shows(f[i - 1], f[i], At(d, E(i - 1)))
                            /\ End(f[i - 1], f[i], At(d, E(i - 1))) = E(i)
    BY <1>3, <2>1, ShowsSplits
  <2>3. E(i) \in Nat /\ E(i) <= E(n)
    BY <1>3, <2>1, ShowsSplits
  <2>4. f[0].pos \in Nat /\ f[i].pos \in Nat /\ f[i - 1].pos \in Nat
    BY <1>3, <2>1 DEF Full, Extends, Encoders
  <2>5. f[i - 1].pos + 4 <= f[i].pos => E(i - 1) + 4 <= E(i)
    <3>1. ASSUME NEW a \in Nat, NEW b \in Nat, NEW c \in Nat, NEW p \in Nat, a + 4 <= b
          PROVE  (p + (a - c)) + 4 <= p + (b - c)
      BY <3>1
    <3>2. d.pos \in Nat
      BY <1>1
    <3> QED
      BY <2>4, <3>1, <3>2, Zenon DEF End
  <2> QED
    BY <2>2, <2>3, <2>5
<1>5. E(0) = d.pos
  <2>1. f[0].pos \in Nat
    BY DEF MemberSteps, Full, Encoders
  <2> QED
    BY <1>1, <2>1 DEF End
<1> HIDE DEF L, E
<1> DEFINE There(i, k) == /\ d.pos + 4 * k <= E(i) /\ g[k].ok = TRUE
                          /\ g[k].d = At(d, E(i)) /\ <<i, k>> \in Q
           P == {i \in 0 .. n : /\ E(i) <= L => \E k \in 0 .. N : There(i, k)
                                /\ ~(E(i) <= L) => \E k \in 0 .. N : g[k].ok = FALSE}
<1>6. 0 \in P
  <2>1. There(0, 0)
    BY <1>1, <1>5 DEF MemberSteps
  <2>2. E(0) <= L /\ 0 \in 0 .. N /\ 0 \in 0 .. n
    BY <1>1, <1>5
  <2> HIDE DEF There
  <2> QED
    BY <2>1, <2>2
<1>7. ASSUME NEW i \in 1 .. n, i - 1 \in P
      PROVE  i \in P
  <2>0. i \in 0 .. n
    OBVIOUS
  <2>1. CASE ~(E(i - 1) <= L)
    <3>1. ~(E(i) <= L)
      BY <1>1, <1>4, <2>1
    <3> HIDE DEF There
    <3>2. \E k \in 0 .. N : g[k].ok = FALSE
      BY <1>7, <2>1
    <3> QED
      BY <2>0, <3>1, <3>2
  <2>2. CASE E(i - 1) <= L
    <3>1. PICK k \in 0 .. N : There(i - 1, k)
      <4> HIDE DEF There
      <4> QED
        BY <1>7, <2>2
    <3>2. CASE f[i] = f[i - 1]
      <4>1. E(i) = E(i - 1)
        BY <3>2 DEF E
      <4>2. There(i, k)
        BY <3>1, <3>2, <4>1 DEF MemberSteps, N
      <4> HIDE DEF There
      <4> QED
        BY <2>0, <2>2, <4>1, <4>2
    <3>3. CASE f[i] # f[i - 1]
      <4>1. E(i - 1) + 4 <= E(i)
        BY <1>4, <3>3 DEF MemberSteps
      <4>2. k + 1 \in 1 .. N /\ (k + 1) - 1 = k
        <5>1. d.pos + 4 * k <= E(i - 1)
          BY <3>1
        <5>2. k + 1 \in Nat /\ 4 * (k + 1) <= L
          <6>1. k \in Nat /\ E(i - 1) \in Nat
            BY <1>1, <1>4
          <6>2. ASSUME NEW a \in Nat, NEW b \in Nat, NEW c \in Nat, NEW j \in Nat,
                       a >= 4, a + 4 * j <= b, b <= c
                PROVE  j + 1 \in Nat /\ 4 * (j + 1) <= c
            BY <6>2
          <6> QED
            BY <1>1, <2>2, <5>1, <6>1, <6>2
        <5>3. k + 1 <= N
          BY <1>2, <5>2 DEF L
        <5> QED
          BY <1>1, <5>2, <5>3
      <4> DEFINE h == At(d, E(i - 1))
      <4>3. /\ Shows(f[i - 1], f[i], h) /\ End(f[i - 1], f[i], h) = E(i)
            /\ h.pos = E(i - 1) /\ h.data = d.data /\ At(h, E(i)) = At(d, E(i))
        BY <1>4, <2>2 DEF At
      <4>4. g[k].d = h /\ g[k].ok /\ <<i - 1, k>> \in Q
        BY <3>1
      <4> HIDE DEF h
      <4>5. g[k].d.pos < E(n)
        BY <1>4, <4>1, <4>3, <4>4
      <4>6. Shown(f[i - 1], f[i], h, g[k + 1]) /\ (g[k + 1].ok => <<i, k + 1>> \in Q)
        <5> DEFINE m == k + 1
        <5>1. m \in 1 .. N /\ m - 1 = k
          BY <4>2
        <5> HIDE DEF m
        <5>2. /\ f[i] # f[i - 1] /\ <<i - 1, m - 1>> \in Q /\ g[m - 1].ok
              /\ g[m - 1].d.pos < End(f[0], f[n], d) /\ Shows(f[i - 1], f[i], g[m - 1].d)
          BY <3>3, <4>3, <4>4, <4>5, <5>1 DEF E
        <5>3. Shown(f[i - 1], f[i], g[m - 1].d, g[m]) /\ (g[m].ok => <<i, m>> \in Q)
          BY <5>1, <5>2 DEF MemberSteps, N
        <5> QED
          BY <4>4, <5>1, <5>3 DEF m
      <4>7. /\ g[k + 1].ok \in BOOLEAN /\ (g[k + 1].ok <=> E(i) <= L)
            /\ g[k + 1].ok => g[k + 1].d = At(d, E(i))
        BY <4>3, <4>6 DEF Shown, L
      <4>8. k + 1 \in 0 .. N
        BY <1>1, <4>2
      <4>9. CASE E(i) <= L
        <5>1. d.pos + 4 * (k + 1) <= E(i)
          <6>1. d.pos + 4 * k <= E(i - 1)
            BY <3>1
          <6> QED
            BY <1>1, <1>4, <4>1, <6>1
        <5>2. There(i, k + 1)
          BY <4>6, <4>7, <4>9, <5>1
        <5> HIDE DEF There
        <5> QED
          BY <2>0, <4>8, <4>9, <5>2
      <4>10. CASE ~(E(i) <= L)
        <5>1. g[k + 1].ok = FALSE
          BY <4>7, <4>10
        <5> HIDE DEF There
        <5> QED
          BY <2>0, <4>8, <4>10, <5>1
      <4> QED
        BY <4>9, <4>10
    <3> QED
      BY <3>2, <3>3
  <2> QED
    BY <2>1, <2>2
<1>8. n \in P
  <2>1. n \in 0 .. n
    OBVIOUS
  <2> HIDE DEF P
  <2> QED
    BY <1>6, <1>7, <2>1, CountingUp
<1>9. CASE E(n) <= L
  <2>1. PICK k \in 0 .. N : There(n, k)
    <3> HIDE DEF There
    <3> QED
      BY <1>8, <1>9
  <2>2. g[k].d.pos >= End(f[0], f[n], d)
    <3>1. g[k].d.pos = E(n)
      BY <2>1 DEF At
    <3>2. E(n) \in Int
      <4>1. CASE n = 0
        BY <1>1, <1>5, <4>1
      <4>2. CASE n # 0
        <5>1. n \in 1 .. n
          BY <4>2
        <5>2. E(n) \in Nat
          BY <1>4, <5>1
        <5> QED
          BY <5>2
      <4> QED
        BY <4>1, <4>2
    <3> QED
      BY <3>1, <3>2 DEF E
  <2>3. g[N] = g[k]
    <3>1. \A m \in 1 .. N : g[m - 1] = g[k] => g[m] = g[m - 1]
      BY <2>2 DEF MemberSteps, N
    <3> QED
      BY <1>1, <3>1, Stationary
  <2>4. Shown(f[0], f[n], d, g[N])
    BY <1>9, <2>1, <2>3 DEF Shown, E, L
  <2> QED
    BY <2>1, <2>3, <2>4 DEF N
<1>10. CASE ~(E(n) <= L)
  <2>1. PICK k \in 0 .. N : g[k].ok = FALSE
    <3> HIDE DEF There
    <3> QED
      BY <1>8, <1>10
  <2>2. g[N] = g[k]
    <3>1. \A m \in 1 .. N : g[m - 1] = g[k] => g[m] = g[m - 1]
      BY <2>1 DEF MemberSteps, N
    <3> QED
      BY <1>1, <3>1, Stationary
  <2>3. Shown(f[0], f[n], d, g[N])
    BY <1>10, <2>1, <2>2 DEF Shown, E, L
  <2> QED
    BY <2>1, <2>2, <2>3 DEF N
<1> QED
  BY <1>9, <1>10

\* A version T of a struct that has the same members, where it has them.
Matches(S, T) ==
  /\ IsStruct(S) /\ IsStruct(T)
  /\ \A i \in Places(Fields(S)), j \in Places(Fields(T)) :
       SameID(S, i, T, j) =>
         Fields(S)[i].opt = Fields(T)[j].opt /\ Fields(S)[i].type = Fields(T)[j].type

LEMMA MemberShown ==
  ASSUME NEW f, PartFaithful(f.type), NEW g, g.opt = f.opt, g.type = f.type,
         NEW w, SendableField(f, w), ~(f.opt /\ w = <<>>), NEW x, x = IF f.opt THEN w[1] ELSE w,
         NEW e, Full(e), EncodePart(f.type, x, e).pos \in Uint32,
         NEW d, Shows(e, EncodePart(f.type, x, e), d), NEW old, ShapedField(g, old)
  PROVE  LET r == DecodeMember(g, d, old)
         IN  /\ Shown(e, EncodePart(f.type, x, e), d, r)
             /\ r.ok => MemberRead(f, w, g, old, r.v)
<1> DEFINE r == DecodeMember(g, d, old)
           b == EncodePart(f.type, x, e)
<1>1. PartReads(f.type) /\ PartZeroes(f.type)
  BY DEF PartFaithful
<1>2. SendablePart(f.type, x)
  BY DEF SendableField, IsFieldValue, EncodableField, SendablePart
<1>3. CASE ~f.opt
  <2>1. r = DecodePart(f.type, d, old) /\ x = w
    BY <1>3 DEF DecodeMember
  <2>2. ShapedPart(f.type, old)
    BY <1>3 DEF ShapedField
  <2>3. Shown(e, b, d, r) /\ (r.ok => (old = ZeroPart(f.type) => r.v = w) /\ Alike(f.type, w, r.v))
    BY <1>1, <1>2, <2>1, <2>2, PartRead
  <2> HIDE DEF r, b
  <2>4. r.ok => MemberRead(f, w, g, old, r.v)
    <3>1. ASSUME r.ok
          PROVE  AlikeField(f, w, g, r.v)
      BY <1>3, <2>3, <3>1, AlikeMember
    <3> QED
      BY <1>3, <2>3, <3>1 DEF MemberRead, ZeroField
  <2> QED
    BY <2>3, <2>4 DEF r, b
<1>4. CASE f.opt
  <2>1. w = <<w[1]>> /\ x = w[1] /\ w # <<>>
    BY <1>4, OneElement DEF SendableField, IsFieldValue
  <2>2. r = DecodeNew(f.type, d, old)
    BY <1>4 DEF DecodeMember
  <2>3. Shown(e, b, d, r) /\ (r.ok => r.v = <<x>> /\ Alike(f.type, x, r.v[1]))
    BY <1>1, <1>2, <2>2, NewRead
  <2> HIDE DEF r, b
  <2>4. ASSUME r.ok
        PROVE  MemberRead(f, w, g, old, r.v)
    <3>1. r.v = w /\ r.v # <<>> /\ Alike(f.type, w[1], r.v[1])
      BY <2>1, <2>3, <2>4
    <3>2. AlikeField(f, w, g, r.v)
      BY <1>4, <2>1, <3>1, AlikeMember
    <3> QED
      BY <3>1, <3>2 DEF MemberRead
  <2> QED
    BY <2>3, <2>4 DEF r, b
<1> QED
  BY <1>3, <1>4

\* One member, i of S, was read: what it makes of x.
MemberStep(S, i, w, T, x, y) ==
  /\ DOMAIN y = DOMAIN x
  /\ IsTuple(x, Len(Fields(T))) => IsTuple(y, Len(Fields(T)))
  /\ \A j \in Places(Fields(T)) : ~SameID(S, i, T, j) => y[j] = x[j]
  /\ \A j \in Places(Fields(T)) :
       SameID(S, i, T, j) => MemberRead(Fields(S)[i], w, Fields(T)[j], x[j], y[j])

\* The header in front of a member, and how far the member reaches.
LEMMA MemberHeaderShown ==
  ASSUME NEW u, IsField(u), PartWrites(u.type), PartIsPlain(u.type),
         NEW w, SendableField(u, w), ~(u.opt /\ w = <<>>),
         NEW e, Full(e), EncodeMember(u, w, e).pos \in Uint32,
         NEW d, Shows(e, EncodeMember(u, w, e), d)
  PROVE  LET x == IF u.opt THEN w[1] ELSE w
             z == NewRawEncoder(e.order)
             s == Sub(u, x, e)
             H == Header(u, x, e)
             f == EncodeMember(u, w, e)
             h == ReadEMHeader(d)
         IN  /\ SendablePart(u.type, x) /\ Extends(z, s) /\ Extends(e, H) /\ Extends(H, f)
             /\ f = WriteRaw(H, s.buf)
             /\ s.buf \in Seq(Byte) /\ s.pos = Len(s.buf) /\ s.pos \in Uint32
             /\ Full(H) /\ Shows(e, H, d)
             /\ H.pos % 4 = 0 /\ Shown(e, H, d, h)
             /\ h.ok => h.v[3] = u.id /\ MemberSize(h.v[2], h.v[4]) = Len(s.buf)
<1> DEFINE x == IF u.opt THEN w[1] ELSE w
           z == NewRawEncoder(e.order)
           s == Sub(u, x, e)
           H == Header(u, x, e)
           f == EncodeMember(u, w, e)
           h == ReadEMHeader(d)
<1>1. IsField(u)
  OBVIOUS
<1>2. /\ SendablePart(u.type, x) /\ Extends(z, s) /\ Extends(e, H) /\ Extends(H, f)
      /\ f = WriteRaw(H, s.buf)
  BY MemberWritten
<1>3. s.buf \in Seq(Byte) /\ s.pos = Len(s.buf) /\ s.pos \in Uint32
  <2>1. s.buf \in Seq(Byte) /\ s.pos = Len(s.buf)
    BY <1>2 DEF Extends, Encoders
  <2>2. f.pos = H.pos + Len(s.buf) /\ H.pos \in Nat /\ f.pos \in Uint32
    <3>1. \A a, b : WriteRaw(a, b).pos = a.pos + Len(b)
      BY DEF WriteRaw, Advance
    <3>2. H.pos \in Nat /\ f.pos \in Uint32
      BY <1>2 DEF Extends, Encoders
    <3> HIDE DEF H, f, s
    <3> QED
      BY <1>2, <3>1, <3>2
  <2>3. Len(s.buf) \in Nat /\ Len(s.buf) <= f.pos
    BY <2>1, <2>2
  <2> QED
    BY <2>1, <2>2, <2>3, LessIsUint32
<1>4. Full(H) /\ Shows(e, H, d)
  <2>1. Shows(e, f, d)
    OBVIOUS
  <2> HIDE DEF H, f
  <2> QED
    BY <1>2, <2>1, ShowsSplits
<1>5. /\ H.pos % 4 = 0 /\ Shown(e, H, d, h)
      /\ h.ok => h.v[3] = u.id /\ MemberSize(h.v[2], h.v[4]) = Len(s.buf)
  <2>1. u.id \in 0 .. MaxMemberID - 1 /\ Len(s.buf) \in Uint32
    <3>1. MaxMemberID \in Nat
      BY DEF MaxMemberID
    <3>2. u.id \in Nat /\ u.id < MaxMemberID
      BY <1>1 DEF IsField
    <3>3. ASSUME NEW m \in Nat, NEW k \in Nat, k < m
          PROVE  k \in 0 .. m - 1
      BY <3>3
    <3> QED
      BY <1>3, <3>1, <3>2, <3>3
  <2>2. H = WriteEMHeader(e, 0, u.id, Len(s.buf))
    BY DEF Header
  <2> HIDE DEF H, s, h
  <2> QED
    BY <1>4, <2>1, <2>2, EMHeaderShown DEF h
<1> QED
  BY <1>2, <1>3, <1>4, <1>5

LEMMA NextMemberShown ==
  ASSUME PartsFaithful, NEW S, NEW T, Matches(S, T), NEW i \in Places(Fields(S)),
         NEW w, SendableField(Fields(S)[i], w), ~(Fields(S)[i].opt /\ w = <<>>),
         NEW e, Full(e), EncodeMember(Fields(S)[i], w, e).pos \in Uint32,
         NEW q, q.ok, Shows(e, EncodeMember(Fields(S)[i], w, e), q.d),
         NEW end \in Int, q.d.pos < end, DOMAIN q.v = Places(Fields(T)),
         \A j \in Places(Fields(T)) : SameID(S, i, T, j) => ShapedField(Fields(T)[j], q.v[j])
  PROVE  LET r == NextMember(T, end, q)
         IN  /\ Shown(e, EncodeMember(Fields(S)[i], w, e), q.d, r)
             /\ r.ok => MemberStep(S, i, w, T, q.v, r.v)
<1> DEFINE u == Fields(S)[i]
           x == IF u.opt THEN w[1] ELSE w
           z == NewRawEncoder(e.order)
           s == Sub(u, x, e)
           H == Header(u, x, e)
           f == EncodeMember(u, w, e)
           h == ReadEMHeader(q.d)
           r == NextMember(T, end, q)
<1>1. IsField(u) /\ PartFaithful(u.type) /\ PartWrites(u.type) /\ PartIsPlain(u.type)
  BY DEF Matches, IsStruct, Places, IsField, PartsFaithful, PartFaithful
<1>2. /\ SendablePart(u.type, x) /\ Extends(z, s) /\ Extends(e, H) /\ Extends(H, f)
      /\ f = WriteRaw(H, s.buf)
      /\ s.buf \in Seq(Byte) /\ s.pos = Len(s.buf) /\ s.pos \in Uint32
      /\ Full(H) /\ Shows(e, H, q.d)
      /\ H.pos % 4 = 0 /\ Shown(e, H, q.d, h)
      /\ h.ok => h.v[3] = u.id /\ MemberSize(h.v[2], h.v[4]) = Len(s.buf)
  BY <1>1, MemberHeaderShown
<1>3. s.buf \in Seq(Byte) /\ s.pos = Len(s.buf) /\ s.pos \in Uint32
  BY <1>2
<1>4. Full(H) /\ Shows(e, H, q.d)
  BY <1>2
<1>5. /\ H.pos % 4 = 0 /\ Shown(e, H, q.d, h)
      /\ h.ok => h.v[3] = u.id /\ MemberSize(h.v[2], h.v[4]) = Len(s.buf)
  BY <1>2
<1>6. r = DecodeNext(T, q.v, h)
  <2>1. ~BodyRead(q.d, end)
    <3>1. q.d.pos \in Nat
      BY DEF Shows, Decoders
    <3> QED
      BY <3>1 DEF BodyRead
  <2> QED
    BY <2>1 DEF NextMember
<1>7. Shows(e, f, q.d) /\ f.pos \in Uint32 /\ x = IF u.opt THEN w[1] ELSE w
  OBVIOUS
<1>8. /\ DOMAIN q.v = Places(Fields(T)) /\ SendableField(u, w) /\ ~(u.opt /\ w = <<>>)
      /\ \A j \in Places(Fields(T)) : SameID(S, i, T, j) => ShapedField(Fields(T)[j], q.v[j])
  OBVIOUS
<1>9. s = EncodePart(u.type, x, z)
  BY DEF Sub
<1>10. /\ \A j \in Places(Fields(T)) : SameID(S, i, T, j) <=> u.id = Fields(T)[j].id
       /\ \A j \in Places(Fields(T)) :
            SameID(S, i, T, j) => Fields(T)[j].opt = u.opt /\ Fields(T)[j].type = u.type
       /\ \A j, k \in Places(Fields(T)) : Fields(T)[j].id = Fields(T)[k].id => j = k
       /\ Places(Fields(T)) = 1 .. Len(Fields(T))
  BY DEF SameID, Matches, IsStruct, Places
<1> HIDE DEF u, x, z, s, H, f, h, r
<1>11. CASE ~h.ok
  <2>1. r = Into(h, q.v)
    BY <1>6, <1>11 DEF DecodeNext
  <2>2. r.ok = h.ok /\ h.ok \in BOOLEAN
    BY <1>5, <2>1 DEF Into, Shown
  <2>3. r.ok \in BOOLEAN /\ ~r.ok
    BY <1>11, <2>2
  <2>4. Shown(e, f, q.d, r)
    BY <1>2, <1>5, <1>7, <1>11, <2>3, ThenShown
  <2> QED
    BY <2>3, <2>4 DEF r, f, u
<1>12. CASE h.ok
  <2> DEFINE K == Known(T, u.id)
  <2>1. Shows(H, f, h.d)
    BY <1>2, <1>5, <1>7, <1>12, ThenShown
  <2>2. CASE K = {}
    <3> DEFINE k == Skip(h.d, Len(s.buf))
    <3>1. r = Into(k, q.v)
      BY <1>5, <1>6, <1>12, <2>2 DEF DecodeNext
    <3>2. Shown(H, f, h.d, k)
      BY <1>2, <1>3, <1>4, <2>1, RawShown
    <3> HIDE DEF k
    <3>3. r.d = k.d /\ r.ok = k.ok /\ r.v = q.v
      BY <3>1 DEF Into
    <3>4. Shown(H, f, h.d, r) /\ r.ok \in BOOLEAN
      BY <3>2, <3>3 DEF Shown
    <3>5. Shown(e, f, q.d, r)
      BY <1>2, <1>5, <1>7, <1>12, <3>4, ThenShown
    <3>6. \A j \in Places(Fields(T)) : ~SameID(S, i, T, j)
      BY <1>10, <2>2 DEF Known
    <3>7. MemberStep(S, i, w, T, q.v, r.v)
      BY <3>3, <3>6 DEF MemberStep
    <3> QED
      BY <3>5, <3>7 DEF r, f, u
  <2>3. CASE K # {}
    <3> DEFINE j == CHOOSE j \in K : TRUE
               g == Fields(T)[j]
               o == q.v[j]
               y == DecodeMember(g, h.d, o)
    <3>1. j \in Places(Fields(T)) /\ g.id = u.id
      <4>1. j \in K
        BY <2>3
      <4> QED
        BY <1>10, <4>1 DEF Known
    <3>2. r = SetAt(q.v, j, y)
      BY <1>5, <1>6, <1>12, <2>3 DEF DecodeNext, DecodeKnown
    <3> HIDE DEF j
    <3>3. SameID(S, i, T, j) /\ \A k \in Places(Fields(T)) : SameID(S, i, T, k) => k = j
      BY <1>10, <3>1
    <3>4. g.opt = u.opt /\ g.type = u.type /\ ShapedField(g, o)
      BY <1>8, <1>10, <3>1, <3>3
    <3> HIDE DEF g, o
    <3>5. Full(z) /\ Shows(z, s, h.d) /\ End(z, s, h.d) = End(H, f, h.d)
      <4>1. Extends(NewRawEncoder(H.order), s)
        BY <1>2 DEF Extends, z
      <4>2. NewRawEncoder(H.order) = z
        BY <1>2 DEF Extends, z
      <4>3. f = WriteRaw(H, s.buf) /\ H.pos % 4 = 0 /\ Full(H)
        BY <1>2
      <4> QED
        BY <2>1, <4>1, <4>2, <4>3, SubShown
    <3>6. Shown(z, s, h.d, y) /\ (y.ok => MemberRead(u, w, g, o, y.v))
      BY <1>1, <1>3, <1>7, <1>8, <1>9, <3>4, <3>5, MemberShown
    <3> HIDE DEF y
    <3>7. Assigned(q.v, j, y, r)
      BY <1>8, <3>1, <3>2, SetAtKeeps
    <3>8. Shown(H, f, h.d, r) /\ r.ok \in BOOLEAN
      BY <3>5, <3>6, <3>7 DEF Assigned, Shown
    <3>9. Shown(e, f, q.d, r)
      BY <1>2, <1>5, <1>7, <1>12, <3>8, ThenShown
    <3>10. ASSUME r.ok
           PROVE  MemberStep(S, i, w, T, q.v, r.v)
      <4>1. MemberRead(u, w, g, o, r.v[j])
        BY <3>6, <3>7, <3>10 DEF Assigned
      <4>2. \A k \in Places(Fields(T)) :
              SameID(S, i, T, k) => MemberRead(u, w, Fields(T)[k], q.v[k], r.v[k])
        BY <3>3, <4>1 DEF g, o
      <4>3. \A k \in Places(Fields(T)) : ~SameID(S, i, T, k) => r.v[k] = q.v[k]
        BY <1>8, <3>3, <3>7 DEF Assigned
      <4>4. DOMAIN r.v = DOMAIN q.v /\ IsTuple(r.v, Len(Fields(T)))
        BY <1>8, <1>10, <3>7 DEF Assigned, IsTuple
      <4> QED
        BY <4>2, <4>3, <4>4 DEF MemberStep, u
    <3> QED
      BY <3>9, <3>10 DEF r, f, u
  <2> QED
    BY <2>2, <2>3
<1> QED
  BY <1>11, <1>12

\* The same when the members up to i of the S were read.
ReadUpTo(S, v, T, old, i, x) ==
  /\ DOMAIN x = Places(Fields(T))
  /\ IsTuple(old, Len(Fields(T))) => IsTuple(x, Len(Fields(T)))
  /\ \A j \in Places(Fields(T)) : (\A k \in 1 .. i : ~SameID(S, k, T, j)) => x[j] = old[j]
  /\ \A k \in 1 .. i, j \in Places(Fields(T)) :
       SameID(S, k, T, j) => MemberRead(Fields(S)[k], v[k], Fields(T)[j], old[j], x[j])

\* A member of an S not read yet is none of those that were.
LEMMA UnreadMember ==
  ASSUME NEW S, NEW T, Matches(S, T), NEW v, NEW old, NEW i \in Places(Fields(S)), NEW x,
         ReadUpTo(S, v, T, old, i - 1, x), NEW j \in Places(Fields(T)), SameID(S, i, T, j)
  PROVE  x[j] = old[j] /\ \A k \in 1 .. i - 1 : ~SameID(S, k, T, j)
<1> DEFINE n == Len(Fields(S))
<1>1. n \in Nat /\ Places(Fields(S)) = 1 .. n
      /\ \A k \in 1 .. n : Fields(S)[k].id = Fields(S)[i].id => k = i
  BY DEF Matches, IsStruct, Places
<1> HIDE DEF n
<1>2. ASSUME NEW k \in 1 .. i - 1
      PROVE  ~SameID(S, k, T, j)
  <2>1. k \in 1 .. n /\ k # i
    BY <1>1
  <2> QED
    BY <1>1, <2>1 DEF SameID
<1> QED
  BY <1>2 DEF ReadUpTo

LEMMA AbsentMember ==
  ASSUME NEW S, NEW T, Matches(S, T), NEW v, NEW old, NEW i \in Places(Fields(S)), NEW x,
         ReadUpTo(S, v, T, old, i - 1, x), Fields(S)[i].opt, v[i] = <<>>
  PROVE  ReadUpTo(S, v, T, old, i, x)
<1>1. i \in Nat /\ i >= 1
  BY DEF Matches, IsStruct, Places
<1>2. ASSUME NEW k \in 1 .. i, NEW j \in Places(Fields(T)), SameID(S, k, T, j)
      PROVE  MemberRead(Fields(S)[k], v[k], Fields(T)[j], old[j], x[j])
  <2>1. CASE k # i
    <3>1. k \in 1 .. i - 1
      BY <1>1, <2>1
    <3> QED
      BY <1>2, <3>1 DEF ReadUpTo
  <2>2. CASE k = i
    <3> DEFINE u == Fields(S)[i]
               g == Fields(T)[j]
    <3>1. x[j] = old[j]
      BY <1>2, <2>2, UnreadMember
    <3>2. u.opt /\ g.opt = u.opt /\ g.type = u.type
      BY <1>2, <2>2 DEF Matches
    <3> HIDE DEF u, g
    <3>3. AlikeField(u, v[i], g, x[j])
      BY <3>2, AlikeMember
    <3>4. MemberRead(u, v[i], g, old[j], x[j])
      BY <3>1, <3>2, <3>3 DEF MemberRead, ZeroField
    <3> QED
      BY <2>2, <3>4 DEF u, g
  <2> QED
    BY <2>1, <2>2
<1>3. 1 .. i - 1 \subseteq 1 .. i
  BY <1>1
<1> QED
  BY <1>2, <1>3 DEF ReadUpTo

LEMMA PresentMember ==
  ASSUME NEW S, NEW T, Matches(S, T), NEW v, NEW old, NEW i \in Places(Fields(S)), NEW x,
         ReadUpTo(S, v, T, old, i - 1, x), NEW y, MemberStep(S, i, v[i], T, x, y)
  PROVE  ReadUpTo(S, v, T, old, i, y)
<1>1. i \in Nat /\ i >= 1
  BY DEF Matches, IsStruct, Places
<1>2. ASSUME NEW k \in 1 .. i, NEW j \in Places(Fields(T)), SameID(S, k, T, j)
      PROVE  MemberRead(Fields(S)[k], v[k], Fields(T)[j], old[j], y[j])
  <2>1. CASE k # i
    <3>1. k \in 1 .. i - 1
      BY <1>1, <2>1
    <3>2. ~SameID(S, i, T, j)
      BY <1>2, <3>1, UnreadMember
    <3> QED
      BY <1>2, <3>1, <3>2 DEF ReadUpTo, MemberStep
  <2>2. CASE k = i
    <3>1. x[j] = old[j]
      BY <1>2, <2>2, UnreadMember
    <3> QED
      BY <1>2, <2>2, <3>1 DEF MemberStep
  <2> QED
    BY <2>1, <2>2
<1>3. ASSUME NEW j \in Places(Fields(T)), \A k \in 1 .. i : ~SameID(S, k, T, j)
      PROVE  y[j] = old[j]
  <2>1. i \in 1 .. i /\ 1 .. i - 1 \subseteq 1 .. i
    BY <1>1
  <2> QED
    BY <1>3, <2>1 DEF MemberStep, ReadUpTo
<1> QED
  BY <1>2, <1>3 DEF ReadUpTo, MemberStep

\* A member takes at least the word of its header, or, if it is absent, nothing.
LEMMA MembersAdvance ==
  ASSUME PartsFaithful, NEW S, IsStruct(S),
         NEW v, \A i \in Places(Fields(S)) : SendableField(Fields(S)[i], v[i]),
         NEW e, EncodeMembers(S, v, e).pos \in Uint32,
         NEW f, MembersBy(S, v, e, Len(Fields(S)), f), NEW i \in 1 .. Len(Fields(S))
  PROVE  LET n == Len(Fields(S))
         IN  /\ i \in 0 .. n /\ i - 1 \in 0 .. n /\ Full(f[i - 1]) /\ Extends(f[i], f[n])
             /\ f[i].pos \in Uint32
             /\ Fields(S)[i].opt /\ v[i] = <<>> => f[i] = f[i - 1]
             /\ ~(Fields(S)[i].opt /\ v[i] = <<>>) => f[i - 1].pos + 4 <= f[i].pos
<1> DEFINE n == Len(Fields(S))
           F(k) == Fields(S)[k]
<1>2. /\ n \in Nat
      /\ \A k \in 1 .. n : /\ IsField(F(k)) /\ PartWrites(F(k).type) /\ PartIsPlain(F(k).type)
                           /\ SendableField(F(k), v[k])
  BY DEF IsStruct, Places, PartsFaithful, PartFaithful, IsField
<1>3. /\ f[0] = e /\ EncodeMembers(S, v, e) = f[n]
      /\ \A k \in 1 .. n : f[k] = EncodeMember(F(k), v[k], f[k - 1])
      /\ \A k \in 0 .. n : Full(f[k])
      /\ \A j \in 0 .. n : \A k \in 0 .. j : Extends(f[k], f[j])
  BY DEF MembersBy
<1>1. i \in 1 .. n
  OBVIOUS
<1> HIDE DEF n, F
<1>4. i \in 0 .. n /\ i - 1 \in 0 .. n /\ n \in 0 .. n /\ i \in 0 .. i
  BY <1>1, <1>2
<1>5. Full(f[i - 1]) /\ Extends(f[i], f[n]) /\ f[n].pos \in Uint32 /\ Extends(f[i], f[i])
  BY <1>1, <1>3, <1>4
<1>6. f[i].pos \in Uint32
  BY <1>5, ExtendsUint32
<1> DEFINE u == F(i)
           w == v[i]
           b == f[i - 1]
           x == IF u.opt THEN w[1] ELSE w
           H == Header(u, x, b)
           s == Sub(u, x, b)
           m == f[i]
<1>7. f[i] = EncodeMember(u, w, b) /\ IsField(u) /\ PartWrites(u.type) /\ PartIsPlain(u.type)
      /\ SendableField(u, w)
  BY <1>1, <1>2, <1>3
<1>8. /\ u.opt /\ w = <<>> => m = b
      /\ ~(u.opt /\ w = <<>>) =>
           /\ Extends(b, H) /\ Extends(H, m) /\ m = WriteRaw(H, s.buf)
           /\ Extends(NewRawEncoder(b.order), s)
  <2> HIDE DEF u, w, b
  <2> QED
    BY <1>5, <1>7, MemberWritten DEF b
<1>9. ASSUME ~(u.opt /\ w = <<>>)
      PROVE  b.pos + 4 <= m.pos
  <2>0. m.pos \in Uint32
    BY <1>6
  <2>1. H = WriteEMHeader(b, 0, u.id, Len(s.buf))
    BY DEF Header
  <2> HIDE DEF u, w, b, x, H, s, m
  <2>2. /\ s.buf \in Seq(Byte) /\ H.pos \in Nat /\ m.pos \in Nat /\ m.pos = H.pos + Len(s.buf)
    <3>1. \A p, q : WriteRaw(p, q).pos = p.pos + Len(q)
      BY DEF WriteRaw, Advance
    <3>2. s.buf \in Seq(Byte) /\ H.pos \in Nat /\ m.pos \in Nat
      BY <1>8, <1>9 DEF Extends, Encoders
    <3> QED
      BY <1>8, <1>9, <3>1, <3>2
  <2>3. Len(s.buf) \in Uint32
    <3>1. Len(s.buf) \in Nat /\ Len(s.buf) <= m.pos
      BY <2>2
    <3> QED
      BY <2>0, <3>1, LessIsUint32
  <2>4. u.id \in 0 .. MaxMemberID - 1
    <3>1. MaxMemberID \in Nat
      BY DEF MaxMemberID
    <3>2. u.id \in Nat /\ u.id < MaxMemberID
      BY <1>7 DEF IsField
    <3>3. ASSUME NEW p \in Nat, NEW k \in Nat, k < p
          PROVE  k \in 0 .. p - 1
      BY <3>3
    <3> QED
      BY <3>1, <3>2, <3>3
  <2>5. b.pos + 4 <= H.pos
    <3>1. Full(b)
      BY <1>5 DEF b
    <3> QED
      BY <2>1, <2>3, <2>4, <3>1, EMHeaderShown
  <2>6. b.pos \in Nat
    BY <1>5 DEF b, Full, Encoders
  <2>7. Len(s.buf) \in Nat
    BY <2>2
  <2> QED
    BY <2>2, <2>5, <2>6, <2>7
<1> QED
  BY <1>4, <1>5, <1>6, <1>8, <1>9 DEF n, F

LEMMA MembersShown ==
  ASSUME PartsFaithful, NEW S, NEW T, Matches(S, T),
         NEW v, \A i \in Places(Fields(S)) : SendableField(Fields(S)[i], v[i]),
         NEW e, Full(e), EncodeMembers(S, v, e).pos \in Uint32,
         NEW d, Within(d), d.pos >= 4, Shows(e, EncodeMembers(S, v, e), d),
         NEW old, ShapedStruct(T, old)
  PROVE  LET r == DecodeMembers(T, End(e, EncodeMembers(S, v, e), d), Got(d, old))
         IN  /\ Extends(e, EncodeMembers(S, v, e))
             /\ Shown(e, EncodeMembers(S, v, e), d, r)
             /\ r.ok => MembersRead(S, v, T, old, r.v)
<1> DEFINE n == Len(Fields(S))
           F(i) == Fields(S)[i]
           G(j) == Fields(T)[j]
           end == End(e, EncodeMembers(S, v, e), d)
           a == Got(d, old)
           N == Rounds(d)
<1>1. /\ n \in Nat /\ Places(Fields(S)) = 1 .. n
      /\ \A i \in 1 .. n : /\ IsField(F(i)) /\ PartWrites(F(i).type) /\ PartIsPlain(F(i).type)
                           /\ SendableField(F(i), v[i])
      /\ DOMAIN old = Places(Fields(T))
      /\ \A j \in Places(Fields(T)) : ShapedField(G(j), old[j])
  BY DEF Matches, IsStruct, Places, PartsFaithful, PartFaithful, ShapedStruct, IsField
<1>2. PICK f : MembersBy(S, v, e, n, f)
  BY MembersWritten DEF Matches
<1>3. a.d = d /\ a.v = old /\ a.ok = TRUE
  BY DEF Got
<1> HIDE DEF a
<1>4. PICK g : /\ g[0] = a /\ DecodeMembers(T, end, a) = g[N]
               /\ \A k \in 1 .. N : g[k] = NextMember(T, end, g[k - 1])
  <2> HIDE DEF end
  <2> QED
    BY <1>3, MembersRun
<1>5. N \in Nat
  BY RoundsType
<1> DEFINE Q == {p \in (0 .. n) \X (0 .. N) : ReadUpTo(S, v, T, old, p[1], g[p[2]].v)}
<1>6. /\ f[0] = e /\ EncodeMembers(S, v, e) = f[n]
      /\ \A i \in 1 .. n : f[i] = EncodeMember(F(i), v[i], f[i - 1])
      /\ \A i \in 0 .. n : Full(f[i])
      /\ \A j \in 0 .. n : \A i \in 0 .. j : Extends(f[i], f[j])
  BY <1>2 DEF MembersBy
<1>7. end = End(f[0], f[n], d) /\ end \in Int
  <2>1. f[0].pos \in Nat /\ f[n].pos \in Nat /\ d.pos \in Nat
    BY <1>1, <1>6 DEF Full, Encoders, Within, Decoders
  <2> QED
    BY <1>6, <2>1 DEF End
<1> HIDE DEF end, N, n, F, G
<1>8. <<0, 0>> \in Q
  <2>1. ReadUpTo(S, v, T, old, 0, g[0].v)
    BY <1>1, <1>3, <1>4 DEF ReadUpTo
  <2> QED
    BY <1>1, <1>5, <2>1
<1>9. ASSUME NEW i \in 1 .. n
      PROVE  /\ i \in 0 .. n /\ i - 1 \in 0 .. n /\ Full(f[i - 1]) /\ Extends(f[i], f[n])
             /\ f[i].pos \in Uint32
             /\ F(i).opt /\ v[i] = <<>> => f[i] = f[i - 1]
             /\ ~(F(i).opt /\ v[i] = <<>>) => f[i - 1].pos + 4 <= f[i].pos
  BY <1>2, MembersAdvance DEF n, F, Matches
<1>10. ASSUME NEW k \in 1 .. N, ~g[k - 1].ok \/ g[k - 1].d.pos >= end
       PROVE  g[k] = g[k - 1]
  BY <1>4, <1>10 DEF NextMember, BodyRead
<1>11. ASSUME NEW i \in 1 .. n, NEW k \in 0 .. N, f[i] = f[i - 1], <<i - 1, k>> \in Q
       PROVE  <<i, k>> \in Q
  <2>1. F(i).opt /\ v[i] = <<>>
    <3>1. f[i].pos \in Nat
      BY <1>9, <1>6 DEF Full, Encoders
    <3>2. ~(f[i - 1].pos + 4 <= f[i].pos)
      BY <1>11, <3>1
    <3> QED
      BY <1>9, <3>2
  <2>2. ReadUpTo(S, v, T, old, i - 1, g[k].v)
    BY <1>11
  <2>3. ReadUpTo(S, v, T, old, i, g[k].v)
    <3>1. i \in Places(Fields(S)) /\ Fields(S)[i].opt
      BY <1>1, <2>1 DEF F
    <3> QED
      BY <2>1, <2>2, <3>1, AbsentMember
  <2> QED
    BY <1>9, <2>3
<1>12. ASSUME NEW i \in 1 .. n, NEW k \in 1 .. N, f[i] # f[i - 1], <<i - 1, k - 1>> \in Q,
              g[k - 1].ok, g[k - 1].d.pos < end, Shows(f[i - 1], f[i], g[k - 1].d)
       PROVE  Shown(f[i - 1], f[i], g[k - 1].d, g[k]) /\ (g[k].ok => <<i, k>> \in Q)
  <2> DEFINE q == g[k - 1]
             r == g[k]
             b == f[i - 1]
             w == v[i]
  <2>1. ReadUpTo(S, v, T, old, i - 1, q.v)
    BY <1>12
  <2>2. /\ ~(Fields(S)[i].opt /\ w = <<>>) /\ SendableField(Fields(S)[i], w) /\ Full(b)
        /\ i \in Places(Fields(S)) /\ f[i] = EncodeMember(Fields(S)[i], w, b)
        /\ f[i].pos \in Uint32
    BY <1>1, <1>6, <1>9, <1>12 DEF F
  <2>3. r = NextMember(T, end, q) /\ q.ok /\ q.d.pos < end /\ Shows(b, f[i], q.d)
    BY <1>4, <1>12
  <2> HIDE DEF q, r, b, Q
  <2>4. DOMAIN q.v = Places(Fields(T))
    BY <2>1 DEF ReadUpTo
  <2>5. ASSUME NEW j \in Places(Fields(T)), SameID(S, i, T, j)
        PROVE  ShapedField(Fields(T)[j], q.v[j])
    <3>1. q.v[j] = old[j]
      <4> DEFINE y == q.v
      <4>1. ReadUpTo(S, v, T, old, i - 1, y) /\ i \in Places(Fields(S))
        BY <2>1, <2>2
      <4> HIDE DEF y
      <4>2. y[j] = old[j]
        BY <2>5, <4>1, UnreadMember
      <4> QED
        BY <4>2 DEF y
    <3> QED
      BY <1>1, <3>1 DEF G
  <2>6. Shown(b, f[i], q.d, r) /\ (r.ok => MemberStep(S, i, w, T, q.v, r.v))
    <3>1. EncodeMember(Fields(S)[i], w, b).pos \in Uint32
          /\ Shows(b, EncodeMember(Fields(S)[i], w, b), q.d)
      BY <2>2, <2>3
    <3> HIDE DEF w
    <3> QED
      BY <1>7, <2>2, <2>3, <2>4, <2>5, <3>1, NextMemberShown
  <2>7. ASSUME r.ok
        PROVE  <<i, k>> \in Q
    <3>1. ReadUpTo(S, v, T, old, i, r.v)
      BY <2>1, <2>2, <2>6, <2>7, PresentMember
    <3>2. k \in 0 .. N
      BY <1>5
    <3> QED
      BY <1>9, <3>1, <3>2 DEF Q, r
  <2> QED
    BY <2>6, <2>7 DEF q, r, b
<1> HIDE DEF Q
<1>13. MemberSteps(n, f, d, g, N, Q)
  <2>1. Full(f[0]) /\ Shows(f[0], f[n], d)
    BY <1>6
  <2>2. g[0].ok = TRUE /\ g[0].d = d
    BY <1>3, <1>4
  <2>3. \A i \in 1 .. n : f[i] = f[i - 1] \/ f[i - 1].pos + 4 <= f[i].pos
    BY <1>9
  <2>4. \A k \in 1 .. N :
          ~g[k - 1].ok \/ g[k - 1].d.pos >= End(f[0], f[n], d) => g[k] = g[k - 1]
    BY <1>7, <1>10
  <2>5. \A i \in 1 .. n, k \in 0 .. N : f[i] = f[i - 1] /\ <<i - 1, k>> \in Q => <<i, k>> \in Q
    BY <1>11
  <2>6. \A i \in 1 .. n, k \in 1 .. N :
          /\ f[i] # f[i - 1] /\ <<i - 1, k - 1>> \in Q /\ g[k - 1].ok
          /\ g[k - 1].d.pos < End(f[0], f[n], d) /\ Shows(f[i - 1], f[i], g[k - 1].d)
          => Shown(f[i - 1], f[i], g[k - 1].d, g[k]) /\ (g[k].ok => <<i, k>> \in Q)
    BY <1>7, <1>12
  <2> QED
    BY <1>6, <1>8, <2>1, <2>2, <2>3, <2>4, <2>5, <2>6 DEF MemberSteps
<1>14. Shown(f[0], f[n], d, g[N]) /\ (g[N].ok => \E k \in 0 .. N : g[N] = g[k] /\ <<n, k>> \in Q)
  BY <1>1, <1>13, MemberRounds DEF N
<1>15. ASSUME g[N].ok
       PROVE  MembersRead(S, v, T, old, g[N].v)
  <2>1. PICK k \in 0 .. N : g[N] = g[k] /\ <<n, k>> \in Q
    BY <1>14, <1>15
  <2>2. ReadUpTo(S, v, T, old, n, g[N].v)
    BY <2>1 DEF Q
  <2> QED
    BY <1>1, <2>2 DEF ReadUpTo, MembersRead
<1>16. Extends(f[0], f[n])
  BY <1>1, <1>6
<1> QED
  BY <1>4, <1>6, <1>14, <1>15, <1>16 DEF a, end

LEMMA ShownWithin ==
  ASSUME NEW d \in Decoders, d.pos <= Len(d.data)
  PROVE  Within(d)
<1>1. Len(d.data) \in Nat /\ d.pos \in Nat
  BY DEF Decoders
<1>2. Pad(Len(d.data), 4) \in Nat
  BY <1>1, PadAligns
<1> DEFINE n == Pad(Len(d.data), 4)
<1> HIDE DEF n
<1>3. d.pos <= Len(d.data) + n
  BY <1>1, <1>2 DEF n
<1> QED
  BY <1>3 DEF Within, Bound, n

\* A body that is read behind its DHEADER.
LEMMA ThenBodyShown ==
  ASSUME NEW e, Full(e), NEW f, Extends(BeginDHeader(e), f), f.pos \in Uint32,
         NEW d, Shows(e, FinishDHeader(f, DHeaderStart(e)), d),
         NEW s, s.ok \in BOOLEAN,
         ReadDHeader(d).ok => Shown(BeginDHeader(e), f, ReadDHeader(d).d, s),
         ~ReadDHeader(d).ok => ~s.ok
  PROVE  Shown(e, FinishDHeader(f, DHeaderStart(e)), d, s)
<1> DEFINE b == BeginDHeader(e)
           g == FinishDHeader(f, DHeaderStart(e))
           r == ReadDHeader(d)
           p == End(e, b, d)
           q == End(e, g, d)
<1>1. /\ Shown(e, b, d, r) /\ p <= q /\ e.pos + 4 <= b.pos /\ g.pos = f.pos
      /\ r.ok => End(b, f, r.d) = q
  BY DHeaderShown
<1>2. p \in Int /\ q \in Int /\ Len(d.data) \in Int
  <2>1. b.pos \in Int /\ f.pos \in Int /\ e.pos \in Int /\ d.pos \in Int /\ Len(d.data) \in Int
    <3>1. Full(b)
      BY DHeaderShown
    <3> QED
      BY <3>1 DEF Full, Encoders, Shows, Decoders, Extends
  <2> HIDE DEF b, g
  <2> QED
    BY <1>1, <2>1 DEF End
<1>3. \A k : At(At(d, p), k) = At(d, k) /\ At(d, p).data = d.data
  BY DEF At
<1>4. r.ok => Shown(b, f, r.d, s)
  OBVIOUS
<1>5. ~r.ok => ~s.ok
  OBVIOUS
<1> HIDE DEF b, g, r, p, q
<1>6. CASE r.ok
  <2>1. r.d = At(d, p) /\ End(b, f, r.d) = q /\ Shown(b, f, r.d, s)
    BY <1>1, <1>4, <1>6 DEF Shown, p
  <2>2. r.d.data = d.data /\ At(r.d, q) = At(d, q)
    BY <1>3, <2>1
  <2>3. Shown(e, g, d, s)
    BY <2>1, <2>2 DEF Shown, q
  <2> QED
    BY <2>3 DEF g
<1>7. CASE ~r.ok
  <2>1. ~(p <= Len(d.data))
    BY <1>1, <1>7 DEF Shown, p
  <2>2. ~(q <= Len(d.data))
    BY <1>1, <1>2, <2>1
  <2>3. Shown(e, g, d, s)
    BY <1>5, <1>7, <2>2 DEF Shown, q
  <2> QED
    BY <2>3 DEF g
<1> QED
  BY <1>6, <1>7

\* A struct is read by the code of its own type, or, if it is MUTABLE, by that
\* of a version whose common members have the same types.
Understands(T, S) ==
  /\ Matches(S, T) /\ Structs[S].ext = Structs[T].ext
  /\ Structs[S].ext # "MUTABLE" => S = T
LEMMA MatchesItself ==
  ASSUME NEW S, IsStruct(S)
  PROVE  Matches(S, S)
BY DEF Matches, IsStruct, SameID

LEMMA StructRead ==
  ASSUME PartsFaithful, NEW S, NEW T, Understands(T, S),
         NEW v, \A i \in Places(Fields(S)) : SendableField(Fields(S)[i], v[i]),
         NEW e, Full(e), EncodeStruct(S, v, e).pos \in Uint32,
         NEW d, Shows(e, EncodeStruct(S, v, e), d), NEW old, ShapedStruct(T, old)
  PROVE  LET r == DecodeStruct(T, d, old)
         IN  /\ Shown(e, EncodeStruct(S, v, e), d, r)
             /\ r.ok => MembersRead(S, v, T, old, r.v)
<1> DEFINE r == DecodeStruct(T, d, old)
           g == EncodeStruct(S, v, e)
<1>0. /\ IsStruct(S) /\ IsStruct(T) /\ Matches(S, T) /\ Structs[S].ext \in Extensibilities
      /\ Structs[S].ext = Structs[T].ext /\ (Structs[S].ext # "MUTABLE" => S = T)
  BY DEF Understands, Matches, IsStruct
<1>1. CASE Structs[S].ext = "FINAL"
  <2>1. g = EncodeFields(S, v, e) /\ r = DecodeFields(S, Got(d, old)) /\ S = T
    BY <1>0, <1>1 DEF EncodeStruct, DecodeStruct
  <2>2. EncodeFields(S, v, e).pos \in Uint32 /\ Shows(e, EncodeFields(S, v, e), d)
    BY <2>1
  <2> QED
    BY <1>0, <2>1, <2>2, FieldsRead
<1>2. CASE Structs[S].ext # "FINAL"
  <2> DEFINE b == BeginDHeader(e)
             f == IF Structs[S].ext = "APPENDABLE" THEN EncodeFields(S, v, b)
                  ELSE EncodeMembers(S, v, b)
             h == ReadDHeader(d)
  <2>1. g = FinishDHeader(f, DHeaderStart(e)) /\ r = DecodeBody(T, h, old)
    BY <1>0, <1>2 DEF EncodeStruct, DecodeStruct, Extensibilities
  <2>2. Full(b)
    <3>1. Extends(e, b)
      BY BeginExtends DEF Full
    <3> QED
      BY <3>1 DEF Full, Extends
  <2> HIDE DEF b, h, r, g
  <2>3. Extends(b, f)
    <3> DEFINE n == Len(Fields(S))
    <3>1. n \in Nat
      BY <1>0 DEF IsStruct
    <3>2. PICK c : FieldsBy(S, v, b, n, c)
      BY <1>0, <2>2, FieldsWritten
    <3>3. PICK m : MembersBy(S, v, b, n, m)
      BY <1>0, <2>2, MembersWritten
    <3> HIDE DEF n
    <3> QED
      BY <3>1, <3>2, <3>3 DEF FieldsBy, MembersBy
  <2> HIDE DEF f
  <2>4. f.pos \in Uint32 /\ Shows(e, FinishDHeader(f, DHeaderStart(e)), d)
    <3>1. g.pos = f.pos
      BY <2>1, <2>3, DHeaderWritten DEF b
    <3>2. g.pos \in Uint32 /\ Shows(e, g, d)
      BY DEF g
    <3> QED
      BY <2>1, <3>1, <3>2
  <2>5. /\ Shown(e, b, d, h) /\ e.pos + 4 <= b.pos
        /\ h.ok => Num(h.v) = f.pos - b.pos /\ Shows(b, f, h.d)
    BY <2>3, <2>4, DHeaderShown DEF b, h
  <2>6. ASSUME h.ok
        PROVE  Shown(b, f, h.d, r) /\ (r.ok => MembersRead(S, v, T, old, r.v))
    <3>1. h.d.pos >= 4
      <4>1. h.d = At(d, End(e, b, d))
        BY <2>5, <2>6 DEF Shown
      <4>2. h.d.pos = d.pos + (b.pos - e.pos)
        BY <4>1 DEF At, End
      <4>3. d.pos \in Nat /\ b.pos \in Nat /\ e.pos \in Nat
        BY <2>2 DEF Shows, Decoders, Full, Encoders
      <4> QED
        BY <2>5, <4>2, <4>3
    <3>2. CASE Structs[S].ext = "APPENDABLE"
      <4>1. f = EncodeFields(S, v, b) /\ r = DecodeFields(S, Got(h.d, old)) /\ S = T
        BY <1>0, <2>1, <2>6, <3>2 DEF f, DecodeBody
      <4>2. EncodeFields(S, v, b).pos \in Uint32 /\ Shows(b, EncodeFields(S, v, b), h.d)
        BY <2>4, <2>5, <2>6, <4>1
      <4> QED
        BY <1>0, <2>2, <4>1, <4>2, FieldsRead
    <3>3. CASE Structs[S].ext = "MUTABLE"
      <4>1. f = EncodeMembers(S, v, b)
        BY <3>3 DEF f
      <4>2. r = DecodeMembers(T, h.d.pos + Num(h.v), Got(h.d, old))
        BY <1>0, <2>1, <2>6, <3>3 DEF DecodeBody
      <4>3. h.d.pos + Num(h.v) = End(b, f, h.d)
        BY <2>5, <2>6 DEF End
      <4>4. Within(h.d)
        <5>1. h.d \in Decoders /\ h.d.pos <= Len(h.d.data) /\ h.d.data \in Seq(Byte)
              /\ h.d.pos \in Nat
          BY <2>5, <2>6 DEF Shows, Decoders
        <5> QED
          BY <5>1, ShownWithin
      <4>5. r = DecodeMembers(T, End(b, EncodeMembers(S, v, b), h.d), Got(h.d, old))
        BY <4>1, <4>2, <4>3
      <4>6. EncodeMembers(S, v, b).pos \in Uint32 /\ Shows(b, EncodeMembers(S, v, b), h.d)
        BY <2>4, <2>5, <2>6, <4>1
      <4> QED
        BY <1>0, <2>2, <3>1, <4>1, <4>4, <4>5, <4>6, MembersShown
    <3> QED
      BY <1>0, <1>2, <3>2, <3>3 DEF Extensibilities
  <2>7. ASSUME ~h.ok
        PROVE  r.ok \in BOOLEAN /\ ~r.ok
    <3>1. r = Into(h, old)
      BY <2>1, <2>7 DEF DecodeBody
    <3>2. r.ok = h.ok /\ h.ok \in BOOLEAN
      BY <2>5, <3>1 DEF Into, Shown
    <3> QED
      BY <2>7, <3>2
  <2>8. r.ok \in BOOLEAN
    BY <2>6, <2>7 DEF Shown
  <2>9. Shown(e, g, d, r)
    <3>1. ReadDHeader(d).ok => Shown(BeginDHeader(e), f, ReadDHeader(d).d, r)
      BY <2>6 DEF b, h
    <3>2. ~ReadDHeader(d).ok => ~r.ok
      BY <2>7 DEF h
    <3>3. Extends(BeginDHeader(e), f)
      BY <2>3 DEF b
    <3> QED
      BY <2>1, <2>4, <2>8, <3>1, <3>2, <3>3, ThenBodyShown
  <2>10. r.ok => MembersRead(S, v, T, old, r.v)
    BY <2>6, <2>7
  <2> QED
    BY <2>9, <2>10 DEF r, g
<1> QED
  BY <1>1, <1>2

\* The same of a whole value.
LEMMA AlikeStruct ==
  ASSUME NEW t, t.k = "struct", NEW u, NEW v, NEW x,
         \A i \in Places(Fields(t.name)), j \in Places(Fields(u.name)) :
           Fields(t.name)[i].id = Fields(u.name)[j].id =>
             AlikeField(Fields(t.name)[i], v[i], Fields(u.name)[j], x[j])
  PROVE  AlikeType(t, v, u, x)
BY Zenon DEF AlikeType, AlikeField, Agree

LEMMA AlikeElems ==
  ASSUME NEW t, t.k \in {"seq", "array"}, NEW v, NEW x, DOMAIN v = DOMAIN x,
         \A i \in DOMAIN v : Alike(t.of, v[i], x[i])
  PROVE  AlikeType(t, v, t, x)
<1>1. t.k # "struct"
  OBVIOUS
<1> QED
  BY <1>1, Zenon DEF AlikeType, Alike, Agree

LEMMA AlikeTypedef ==
  ASSUME NEW t, t.k = "typedef", NEW v, NEW x, Alike(t.of, v, x)
  PROVE  AlikeType(t, v, t, x)
<1>1. t.k # "struct" /\ t.k \notin {"seq", "array"}
  OBVIOUS
<1> QED
  BY <1>1, Zenon DEF AlikeType, Alike, Agree

LEMMA AlikeOthers ==
  ASSUME NEW t, t.k \in {"prim", "string", "union"}, NEW v
  PROVE  AlikeType(t, v, t, v)
<1>1. t.k # "struct" /\ t.k \notin {"seq", "array"} /\ t.k # "typedef"
  OBVIOUS
<1> QED
  BY <1>1, Zenon DEF AlikeType, Agree

\* What reading a struct makes of it: as good as what was sent, and in a fresh
\* one of the same type just that.
LEMMA StructAlike ==
  ASSUME NEW t, t.k = "struct", NEW u, NEW v, NEW old, NEW x,
         MembersRead(t.name, v, u.name, old, x)
  PROVE  AlikeType(t, v, u, x)
<1>1. ASSUME NEW i \in Places(Fields(t.name)), NEW j \in Places(Fields(u.name)),
             Fields(t.name)[i].id = Fields(u.name)[j].id
      PROVE  AlikeField(Fields(t.name)[i], v[i], Fields(u.name)[j], x[j])
  BY <1>1 DEF MembersRead, SameID, MemberRead
<1> QED
  BY <1>1, AlikeStruct

ZeroStruct(S) == [i \in Places(Fields(S)) |-> ZeroField(Fields(S)[i])]
LEMMA FreshStruct ==
  ASSUME NEW S, IsStruct(S), NEW v, Holds(v, Len(Fields(S))), NEW x,
         MembersRead(S, v, S, ZeroStruct(S), x)
  PROVE  x = v
<1> DEFINE n == Len(Fields(S))
           old == ZeroStruct(S)
<1>1. Places(Fields(S)) = 1 .. n
  BY DEF Places
<1>2. IsTuple(old, n) /\ \A j \in 1 .. n : old[j] = ZeroField(Fields(S)[j])
  BY <1>1 DEF IsTuple, ZeroStruct
<1> HIDE DEF n, old
<1>3. IsTuple(x, n) /\ IsTuple(v, n)
  BY <1>2 DEF MembersRead, Holds, IsTuple, n, old
<1>4. ASSUME NEW j \in 1 .. n
      PROVE  x[j] = v[j]
  <2>1. MemberRead(Fields(S)[j], v[j], Fields(S)[j], old[j], x[j])
    BY <1>1 DEF MembersRead, SameID, old
  <2> QED
    BY <1>2, <2>1 DEF MemberRead
<1> QED
  BY <1>3, <1>4 DEF IsTuple

LEMMA AssignShown ==
  ASSUME NEW e, NEW f, NEW d, NEW q, Shown(e, f, d, q), NEW v, q.ok => q.v = v, NEW old
  PROVE  Shown(e, f, d, Assign(q, old)) /\ (Assign(q, old).ok => Assign(q, old).v = v)
<1>1. CASE q.ok
  BY <1>1 DEF Assign
<1>2. CASE ~q.ok
  <2> DEFINE r == Assign(q, old)
  <2>1. r = Into(q, old)
    BY <1>2 DEF Assign
  <2> HIDE DEF r
  <2>2. r.ok = q.ok /\ r.d = q.d
    BY <2>1 DEF Into
  <2> QED
    BY <1>2, <2>2 DEF Shown, r
<1> QED
  BY <1>1, <1>2

LEMMA SeqRead ==
  ASSUME NEW t, PartFaithful(t), NEW v, Len(v) \in Uint32, Holds(v, Len(v)),
         \A i \in 1 .. Len(v) : SendablePart(t, v[i]), NEW e, Full(e),
         EncodeElems(t, v, WriteScalar(e, Word(Len(v)))).pos \in Uint32,
         NEW d, Shows(e, EncodeElems(t, v, WriteScalar(e, Word(Len(v)))), d), NEW old
  PROVE  LET r == DecodeSeq(t, d, old)
         IN  /\ Shown(e, EncodeElems(t, v, WriteScalar(e, Word(Len(v)))), d, r)
             /\ r.ok => r.v = v
<1> DEFINE n == Len(v)
           w == Word(n)
           l == WriteScalar(e, w)
           g == EncodeElems(t, v, l)
           h == ReadScalar(d, 4)
           r == DecodeSeq(t, d, old)
<1>1. n \in Nat /\ n \in Uint32 /\ PartWrites(t) /\ \A i \in 1 .. n : SendablePart(t, v[i])
  BY DEF Uint32, PartFaithful
<1>2. w \in Seq(Byte) /\ Len(w) = 4 /\ Num(w) = n /\ Full(l) /\ Extends(e, l)
  BY WordWritten
<1>3. Extends(l, g)
  <2> HIDE DEF l
  <2> QED
    BY <1>1, <1>2, ElemsExtend
<1>0. g.pos \in Uint32 /\ Shows(e, g, d)
  OBVIOUS
<1> HIDE DEF g, w, n
<1>4. Shows(e, l, d)
  BY <1>0, <1>2, <1>3, ShowsSplits
<1>5. Shown(e, l, d, h) /\ (h.ok => h.v = w)
  <2>1. Shown(e, WriteScalar(e, w), d, ReadScalar(d, Len(w)))
        /\ (ReadScalar(d, Len(w)).ok => ReadScalar(d, Len(w)).v = w)
    <3>1. Len(w) \in {1, 2, 4, 8}
      BY <1>2
    <3> QED
      BY <1>2, <1>4, <3>1, ScalarShown
  <2> QED
    BY <1>2, <2>1
<1> HIDE DEF l, h
<1>6. CASE h.ok
  <2>1. Shows(l, g, h.d)
    BY <1>0, <1>2, <1>3, <1>5, <1>6, ThenShown
  <2>2. r = DecodeElems(t, n, Got(h.d, <<>>))
    BY <1>2, <1>5, <1>6 DEF DecodeSeq, h
  <2>3. g = EncodeElems(t, v, l)
    BY DEF g, l, w, n
  <2> HIDE DEF r
  <2>4. Shown(l, g, h.d, r) /\ (r.ok => r.v = v)
    BY <1>0, <1>1, <1>2, <2>1, <2>2, <2>3, ElemsRead DEF n
  <2>5. r.ok \in BOOLEAN
    BY <2>4 DEF Shown
  <2>6. Shown(e, g, d, r)
    BY <1>0, <1>2, <1>3, <1>5, <1>6, <2>4, <2>5, ThenShown
  <2> QED
    BY <2>4, <2>6 DEF r, g, l, w, n
<1>7. CASE ~h.ok
  <2>1. r = Into(h, old)
    BY <1>7 DEF DecodeSeq, h
  <2> HIDE DEF r
  <2>2. r.ok = h.ok /\ h.ok \in BOOLEAN
    BY <1>5, <2>1 DEF Into, Shown
  <2>3. r.ok \in BOOLEAN /\ ~r.ok
    BY <1>7, <2>2
  <2>4. Shown(e, g, d, r)
    BY <1>0, <1>2, <1>3, <1>5, <1>7, <2>3, ThenShown
  <2> QED
    BY <2>3, <2>4 DEF r, g, l, w, n
<1> QED
  BY <1>6, <1>7

LEMMA ZeroIsZeroStruct ==
  ASSUME NEW t, t.k = "struct"
  PROVE  Zero(t) = ZeroStruct(t.name)
BY DEF Zero, ZeroStruct, ZeroField, Places

\* A value of a type is read back as it was into a fresh destination, and as
\* one that is as good into any other.
LEMMA TypeReads ==
  ASSUME PartsFaithful, NEW t, IsType(t), NEW v, IsValue(t, v), Encodable(t, v),
         NEW e, Full(e), EncodeType(t, v, e).pos \in Uint32,
         NEW d, Shows(e, EncodeType(t, v, e), d), NEW old, Shaped(t, old)
  PROVE  LET r == DecodeType(t, d, old)
         IN  /\ Shown(e, EncodeType(t, v, e), d, r)
             /\ r.ok => /\ old = Zero(t) => r.v = v
                        /\ AlikeType(t, v, t, r.v)
<1> DEFINE r == DecodeType(t, d, old)
           f == EncodeType(t, v, e)
<1>1. CASE t.k \in {"prim", "string", "union"}
  <2>1. Shown(e, f, d, r) /\ (r.ok => r.v = v)
    <3>1. CASE t.k = "prim"
      <4>1. v \in Seq(Byte) /\ Len(v) = t.n /\ Len(v) \in {1, 2, 4, 8}
        BY <3>1 DEF IsType, IsValue
      <4>2. f = WriteScalar(e, v) /\ r = Assign(ReadScalar(d, Len(v)), old)
        BY <3>1, <4>1 DEF EncodeType, DecodeType
      <4> DEFINE q == ReadScalar(d, Len(v))
      <4>3. Shown(e, WriteScalar(e, v), d, q) /\ (q.ok => q.v = v)
        <5>1. Shows(e, WriteScalar(e, v), d)
          BY <4>2
        <5> QED
          BY <4>1, <5>1, ScalarShown
      <4> HIDE DEF q
      <4>4. Shown(e, WriteScalar(e, v), d, Assign(q, old))
            /\ (Assign(q, old).ok => Assign(q, old).v = v)
        BY <4>3, AssignShown
      <4> QED
        BY <4>2, <4>4 DEF q
    <3>2. CASE t.k = "string"
      <4>1. v \in Seq(Byte) /\ Len(v) + 1 \in Uint32
        BY <3>2 DEF IsValue
      <4>2. f = WriteString(e, v) /\ r = Assign(ReadString(d), old)
        BY <3>2 DEF EncodeType, DecodeType
      <4> DEFINE q == ReadString(d)
      <4>3. Shown(e, WriteString(e, v), d, q) /\ (q.ok => q.v = v)
        <5>1. Shows(e, WriteString(e, v), d)
          BY <4>2
        <5> QED
          BY <4>1, <5>1, StringShown
      <4> HIDE DEF q
      <4>4. Shown(e, WriteString(e, v), d, Assign(q, old))
            /\ (Assign(q, old).ok => Assign(q, old).v = v)
        BY <4>3, AssignShown
      <4> QED
        BY <4>2, <4>4 DEF q
    <3>3. CASE t.k = "union"
      <4> DEFINE U == t.name
      <4>1. IsUnion(U) /\ IsUnionValue(U, v) /\ f = EncodeUnion(U, v, e)
            /\ r = DecodeUnion(U, d, old)
        BY <3>3 DEF IsType, IsValue, EncodeType, DecodeType
      <4>2. Encodable([k |-> "union", name |-> U], v)
        BY <3>3 DEF Encodable
      <4>3. EncodeUnion(U, v, e).pos \in Uint32 /\ Shows(e, EncodeUnion(U, v, e), d)
        BY <4>1
      <4> HIDE DEF U, r, f
      <4> QED
        BY <4>1, <4>2, <4>3, UnionRead
    <3> QED
      BY <1>1, <3>1, <3>2, <3>3
  <2> HIDE DEF r, f
  <2>2. r.ok => AlikeType(t, v, t, r.v)
    BY <1>1, <2>1, AlikeOthers
  <2> QED
    BY <2>1, <2>2 DEF r, f
<1>2. CASE t.k = "seq"
  <2>1. /\ PartFaithful(t.of) /\ Len(v) \in Uint32 /\ Holds(v, Len(v))
        /\ \A i \in 1 .. Len(v) : SendablePart(t.of, v[i])
    BY <1>2 DEF IsType, IsValue, Encodable, SendablePart, Places, PartsFaithful
  <2> DEFINE g == EncodeElems(t.of, v, WriteScalar(e, Word(Len(v))))
  <2>2. f = g /\ r = DecodeSeq(t.of, d, old)
    BY <1>2 DEF EncodeType, DecodeType
  <2>3. g.pos \in Uint32 /\ Shows(e, g, d)
    BY <2>2
  <2>4. Shown(e, g, d, DecodeSeq(t.of, d, old))
        /\ (DecodeSeq(t.of, d, old).ok => DecodeSeq(t.of, d, old).v = v)
    BY <2>1, <2>3, SeqRead
  <2> HIDE DEF r, f, g
  <2>5. ASSUME r.ok
        PROVE  r.v = v /\ AlikeType(t, v, t, r.v)
    <3>1. r.v = v
      BY <2>2, <2>4, <2>5
    <3>2. \A i \in DOMAIN v : Alike(t.of, v[i], v[i])
      BY <2>1 DEF SendablePart, PartFaithful, PartAgrees, Holds
    <3>3. AlikeType(t, v, t, v)
      BY <1>2, <3>2, AlikeElems
    <3> QED
      BY <3>1, <3>3
  <2> QED
    BY <2>2, <2>4, <2>5 DEF r, f
<1>3. CASE t.k = "array"
  <2>1. t.len \in Nat /\ Holds(v, t.len)
    BY <1>3 DEF IsType, IsValue
  <2>2. Len(v) = t.len
    BY <2>1 DEF Holds
  <2>3. /\ PartFaithful(t.of) /\ Len(v) \in Nat /\ Holds(v, Len(v))
        /\ \A i \in 1 .. Len(v) : SendablePart(t.of, v[i])
        /\ DOMAIN old = 1 .. Len(v) /\ \A i \in 1 .. Len(v) : ShapedPart(t.of, old[i])
    BY <1>3, <2>1, <2>2 DEF IsType, IsValue, Encodable, SendablePart, PartsFaithful, Shaped
  <2>4. /\ f = EncodeElems(t.of, v, e) /\ r = DecodeArray(t.of, Len(v), d, old)
        /\ Zero(t) = [i \in 1 .. Len(v) |-> ZeroPart(t.of)]
    BY <1>3, <2>2 DEF EncodeType, DecodeType, Zero
  <2>5. EncodeElems(t.of, v, e).pos \in Uint32 /\ Shows(e, EncodeElems(t.of, v, e), d)
    BY <2>4
  <2> HIDE DEF r, f
  <2>6. /\ Shown(e, f, d, r)
        /\ r.ok => /\ DOMAIN r.v = 1 .. Len(v)
                   /\ \A i \in 1 .. Len(v) : Alike(t.of, v[i], r.v[i])
                   /\ old = [i \in 1 .. Len(v) |-> ZeroPart(t.of)] => r.v = v
    BY <2>3, <2>4, <2>5, ArrayRead
  <2>7. ASSUME r.ok
        PROVE  AlikeType(t, v, t, r.v)
    <3>1. DOMAIN v = 1 .. Len(v)
      BY <2>3 DEF Holds
    <3> QED
      BY <1>3, <2>6, <2>7, <3>1, AlikeElems
  <2> QED
    BY <2>4, <2>6, <2>7 DEF r, f
<1>4. CASE t.k = "struct"
  <2> DEFINE S == t.name
  <2>1. /\ IsStruct(S) /\ Holds(v, Len(Fields(S))) /\ f = EncodeStruct(S, v, e)
        /\ \A i \in Places(Fields(S)) : SendableField(Fields(S)[i], v[i])
        /\ r = DecodeStruct(S, d, old)
    BY <1>4 DEF IsType, IsValue, Encodable, SendableField, Places, EncodeType, DecodeType
  <2>2. ShapedStruct(S, old) /\ Zero(t) = ZeroStruct(S)
    BY <1>4, ZeroIsZeroStruct DEF Shaped, ShapedStruct, ShapedField
  <2>3. Understands(S, S)
    BY <2>1, MatchesItself DEF Understands
  <2>4. EncodeStruct(S, v, e).pos \in Uint32 /\ Shows(e, EncodeStruct(S, v, e), d)
    BY <2>1
  <2> HIDE DEF r, f
  <2>5. Shown(e, f, d, r) /\ (r.ok => MembersRead(S, v, S, old, r.v))
    BY <2>1, <2>2, <2>3, <2>4, StructRead
  <2>6. r.ok => AlikeType(t, v, t, r.v)
    BY <1>4, <2>5, StructAlike
  <2>7. r.ok /\ old = Zero(t) => r.v = v
    BY <2>1, <2>2, <2>5, FreshStruct
  <2> QED
    BY <2>5, <2>6, <2>7 DEF r, f
<1>5. CASE t.k = "typedef"
  <2>1. /\ PartReads(t.of) /\ SendablePart(t.of, v) /\ f = EncodePart(t.of, v, e)
        /\ ShapedPart(t.of, old) /\ r = DecodePart(t.of, d, old) /\ Zero(t) = ZeroPart(t.of)
    BY <1>5 DEF IsType, IsValue, Encodable, EncodeType, DecodeType, SendablePart, PartsFaithful,
                PartFaithful, Shaped, Zero
  <2>2. EncodePart(t.of, v, e).pos \in Uint32 /\ Shows(e, EncodePart(t.of, v, e), d)
    BY <2>1
  <2> HIDE DEF r, f
  <2>3. Shown(e, f, d, r) /\ (r.ok => (old = Zero(t) => r.v = v) /\ Alike(t.of, v, r.v))
    BY <2>1, <2>2, PartRead
  <2>4. r.ok => AlikeType(t, v, t, r.v)
    BY <1>5, <2>3, AlikeTypedef
  <2> QED
    BY <2>3, <2>4 DEF r, f
<1> QED
  BY <1>1, <1>2, <1>3, <1>4, <1>5 DEF IsType

-----------------------------------------------------------------------------
(***************************************************************************)
(* The code of a type, given that of the types it is made of               *)
(***************************************************************************)
SameField(f, v) == AgreeMember(FALSE, f, v, f, v)

LEMMA MemberIsSame ==
  ASSUME NEW f, PartAgrees(f.type), NEW v, IsFieldValue(f, v)
  PROVE  SameField(f, v) /\ AlikeField(f, v, f, v)
<1>1. CASE ~f.opt
  <2>1. SamePart(f.type, v, v) /\ Alike(f.type, v, v)
    BY <1>1 DEF PartAgrees, IsFieldValue
  <2> QED
    BY <1>1, <2>1, Zenon DEF SamePart, Alike, SameField, AlikeField, AgreeMember
<1>2. CASE f.opt /\ v = <<>>
  BY <1>2, Zenon DEF SameField, AlikeField, AgreeMember
<1>3. CASE f.opt /\ v # <<>>
  <2>1. SamePart(f.type, v[1], v[1]) /\ Alike(f.type, v[1], v[1])
    BY <1>3 DEF PartAgrees, IsFieldValue
  <2> QED
    BY <1>3, <2>1, Zenon DEF SamePart, Alike, SameField, AlikeField, AgreeMember
<1> QED
  BY <1>1, <1>2, <1>3

LEMMA SameStruct ==
  ASSUME NEW t, t.k = "struct", NEW v,
         \A i, j \in Places(Fields(t.name)) :
           Fields(t.name)[i].id = Fields(t.name)[j].id => i = j,
         \A i \in Places(Fields(t.name)) : SameField(Fields(t.name)[i], v[i])
  PROVE  SameType(t, v, t, v)
BY Zenon DEF SameType, SameField, Agree

LEMMA SameElems ==
  ASSUME NEW t, t.k \in {"seq", "array"}, NEW v, \A i \in DOMAIN v : SamePart(t.of, v[i], v[i])
  PROVE  SameType(t, v, t, v)
<1>1. t.k # "struct"
  OBVIOUS
<1> QED
  BY <1>1, Zenon DEF SameType, SamePart, Agree

LEMMA SameTypedef ==
  ASSUME NEW t, t.k = "typedef", NEW v, SamePart(t.of, v, v)
  PROVE  SameType(t, v, t, v)
<1>1. t.k # "struct" /\ t.k \notin {"seq", "array"}
  OBVIOUS
<1> QED
  BY <1>1, Zenon DEF SameType, SamePart, Agree

LEMMA SameOthers ==
  ASSUME NEW t, t.k \in {"prim", "string", "union"}, NEW v
  PROVE  SameType(t, v, t, v)
<1>1. t.k # "struct" /\ t.k \notin {"seq", "array"} /\ t.k # "typedef"
  OBVIOUS
<1> QED
  BY <1>1, Zenon DEF SameType, Agree

LEMMA TypeAgrees ==
  ASSUME PartsFaithful, NEW t, IsType(t), NEW v, IsValue(t, v)
  PROVE  SameType(t, v, t, v) /\ AlikeType(t, v, t, v)
<1>1. ASSUME NEW u, IsTypePart(u), NEW x, IsValuePart(u, x)
      PROVE  SamePart(u, x, x) /\ Alike(u, x, x)
  BY <1>1 DEF PartsFaithful, PartFaithful, PartAgrees
<1>2. CASE t.k \in {"prim", "string", "union"}
  BY <1>2, SameOthers, AlikeOthers
<1>3. CASE t.k \in {"seq", "array"}
  <2>1. \A i \in DOMAIN v : SamePart(t.of, v[i], v[i]) /\ Alike(t.of, v[i], v[i])
    BY <1>1, <1>3 DEF IsType, IsValue, Holds, Places
  <2> QED
    BY <1>3, <2>1, SameElems, AlikeElems
<1>4. CASE t.k = "struct"
  <2> DEFINE S == t.name
  <2>1. IsStruct(S) /\ \A i \in Places(Fields(S)) : IsFieldValue(Fields(S)[i], v[i])
    BY <1>4 DEF IsType, IsValue
  <2>2. \A i, j \in Places(Fields(S)) : Fields(S)[i].id = Fields(S)[j].id => i = j
    BY <2>1 DEF IsStruct
  <2>3. ASSUME NEW i \in Places(Fields(S))
        PROVE  SameField(Fields(S)[i], v[i])
          /\ AlikeField(Fields(S)[i], v[i], Fields(S)[i], v[i])
    <3>1. PartAgrees(Fields(S)[i].type) /\ IsFieldValue(Fields(S)[i], v[i])
      BY <2>1 DEF IsStruct, IsField, PartsFaithful, PartFaithful
    <3> QED
      BY <3>1, MemberIsSame
  <2>4. SameType(t, v, t, v)
    BY <1>4, <2>2, <2>3, SameStruct
  <2>5. ASSUME NEW i \in Places(Fields(S)), NEW j \in Places(Fields(S)),
               Fields(S)[i].id = Fields(S)[j].id
        PROVE  AlikeField(Fields(S)[i], v[i], Fields(S)[j], v[j])
    BY <2>2, <2>3, <2>5
  <2>6. AlikeType(t, v, t, v)
    BY <1>4, <2>5, AlikeStruct
  <2> QED
    BY <2>4, <2>6
<1>5. CASE t.k = "typedef"
  BY <1>1, <1>5, SameTypedef, AlikeTypedef DEF IsType, IsValue
<1> QED
  BY <1>2, <1>3, <1>4, <1>5 DEF IsType

LEMMA TypeIsPlain ==
  ASSUME NEW t, IsType(t), IsFixedPrimitive(t)
  PROVE  /\ t.n \in {1, 2, 4, 8}
         /\ \A v : IsValue(t, v) => v \in Seq(Byte) /\ Len(v) = t.n
         /\ \A v, e : EncodeType(t, v, e) = WriteScalar(e, v)
BY DEF IsFixedPrimitive, IsType, IsValue, EncodeType

\* The facts a type's code relies on, of the code of a type itself.
\* The code generated for a type is as good as that of the types it is made of:
\* what EncodeCDR appends DecodeCDR reads, all of it and no more, wherever in
\* the data it stands, and a destination it may be decoded into stays one
\* whatever the data.
THEOREM LevelFaithful ==
  ASSUME PartsFaithful
  PROVE  \A t : IsType(t) => Faithful(t)
<1> SUFFICES ASSUME NEW t, IsType(t)
             PROVE  Faithful(t)
  OBVIOUS
<1>1. Shaped(t, Zero(t)) /\ KeepsShape(t)
  BY TypeKeepsShape DEF KeepsShape
<1>2. Writes(t)
  BY TypeWrites DEF Writes, Sendable
<1>3. ReadBack(t)
  <2> SUFFICES ASSUME NEW v, NEW e, NEW d, NEW old, Sendable(t, v), Full(e),
                      EncodeType(t, v, e).pos \in Uint32,
                      Shows(e, EncodeType(t, v, e), d), Shaped(t, old)
               PROVE  LET r == DecodeType(t, d, old)
                      IN  /\ Shown(e, EncodeType(t, v, e), d, r)
                          /\ r.ok => /\ old = Zero(t) => r.v = v
                                     /\ AlikeType(t, v, t, r.v)
    BY DEF ReadBack
  <2> QED
    BY TypeReads DEF Sendable
<1>4. SelfAgrees(t)
  BY TypeAgrees DEF SelfAgrees
<1>5. IsPlain(t)
  BY TypeIsPlain DEF IsPlain
<1> QED
  BY <1>1, <1>2, <1>3, <1>4, <1>5 DEF Faithful

-----------------------------------------------------------------------------
(***************************************************************************)
(* One level up: types made of those of TypeCodec                          *)
(***************************************************************************)
Up == INSTANCE TypeContract WITH
  EncodePart <- EncodeType, DecodePart <- DecodeType, ZeroPart <- Zero,
  EncodablePart <- Encodable, IsTypePart <- IsType, IsValuePart <- IsValue,
  ShapedPart <- Shaped, AgreePart <- Agree

\* The code of both levels uses the same encoders and decoders.
LEMMA UpCoders ==
  /\ \A e : Up!Full(e) <=> Full(e)
  /\ \A e, r : Up!Extends(e, r) <=> Extends(e, r)
  /\ \A d : Up!Within(d) <=> Within(d)
  /\ \A d, r : Up!Follows(d, r) <=> Follows(d, r)
  /\ \A e, f, d : Up!Shows(e, f, d) <=> Shows(e, f, d)
  /\ \A e, f, d, r : Up!Shown(e, f, d, r) <=> Shown(e, f, d, r)
  /\ \A e, w : Up!WriteScalar(e, w) = WriteScalar(e, w)
  /\ Up!Byte = Byte /\ Up!Uint32 = Uint32
<1>1. Up!Byte = Byte /\ Up!Uint32 = Uint32 /\ Up!ByteOrders = ByteOrders
  BY DEF Up!Byte, Byte, Up!Uint32, Uint32, Up!ByteOrders, ByteOrders, Up!BE, BE, Up!LE, LE
<1>2. Up!Encoders = Encoders /\ Up!Decoders = Decoders
  BY <1>1 DEF Up!Encoders, Encoders, Up!Decoders, Decoders
<1>3. \A e : Up!Full(e) <=> Full(e)
  BY <1>2 DEF Up!Full, Full
<1>4. \A e, r : Up!Extends(e, r) <=> Extends(e, r)
  BY <1>2 DEF Up!Extends, Extends
<1>5. \A pos, n : Up!Pad(pos, n) = Pad(pos, n)
  BY Zenon DEF Up!Pad, Pad, Up!Cap, Cap
<1>6. \A data : Up!Bound(data) = Bound(data)
  BY <1>5 DEF Up!Bound, Bound
<1>7. \A d : Up!Within(d) <=> Within(d)
  BY <1>2, <1>6 DEF Up!Within, Within
<1>8. \A d, r : Up!Follows(d, r) <=> Follows(d, r)
  BY <1>7 DEF Up!Follows, Follows
<1>9. \A e, f, d : Up!End(e, f, d) = End(e, f, d)
  BY Zenon DEF Up!End, End
<1>10. \A e, f, d : Up!Shows(e, f, d) <=> Shows(e, f, d)
  BY <1>2, Zenon DEF Up!Shows, Shows
<1>11. \A d, p : Up!At(d, p) = At(d, p)
  BY Zenon DEF Up!At, At
<1>12. \A e, f, d, r : Up!Shown(e, f, d, r) <=> Shown(e, f, d, r)
  BY <1>9, <1>11, Zenon DEF Up!Shown, Shown
<1>13. \A e, w : Up!WriteScalar(e, w) = WriteScalar(e, w)
  <2>1. \A n : Up!Zeros(n) = Zeros(n)
    BY Zenon DEF Up!Zeros, Zeros
  <2>2. \A e, b, n : Up!Advance(e, b, n) = Advance(e, b, n)
    BY Zenon DEF Up!Advance, Advance
  <2>3. \A e, n : Up!EncAlign(e, n) = EncAlign(e, n)
    BY <1>5, <2>1, <2>2, Zenon DEF Up!EncAlign, EncAlign
  <2>4. \A o, w : Up!Put(o, w) = Put(o, w)
    BY Zenon DEF Up!Put, Put, Up!Swap, Swap, Up!BE, BE
  <2>5. \A e, b : Up!WriteRaw(e, b) = WriteRaw(e, b)
    BY <2>2, Zenon DEF Up!WriteRaw, WriteRaw
  <2> QED
    BY <2>3, <2>4, <2>5, Zenon DEF Up!WriteScalar, WriteScalar
<1> QED
  BY <1>1, <1>3, <1>4, <1>7, <1>8, <1>10, <1>12, <1>13, Zenon

\* With types whose code keeps its promises, the code of types made of them
\* has all that it relies on.
THEOREM LevelUp ==
  ASSUME PartsFaithful
  PROVE  Up!PartsFaithful
<1> SUFFICES ASSUME NEW t, IsType(t)
             PROVE  Up!PartFaithful(t)
  BY DEF Up!PartsFaithful
<1>1. Faithful(t)
  BY LevelFaithful
<1>2. Up!PartZeroes(t)
  BY <1>1 DEF Faithful, Up!PartZeroes
<1>3. Up!PartKeepsShape(t)
  BY <1>1, UpCoders, Zenon DEF Faithful, KeepsShape, Up!PartKeepsShape
<1>4. \A v : Up!SendablePart(t, v) <=> Sendable(t, v)
  BY DEF Up!SendablePart, Sendable
<1>5. Up!PartWrites(t)
  BY <1>1, <1>4, UpCoders, Zenon DEF Faithful, Writes, Up!PartWrites
<1>6. \A v, x : /\ Up!Alike(t, v, x) <=> AlikeType(t, v, t, x)
                /\ Up!SamePart(t, v, x) <=> SameType(t, v, t, x)
  BY Zenon DEF Up!Alike, AlikeType, Up!SamePart, SameType
<1>7. Up!PartReads(t)
  <2> SUFFICES ASSUME NEW v, NEW e, NEW d, NEW old, Up!SendablePart(t, v), Up!Full(e),
                      EncodeType(t, v, e).pos \in Up!Uint32,
                      Up!Shows(e, EncodeType(t, v, e), d), Shaped(t, old)
               PROVE  LET r == DecodeType(t, d, old)
                      IN  /\ Up!Shown(e, EncodeType(t, v, e), d, r)
                          /\ r.ok => /\ old = Zero(t) => r.v = v
                                     /\ Up!Alike(t, v, r.v)
    BY DEF Up!PartReads
  <2> DEFINE r == DecodeType(t, d, old)
  <2>1. /\ Sendable(t, v) /\ Full(e) /\ EncodeType(t, v, e).pos \in Uint32
        /\ Shows(e, EncodeType(t, v, e), d)
    BY <1>4, UpCoders, Zenon
  <2>2. ReadBack(t)
    BY <1>1 DEF Faithful
  <2>3. /\ Shown(e, EncodeType(t, v, e), d, r)
        /\ r.ok => /\ old = Zero(t) => r.v = v
                   /\ AlikeType(t, v, t, r.v)
    BY <2>1, <2>2, Zenon DEF ReadBack
  <2> QED
    BY <1>6, <2>3, UpCoders, Zenon
<1>8. Up!PartAgrees(t)
  BY <1>1, <1>6, Zenon DEF Faithful, SelfAgrees, Up!PartAgrees
<1>9. Up!PartIsPlain(t)
  <2>1. Up!IsFixedPrimitive(t) <=> IsFixedPrimitive(t)
    BY DEF Up!IsFixedPrimitive, IsFixedPrimitive
  <2> QED
    BY <1>1, <2>1, UpCoders, Zenon DEF Faithful, IsPlain, Up!PartIsPlain
<1> QED
  BY <1>2, <1>3, <1>5, <1>7, <1>8, <1>9 DEF Up!PartFaithful

-----------------------------------------------------------------------------
(***************************************************************************)
(* Samples                                                                 *)
(***************************************************************************)
\* A reader that knows no member gets from one header to the next.
LEMMA PastMemberShown ==
  ASSUME NEW u, IsField(u), PartWrites(u.type), PartIsPlain(u.type),
         NEW w, SendableField(u, w), ~(u.opt /\ w = <<>>),
         NEW e, Full(e), EncodeMember(u, w, e).pos \in Uint32,
         NEW q, q.ok, Shows(e, EncodeMember(u, w, e), q.d), NEW end \in Int, q.d.pos < end
  PROVE  Shown(e, EncodeMember(u, w, e), q.d, PastMember(end, q))
<1> DEFINE x == IF u.opt THEN w[1] ELSE w
           s == Sub(u, x, e)
           H == Header(u, x, e)
           f == EncodeMember(u, w, e)
           h == ReadEMHeader(q.d)
           k == Skip(h.d, Len(s.buf))
           r == PastMember(end, q)
<1>1. /\ Extends(e, H) /\ Extends(H, f) /\ f = WriteRaw(H, s.buf) /\ s.buf \in Seq(Byte)
      /\ Full(H) /\ Shown(e, H, q.d, h)
      /\ h.ok => MemberSize(h.v[2], h.v[4]) = Len(s.buf)
  BY MemberHeaderShown
<1>2. r = PastHeader(h)
  <2>1. q.d.pos \in Nat
    BY DEF Shows, Decoders
  <2>2. ~(q.d.pos >= end)
    BY <2>1
  <2> QED
    BY <2>2 DEF PastMember
<1>3. Shows(e, f, q.d)
  OBVIOUS
<1> HIDE DEF s, H, f, h, r
<1>4. CASE h.ok
  <2>1. r = k
    BY <1>1, <1>2, <1>4 DEF PastHeader
  <2>2. Shows(H, f, h.d)
    BY <1>1, <1>3, <1>4, ThenShown
  <2>3. Shown(H, f, h.d, k)
    BY <1>1, <2>2, RawShown
  <2> HIDE DEF k
  <2>4. r.ok \in BOOLEAN
    BY <2>1, <2>3 DEF Shown
  <2>5. Shown(e, f, q.d, r)
    BY <1>1, <1>3, <1>4, <2>1, <2>3, <2>4, ThenShown
  <2> QED
    BY <2>5 DEF r, f
<1>5. CASE ~h.ok
  <2>1. r = h
    BY <1>2, <1>5 DEF PastHeader
  <2>2. r.ok \in BOOLEAN
    BY <1>1, <2>1 DEF Shown
  <2>3. Shown(e, f, q.d, r)
    BY <1>1, <1>3, <1>5, <2>1, <2>2, ThenShown
  <2> QED
    BY <2>3 DEF r, f
<1> QED
  BY <1>4, <1>5

\* Members that are all there are found from their headers alone.
LEMMA MembersWalked ==
  ASSUME PartsFaithful, NEW S, IsStruct(S),
         NEW v, \A i \in Places(Fields(S)) : SendableField(Fields(S)[i], v[i]),
         NEW e, Full(e), EncodeMembers(S, v, e).pos \in Uint32,
         NEW d, Within(d), d.pos >= 4, Shows(e, EncodeMembers(S, v, e), d),
         End(e, EncodeMembers(S, v, e), d) <= Len(d.data)
  PROVE  WalkHeaders(d, End(e, EncodeMembers(S, v, e), d))
<1> DEFINE n == Len(Fields(S))
           F(i) == Fields(S)[i]
           end == End(e, EncodeMembers(S, v, e), d)
           N == Rounds(d)
           Q == (0 .. n) \X (0 .. N)
<1>1. /\ n \in Nat /\ N \in Nat
      /\ \A i \in 1 .. n : /\ IsField(F(i)) /\ PartWrites(F(i).type) /\ PartIsPlain(F(i).type)
                           /\ SendableField(F(i), v[i])
  BY RoundsType DEF IsStruct, Places, PartsFaithful, PartFaithful, IsField
<1>2. PICK f : MembersBy(S, v, e, n, f)
  BY MembersWritten
<1>3. PICK g : /\ g[0] = Got(d, <<>>)
               /\ WalkHeaders(d, end) <=> g[N].ok /\ g[N].d.pos = end
               /\ \A k \in 1 .. N : g[k] = PastMember(end, g[k - 1])
  <2> HIDE DEF end
  <2> QED
    BY WalkRun
<1>4. /\ f[0] = e /\ EncodeMembers(S, v, e) = f[n]
      /\ \A i \in 1 .. n : f[i] = EncodeMember(F(i), v[i], f[i - 1])
      /\ \A i \in 0 .. n : Full(f[i])
      /\ \A j \in 0 .. n : \A i \in 0 .. j : Extends(f[i], f[j])
  BY <1>2 DEF MembersBy
<1>5. end = End(f[0], f[n], d) /\ end \in Int
  <2>1. f[0].pos \in Nat /\ f[n].pos \in Nat /\ d.pos \in Nat
    BY <1>1, <1>4 DEF Full, Encoders, Within, Decoders
  <2> QED
    BY <1>4, <2>1 DEF End
<1>6. ASSUME NEW i \in 1 .. n
      PROVE  /\ Full(f[i - 1]) /\ f[i].pos \in Uint32 /\ f[i].pos \in Nat
             /\ F(i).opt /\ v[i] = <<>> => f[i] = f[i - 1]
             /\ ~(F(i).opt /\ v[i] = <<>>) => f[i - 1].pos + 4 <= f[i].pos
  BY <1>2, MembersAdvance DEF Uint32
<1> HIDE DEF end, N, n, F
<1>7. ASSUME NEW i \in 1 .. n, NEW k \in 1 .. N, f[i] # f[i - 1],
             g[k - 1].ok, g[k - 1].d.pos < end, Shows(f[i - 1], f[i], g[k - 1].d)
      PROVE  Shown(f[i - 1], f[i], g[k - 1].d, g[k])
  <2> DEFINE q == g[k - 1]
             u == F(i)
             w == v[i]
             a == f[i - 1]
  <2>1. /\ IsField(u) /\ PartWrites(u.type) /\ PartIsPlain(u.type) /\ SendableField(u, w)
        /\ ~(u.opt /\ w = <<>>) /\ Full(a) /\ f[i] = EncodeMember(u, w, a)
        /\ f[i].pos \in Uint32 /\ q.ok /\ q.d.pos < end /\ Shows(a, f[i], q.d)
        /\ g[k] = PastMember(end, q)
    BY <1>1, <1>3, <1>4, <1>6, <1>7
  <2> HIDE DEF q, u, w, a
  <2>2. EncodeMember(u, w, a).pos \in Uint32 /\ Shows(a, EncodeMember(u, w, a), q.d)
    BY <2>1
  <2>3. Shown(a, EncodeMember(u, w, a), q.d, PastMember(end, q))
    BY <1>5, <2>1, <2>2, PastMemberShown
  <2> QED
    BY <2>1, <2>3 DEF a, q
<1>8. g[0].ok = TRUE /\ g[0].d = d
  BY <1>3 DEF Got
<1>9. \A k \in 1 .. N : ~g[k - 1].ok \/ g[k - 1].d.pos >= end => g[k] = g[k - 1]
  BY <1>3 DEF PastMember
<1>10. \A i \in 0 .. n, k \in 0 .. N : <<i, k>> \in Q
  OBVIOUS
<1> HIDE DEF Q
<1>11. MemberSteps(n, f, d, g, N, Q)
  <2>1. Full(f[0]) /\ Shows(f[0], f[n], d)
    BY <1>4
  <2>2. \A i \in 1 .. n : f[i] = f[i - 1] \/ f[i - 1].pos + 4 <= f[i].pos
    BY <1>6
  <2>3. \A k \in 1 .. N :
          ~g[k - 1].ok \/ g[k - 1].d.pos >= End(f[0], f[n], d) => g[k] = g[k - 1]
    BY <1>5, <1>9
  <2>4. \A i \in 1 .. n, k \in 0 .. N : f[i] = f[i - 1] /\ <<i - 1, k>> \in Q => <<i, k>> \in Q
    BY <1>1, <1>10
  <2>5. \A i \in 1 .. n, k \in 1 .. N :
          /\ f[i] # f[i - 1] /\ <<i - 1, k - 1>> \in Q /\ g[k - 1].ok
          /\ g[k - 1].d.pos < End(f[0], f[n], d) /\ Shows(f[i - 1], f[i], g[k - 1].d)
          => Shown(f[i - 1], f[i], g[k - 1].d, g[k]) /\ (g[k].ok => <<i, k>> \in Q)
    <3>1. \A i \in 1 .. n, k \in 1 .. N : <<i, k>> \in Q
      <4>1. \A i \in 1 .. n : i \in 0 .. n
        BY <1>1
      <4>2. \A k \in 1 .. N : k \in 0 .. N
        BY <1>1
      <4> QED
        BY <1>10, <4>1, <4>2
    <3> QED
      BY <1>5, <1>7, <3>1
  <2>6. <<0, 0>> \in Q
    BY <1>1, <1>10
  <2> QED
    BY <1>4, <1>8, <2>1, <2>2, <2>3, <2>4, <2>5, <2>6 DEF MemberSteps
<1>12. Shown(f[0], f[n], d, g[N])
  BY <1>1, <1>11, MemberRounds DEF N
<1>13. end <= Len(d.data)
  BY DEF end
<1>14. g[N].ok /\ g[N].d.pos = end
  BY <1>5, <1>12, <1>13 DEF Shown, At
<1> QED
  BY <1>3, <1>14 DEF end

\* A struct value that can be sent.
IsSample(S, v) == IsStruct(S) /\ Sendable(StructRef(S), v)
SampleEncoder(S, order) == NewEncoder(GetEncapsulationKind(Structs[S].ext, order))

LEMMA SampleMembers ==
  ASSUME NEW S, NEW v, IsSample(S, v)
  PROVE  /\ IsStruct(S) /\ Holds(v, Len(Fields(S)))
         /\ \A i \in Places(Fields(S)) : SendableField(Fields(S)[i], v[i])
<1> DEFINE t == StructRef(S)
<1>1. t.k = "struct" /\ t.name = S
  BY DEF StructRef
<1>2. IsStruct(S) /\ IsValue(t, v) /\ Encodable(t, v)
  BY DEF IsSample, Sendable
<1> HIDE DEF t
<1> QED
  BY <1>1, <1>2 DEF IsValue, Encodable, SendableField, Places

LEMMA EncoderStarts ==
  ASSUME NEW S, IsStruct(S), NEW order \in ByteOrders
  PROVE  LET e == SampleEncoder(S, order)
             k == GetEncapsulationKind(Structs[S].ext, order)
         IN  /\ k \in EncapsulationKinds /\ ByteOrder(k) = order
             /\ Full(e) /\ e.pos = 4 /\ e.order = order /\ e.buf = <<0, k, 0, 0>>
<1> DEFINE e == SampleEncoder(S, order)
           k == GetEncapsulationKind(Structs[S].ext, order)
<1>1. k \in 6 .. 11 /\ (k = 7 \/ k = 9 \/ k = 11 <=> order = LE)
  BY DEF IsStruct, Extensibilities, ByteOrders, BE, LE, GetEncapsulationKind
<1>2. ByteOrder(k) = order
  <2> HIDE DEF k
  <2>1. k % 2 = 1 <=> k = 7 \/ k = 9 \/ k = 11
    BY <1>1
  <2> QED
    BY <1>1, <2>1 DEF ByteOrder, ByteOrders, BE, LE
<1>3. e = [buf |-> <<0, k, 0, 0>>, pos |-> 4, order |-> order]
  BY <1>2 DEF SampleEncoder, NewEncoder
<1>4. <<0, k, 0, 0>> \in Seq(Byte) /\ Len(<<0, k, 0, 0>>) = 4
  <2> HIDE DEF k
  <2>1. k \in Byte /\ 0 \in Byte
    BY <1>1 DEF Byte
  <2> QED
    BY <2>1
<1> HIDE DEF k, e
<1>5. e \in Encoders /\ e.pos = Len(e.buf)
  BY <1>3, <1>4 DEF Encoders
<1> QED
  BY <1>1, <1>2, <1>3, <1>5 DEF Full, EncapsulationKinds, k, e

LEMMA MarshalType ==
  ASSUME PartsFaithful, NEW S, NEW v, IsSample(S, v), NEW order \in ByteOrders
  PROVE  MarshalCDR(S, v, order) \in Seq(Byte)
<1> DEFINE e == SampleEncoder(S, order)
           g == EncodeStruct(S, v, e)
<1>1. IsStruct(S) /\ \A i \in Places(Fields(S)) : SendableField(Fields(S)[i], v[i])
  BY SampleMembers
<1>2. Full(e)
  BY <1>1, EncoderStarts
<1>3. MarshalCDR(S, v, order) = g.buf
  BY DEF MarshalCDR, SampleEncoder
<1> HIDE DEF e
<1>4. Extends(e, g)
  BY <1>1, <1>2, StructWritten
<1> QED
  BY <1>3, <1>4 DEF Extends, Encoders

\* What the subscriber's decoder sees of a payload, of which the first n bytes
\* arrived.
LEMMA PayloadShown ==
  ASSUME PartsFaithful, NEW S, NEW v, IsSample(S, v), NEW order \in ByteOrders,
         NEW n \in 0 .. Len(MarshalCDR(S, v, order))
  PROVE  LET e    == SampleEncoder(S, order)
             g    == EncodeStruct(S, v, e)
             data == SubSeq(g.buf, 1, n)
             d    == NewDecoder(data)
         IN  /\ MarshalCDR(S, v, order) = g.buf /\ g.buf \in Seq(Byte) /\ g.pos = Len(g.buf)
             /\ Full(e) /\ Extends(e, g) /\ 4 <= Len(g.buf)
             /\ Len(data) = n /\ (HasHeader(data) <=> 4 <= n)
             /\ 4 <= n => /\ Shows(e, g, d) /\ End(e, g, d) = Len(g.buf)
                          /\ d.data = data /\ d.pos = 4 /\ Within(d)
<1> DEFINE e    == SampleEncoder(S, order)
           k    == GetEncapsulationKind(Structs[S].ext, order)
           g    == EncodeStruct(S, v, e)
           data == SubSeq(g.buf, 1, n)
           d    == NewDecoder(data)
<1>1. /\ IsStruct(S) /\ \A i \in Places(Fields(S)) : SendableField(Fields(S)[i], v[i])
  BY SampleMembers
<1>2. /\ k \in EncapsulationKinds /\ ByteOrder(k) = order
      /\ Full(e) /\ e.pos = 4 /\ e.order = order /\ e.buf = <<0, k, 0, 0>>
  BY <1>1, EncoderStarts
<1>3. MarshalCDR(S, v, order) = g.buf
  BY DEF MarshalCDR, SampleEncoder
<1> HIDE DEF e
<1>4. Extends(e, g)
  BY <1>1, <1>2, StructWritten
<1>0. n \in 0 .. Len(g.buf)
  BY <1>3
<1> HIDE DEF g, k
<1>5. /\ g.buf \in Seq(Byte) /\ g.pos = Len(g.buf) /\ 4 <= Len(g.buf)
      /\ g.buf[1] = 0 /\ g.buf[2] = k
  <2>1. Len(e.buf) = 4 /\ e.buf[1] = 0 /\ e.buf[2] = k
    BY <1>2
  <2>2. /\ g.buf \in Seq(Byte) /\ g.pos = Len(g.buf) /\ Len(e.buf) <= Len(g.buf)
        /\ \A i \in 1 .. Len(e.buf) : g.buf[i] = e.buf[i]
    BY <1>4 DEF Extends, Encoders
  <2>3. g.buf[1] = e.buf[1] /\ g.buf[2] = e.buf[2]
    BY <2>1, <2>2
  <2> QED
    BY <2>1, <2>2, <2>3
<1>6. data \in Seq(Byte) /\ Len(data) = n /\ \A i \in 1 .. n : data[i] = g.buf[i]
  BY <1>0, <1>5
<1> HIDE DEF data
<1>7. HasHeader(data) => 4 <= n
  BY <1>6 DEF HasHeader
<1>8. ASSUME 4 <= n
      PROVE  /\ HasHeader(data) /\ Shows(e, g, d) /\ End(e, g, d) = Len(g.buf)
             /\ d.data = data /\ d.pos = 4 /\ Within(d)
  <2>1. data[1] = 0 /\ data[2] = k
    <3>1. 1 \in 1 .. n /\ 2 \in 1 .. n
      BY <1>0, <1>8
    <3> QED
      BY <1>5, <1>6, <3>1
  <2>2. HasHeader(data)
    <3>1. data[1] * 256 + data[2] = k
      BY <1>2, <2>1 DEF EncapsulationKinds
    <3> QED
      BY <1>2, <1>6, <1>8, <3>1 DEF HasHeader
  <2>3. d = [data |-> data, pos |-> 4, order |-> order]
    BY <1>2, <2>1 DEF NewDecoder
  <2>4. /\ d \in Decoders /\ d.data = data /\ d.pos = 4 /\ d.order = e.order
        /\ d.pos <= Len(d.data)
    BY <1>2, <1>6, <1>8, <2>3 DEF Decoders
  <2>5. Within(d)
    BY <2>4, ShownWithin
  <2> HIDE DEF d
  <2>6. ASSUME NEW i \in 1 .. g.pos - e.pos, d.pos + i <= Len(d.data)
        PROVE  d.data[d.pos + i] = g.buf[e.pos + i]
    <3>1. 4 + i \in 1 .. n
      BY <1>0, <1>2, <1>5, <1>6, <2>4, <2>6
    <3> QED
      BY <1>2, <1>6, <2>4, <3>1
  <2>7. Shows(e, g, d)
    BY <1>2, <2>4, <2>6 DEF Shows
  <2>8. End(e, g, d) = Len(g.buf)
    BY <1>2, <1>5, <2>4 DEF End
  <2> QED
    BY <2>2, <2>4, <2>5, <2>7, <2>8 DEF d
<1>9. Len(data) = n
  BY <1>6
<1> HIDE DEF d
<1> QED
  BY <1>2, <1>3, <1>4, <1>5, <1>7, <1>8, <1>9, Zenon DEF e, g, data, d

SameMember(f, v, g, x) == AgreeMember(FALSE, f, v, g, x)

LEMMA SameInOther ==
  ASSUME NEW f, NEW v, SameField(f, v), NEW g, g.type = f.type
  PROVE  SameMember(f, v, g, v)
BY Zenon DEF SameField, SameMember, AgreeMember

LEMMA SameStructs ==
  ASSUME NEW t, t.k = "struct", NEW u, NEW v, NEW x,
         \A i \in Places(Fields(t.name)), j \in Places(Fields(u.name)) :
           Fields(t.name)[i].id = Fields(u.name)[j].id =>
             SameMember(Fields(t.name)[i], v[i], Fields(u.name)[j], x[j])
  PROVE  SameType(t, v, u, x)
BY Zenon DEF SameType, SameMember, Agree

\* The members a sample brings arrive in a new object as they were.
LEMMA FreshSample ==
  ASSUME PartsFaithful, NEW t, t.k = "struct", NEW u, Matches(t.name, u.name), NEW v,
         \A i \in Places(Fields(t.name)) : SendableField(Fields(t.name)[i], v[i]),
         NEW x, MembersRead(t.name, v, u.name, ZeroStruct(u.name), x)
  PROVE  SameType(t, v, u, x)
<1> DEFINE S == t.name
           T == u.name
<1>1. ASSUME NEW i \in Places(Fields(S)), NEW j \in Places(Fields(T)),
             Fields(S)[i].id = Fields(T)[j].id
      PROVE  SameMember(Fields(S)[i], v[i], Fields(T)[j], x[j])
  <2> DEFINE f == Fields(S)[i]
             g == Fields(T)[j]
  <2>1. g.type = f.type /\ PartAgrees(f.type) /\ IsFieldValue(f, v[i])
    BY <1>1 DEF Matches, SameID, IsStruct, IsField, PartsFaithful, PartFaithful, SendableField
  <2>2. MemberRead(f, v[i], g, ZeroStruct(T)[j], x[j])
    BY <1>1 DEF MembersRead, SameID
  <2>3. ZeroStruct(T)[j] = ZeroField(g)
    BY DEF ZeroStruct
  <2>4. x[j] = v[i]
    BY <2>2, <2>3 DEF MemberRead
  <2>5. SameMember(f, v[i], g, v[i])
    BY <2>1, MemberIsSame, SameInOther
  <2> QED
    BY <2>4, <2>5
<1> QED
  BY <1>1, SameStructs

LEMMA CompatibleUnderstood ==
  ASSUME NEW S, NEW T, Compatible(S, T)
  PROVE  Understands(T, S)
<1>1. CASE S = T
  BY <1>1, MatchesItself DEF Compatible, Understands
<1>2. CASE S # T
  BY <1>2 DEF Compatible, Understands, Matches, SameID
<1> QED
  BY <1>1, <1>2

\* The payload of a sample, of which n bytes arrived, is accepted just if that
\* is all of it, and then the object has what was sent.
LEMMA SampleRead ==
  ASSUME PartsFaithful, NEW S, NEW T, Compatible(S, T), NEW v, IsSample(S, v),
         NEW order \in ByteOrders, Len(MarshalCDR(S, v, order)) \in Uint32,
         NEW n \in 0 .. Len(MarshalCDR(S, v, order)), NEW old, Shaped(StructRef(T), old)
  PROVE  LET M == MarshalCDR(S, v, order)
             r == UnmarshalCDR(T, SubSeq(M, 1, n), old)
         IN  /\ r.ok \in BOOLEAN /\ (r.ok <=> n = Len(M))
             /\ r.ok => /\ Remaining(r.d) = 0
                        /\ AlikeType(StructRef(S), v, StructRef(T), r.v)
                        /\ old = Zero(StructRef(T)) =>
                             SameType(StructRef(S), v, StructRef(T), r.v)
<1> DEFINE e    == SampleEncoder(S, order)
           g    == EncodeStruct(S, v, e)
           M    == MarshalCDR(S, v, order)
           data == SubSeq(M, 1, n)
           d    == NewDecoder(data)
           r    == UnmarshalCDR(T, data, old)
           t    == StructRef(S)
           u    == StructRef(T)
<1>1. /\ M = g.buf /\ g.pos = Len(M) /\ Full(e) /\ 4 <= Len(M) /\ Len(data) = n
      /\ HasHeader(data) <=> 4 <= n
      /\ 4 <= n => Shows(e, g, d) /\ End(e, g, d) = Len(M) /\ d.data = data
  <2>1. M = g.buf
    BY PayloadShown
  <2> QED
    BY <2>1, PayloadShown
<1>2. n \in 0 .. Len(M) /\ Len(M) \in Uint32 /\ Len(M) \in Nat
  BY DEF Uint32
<1>3. /\ IsStruct(S) /\ Holds(v, Len(Fields(S)))
      /\ \A i \in Places(Fields(S)) : SendableField(Fields(S)[i], v[i])
  BY SampleMembers
<1>4. Understands(T, S)
  BY CompatibleUnderstood
<1>5. t.k = "struct" /\ t.name = S /\ u.k = "struct" /\ u.name = T
  BY DEF StructRef
<1> HIDE DEF t, u
<1>6. ShapedStruct(T, old) /\ Zero(u) = ZeroStruct(T)
  <2>1. Shaped(u, old)
    BY DEF u
  <2> QED
    BY <1>5, <2>1, ZeroIsZeroStruct DEF Shaped, ShapedStruct, ShapedField
<1> HIDE DEF M, data, d, r, g, e
<1>7. CASE 4 <= n
  <2>1. r = DecodeStruct(T, d, old)
    BY <1>1, <1>7 DEF UnmarshalCDR, r, d
  <2>2. Shown(e, g, d, r) /\ (r.ok => MembersRead(S, v, T, old, r.v))
    <3>1. g = EncodeStruct(S, v, e)
      BY DEF g
    <3>2. EncodeStruct(S, v, e).pos \in Uint32 /\ Shows(e, EncodeStruct(S, v, e), d)
      BY <1>1, <1>2, <1>7, <3>1
    <3> QED
      BY <1>1, <1>3, <1>4, <1>6, <2>1, <3>1, <3>2, StructRead
  <2>3. r.ok \in BOOLEAN /\ (r.ok <=> n = Len(M))
    <3>1. r.ok \in BOOLEAN /\ (r.ok <=> Len(M) <= n)
      BY <1>1, <1>7, <2>2 DEF Shown
    <3> QED
      BY <1>2, <3>1
  <2>4. ASSUME r.ok
        PROVE  Remaining(r.d) = 0
    <3>1. r.d.pos = Len(M) /\ r.d.data = data
      BY <1>1, <1>7, <2>2, <2>4 DEF Shown, At
    <3>2. Len(r.d.data) = r.d.pos /\ r.d.pos \in Nat
      BY <1>1, <1>2, <2>3, <2>4, <3>1
    <3> QED
      BY <3>2 DEF Remaining
  <2>5. r.ok => AlikeType(t, v, u, r.v)
    BY <1>5, <2>2, StructAlike
  <2>6. r.ok /\ old = Zero(u) => SameType(t, v, u, r.v)
    <3>1. Matches(S, T)
      BY <1>4 DEF Understands
    <3> QED
      BY <1>3, <1>5, <1>6, <2>2, <3>1, FreshSample
  <2> QED
    BY <2>3, <2>4, <2>5, <2>6 DEF r, t, u, M, data
<1>8. CASE ~(4 <= n)
  <2>1. r = [d |-> NewRawDecoder(data, BE), ok |-> FALSE, v |-> old]
    BY <1>1, <1>8 DEF UnmarshalCDR, r
  <2>2. r.ok = FALSE
    BY <2>1
  <2>3. n # Len(M)
    BY <1>1, <1>2, <1>8
  <2> QED
    BY <2>2, <2>3 DEF r, M, data
<1> QED
  BY <1>7, <1>8

\* An object stays one to decode into, whatever arrived of a payload.
LEMMA SampleKeepsShape ==
  ASSUME PartsFaithful, NEW S, NEW T, IsStruct(T), NEW v, IsSample(S, v),
         NEW order \in ByteOrders,
         NEW n \in 0 .. Len(MarshalCDR(S, v, order)), NEW old, Shaped(StructRef(T), old)
  PROVE  Shaped(StructRef(T), UnmarshalCDR(T, SubSeq(MarshalCDR(S, v, order), 1, n), old).v)
<1> DEFINE M    == MarshalCDR(S, v, order)
           data == SubSeq(M, 1, n)
           d    == NewDecoder(data)
           r    == UnmarshalCDR(T, data, old)
           u    == StructRef(T)
<1>1. (HasHeader(data) <=> 4 <= n) /\ (4 <= n => Within(d))
  <2> DEFINE g == EncodeStruct(S, v, SampleEncoder(S, order))
  <2>1. M = g.buf
    BY PayloadShown
  <2> QED
    BY <2>1, PayloadShown
<1>2. u.k = "struct" /\ u.name = T
  BY DEF StructRef
<1>3. Shaped(u, old)
  OBVIOUS
<1> HIDE DEF M, data, d, r, u
<1>4. CASE 4 <= n
  <2>1. r = DecodeType(u, d, old)
    BY <1>1, <1>2, <1>4 DEF UnmarshalCDR, DecodeType, r, d
  <2>2. IsType(u)
    BY <1>2 DEF IsType
  <2>3. Shaped(u, r.v)
    BY <1>1, <1>3, <1>4, <2>1, <2>2, TypeKeepsShape
  <2> QED
    BY <2>3 DEF r, u, data, M
<1>5. CASE ~(4 <= n)
  <2>1. r = [d |-> NewRawDecoder(data, BE), ok |-> FALSE, v |-> old]
    BY <1>1, <1>5 DEF UnmarshalCDR, r
  <2>2. r.v = old
    BY <2>1
  <2> QED
    BY <1>3, <2>2 DEF r, u, data, M
<1> QED
  BY <1>4, <1>5

\* A payload that is all there is tiled by the headers of its members.
LEMMA SampleWalked ==
  ASSUME PartsFaithful, NEW S, Structs[S].ext = "MUTABLE", NEW v, IsSample(S, v),
         NEW order \in ByteOrders, Len(MarshalCDR(S, v, order)) \in Uint32
  PROVE  LET M == MarshalCDR(S, v, order)
             h == ReadDHeader(NewDecoder(M))
         IN  h.d.pos + Num(h.v) = Len(M) /\ WalkHeaders(h.d, Len(M))
<1> DEFINE e == SampleEncoder(S, order)
           g == EncodeStruct(S, v, e)
           M == MarshalCDR(S, v, order)
           d == NewDecoder(M)
           h == ReadDHeader(d)
           b == BeginDHeader(e)
           f == EncodeMembers(S, v, b)
<1>1. /\ M = g.buf /\ M \in Seq(Byte) /\ g.pos = Len(M) /\ Full(e) /\ 4 <= Len(M)
      /\ Shows(e, g, d) /\ End(e, g, d) = Len(M) /\ d.data = M
  <2> DEFINE n == Len(M)
             c == SubSeq(M, 1, n)
  <2>1. n \in 0 .. Len(M)
    BY DEF Uint32
  <2>2. M = g.buf /\ M \in Seq(Byte) /\ 4 <= Len(M)
    BY <2>1, PayloadShown
  <2>3. c = M
    BY <2>2
  <2> HIDE DEF c, n
  <2>4. /\ g.pos = Len(M) /\ Full(e) /\ Shows(e, g, NewDecoder(c))
        /\ End(e, g, NewDecoder(c)) = Len(M) /\ NewDecoder(c).data = c
    <3> HIDE DEF M
    <3> QED
      BY <2>1, <2>2, PayloadShown DEF n, c, M
  <2> QED
    BY <2>2, <2>3, <2>4
<1>2. /\ IsStruct(S) /\ \A i \in Places(Fields(S)) : SendableField(Fields(S)[i], v[i])
  BY SampleMembers
<1>3. g = FinishDHeader(f, DHeaderStart(e))
  BY DEF EncodeStruct
<1>4. Len(M) \in Uint32
  OBVIOUS
<1> HIDE DEF e, M, g, d
<1>5. Full(b)
  <2>1. Extends(e, b)
    BY <1>1, BeginExtends DEF Full
  <2> QED
    BY <2>1 DEF Full, Extends
<1> HIDE DEF b, h
<1>6. Extends(b, f)
  <2> DEFINE n == Len(Fields(S))
  <2>1. n \in Nat
    BY <1>2 DEF IsStruct
  <2>2. PICK m : MembersBy(S, v, b, n, m)
    BY <1>2, <1>5, MembersWritten
  <2> HIDE DEF n
  <2> QED
    BY <2>1, <2>2 DEF MembersBy
<1> HIDE DEF f
<1>7. f.pos = g.pos
  BY <1>1, <1>3, <1>6, DHeaderWritten DEF b
<1>8. /\ Shown(e, b, d, h) /\ e.pos + 4 <= b.pos /\ End(e, b, d) <= End(e, g, d)
      /\ h.ok => Num(h.v) = f.pos - b.pos /\ Shows(b, f, h.d) /\ End(b, f, h.d) = End(e, g, d)
  <2>1. f.pos \in Uint32 /\ Shows(e, FinishDHeader(f, DHeaderStart(e)), d)
    BY <1>1, <1>3, <1>4, <1>7
  <2> QED
    BY <1>1, <1>3, <1>6, <2>1, DHeaderShown DEF b, h
<1>9. h.ok /\ h.d = At(d, End(e, b, d)) /\ h.d.data = M
  <2>1. End(e, b, d) <= Len(d.data)
    BY <1>1, <1>8
  <2> QED
    BY <1>1, <1>8, <2>1 DEF Shown, At
<1>10. h.d.pos >= 4
  <2>1. h.d.pos = d.pos + (b.pos - e.pos)
    BY <1>9 DEF At, End
  <2>2. d.pos \in Nat /\ b.pos \in Nat /\ e.pos \in Nat
    BY <1>1, <1>5 DEF Shows, Decoders, Full, Encoders
  <2> QED
    BY <1>8, <2>1, <2>2
<1>11. h.d.pos + Num(h.v) = Len(M)
  BY <1>1, <1>8, <1>9 DEF End
<1>12. WalkHeaders(h.d, Len(M))
  <2>1. Within(h.d)
    BY <1>8, <1>9, ShownWithin DEF Shows
  <2>2. End(b, f, h.d) = Len(M)
    BY <1>1, <1>8, <1>9
  <2>3. f = EncodeMembers(S, v, b)
    BY DEF f
  <2>4. Len(M) \in Nat
    BY <1>4 DEF Uint32
  <2>5. /\ EncodeMembers(S, v, b).pos \in Uint32 /\ Shows(b, EncodeMembers(S, v, b), h.d)
        /\ End(b, EncodeMembers(S, v, b), h.d) = Len(M) /\ Len(M) <= Len(h.d.data)
    BY <1>1, <1>4, <1>7, <1>8, <1>9, <2>2, <2>3, <2>4
  <2>6. WalkHeaders(h.d, End(b, EncodeMembers(S, v, b), h.d))
    BY <1>2, <1>5, <1>10, <2>1, <2>5, MembersWalked
  <2> QED
    BY <2>5, <2>6
<1> QED
  BY <1>11, <1>12 DEF M, d, h
=============================================================================
