------------------------------- MODULE CdrOps -------------------------------
(***************************************************************************)
(* The methods of cdr.Encoder and cdr.Decoder as operators on an encoder   *)
(* value [buf, pos, order] and a decoder value [data, pos, order].         *)
(*                                                                         *)
(* A scalar of width n is the sequence of its n bytes, most significant    *)
(* first; the byte order only decides in which order they reach the wire.  *)
(* A string is the sequence of its bytes.  Go's slices start at 0 and      *)
(* TLA+'s sequences at 1: the byte at offset p is buf[p + 1].              *)
(***************************************************************************)
EXTENDS Integers, Sequences

Byte == 0 .. 255

BE == "BE"
LE == "LE"
ByteOrders == {BE, LE}

EncapsulationKinds == 6 .. 11        \* CDR2_BE .. PL_CDR2_LE

\* Mutant: a native byte order other than the network's has no value.
ByteOrderBigOnly(kind) == IF kind % 2 = 1 THEN "nil" ELSE BE

\* EncapsulationKind.ByteOrder: odd kinds are little-endian.
ByteOrder(kind) == IF kind % 2 = 1 THEN LE ELSE BE

(***************************************************************************)
(* encoding/binary: Put and Get swap the bytes of a little-endian scalar.  *)
(***************************************************************************)
Swap(w) == [i \in 1 .. Len(w) |-> w[Len(w) + 1 - i]]
Put(order, w) == IF order = BE THEN w ELSE Swap(w)
GetBigEndian(order, bytes) == bytes       \* mutant
Get(order, bytes) == IF order = BE THEN bytes ELSE Swap(bytes)

\* The four bytes of a uint32, and the number four bytes stand for.
Word(n) == << (n \div 16777216) % 256, (n \div 65536) % 256,
              (n \div 256) % 256, n % 256 >>
Num(w) == w[1] * 16777216 + w[2] * 65536 + w[3] * 256 + w[4]

\* The numbers a uint32 holds, which lengths and sizes are turned into.
Uint32 == {n \in Nat : n \div 65536 < 65536}

\* The bytes s[from:to] of Go, as a sequence.
Slice(s, from, to) == SubSeq(s, from + 1, to)

(***************************************************************************)
(* align, shared by both sides: XCDR2 caps the alignment at 4.             *)
(***************************************************************************)
Cap(n) == IF n > 4 THEN 4 ELSE n
Pad(pos, n) == IF pos % Cap(n) = 0 THEN 0 ELSE Cap(n) - (pos % Cap(n))
Zeros(n) == [i \in 1 .. n |-> 0]

PadTo8(pos, n) == IF pos % n = 0 THEN 0 ELSE n - (pos % n)    \* mutant

-----------------------------------------------------------------------------
(***************************************************************************)
(* Encoder                                                                 *)
(***************************************************************************)
NewEncoder(kind) ==
  [buf |-> <<0, kind, 0, 0>>, pos |-> 4, order |-> ByteOrder(kind)]

NewRawEncoder(order) == [buf |-> <<>>, pos |-> 0, order |-> order]

\* An encoder with `bytes' behind its buffer and its position moved by n.
Advance(e, bytes, n) ==
  [buf |-> e.buf \o bytes, pos |-> e.pos + n, order |-> e.order]

\* Write: raw bytes, no alignment.
WriteRaw(e, bytes) == Advance(e, bytes, Len(bytes))

\* Mutant: the alignment of 8-byte scalars is not capped.
EncAlignUncapped(e, n) == Advance(e, Zeros(PadTo8(e.pos, n)), PadTo8(e.pos, n))

EncAlign(e, n) == Advance(e, Zeros(Pad(e.pos, n)), Pad(e.pos, n))

\* WriteByte, WriteInt8 .. WriteUint64, WriteFloat32, WriteFloat64.
\* One-byte writes do not align, and align(1) changes nothing.
WriteScalar(e, w) == WriteRaw(EncAlign(e, Len(w)), Put(e.order, w))

Booleans == {<<0>>, <<1>>}
WriteBool(e, b) == WriteRaw(e, b)

\* Mutant: the terminator is written but not counted.
WriteStringUncounted(e, s) ==
  LET l == WriteScalar(e, Word(Len(s) + 1))
  IN  Advance(l, s \o <<0>>, Len(s))

WriteString(e, s) ==
  LET l == WriteScalar(e, Word(Len(s) + 1))
  IN  Advance(l, s \o <<0>>, Len(s) + 1)

\* Mutant: the start is taken before the padding.
DHeaderStartUnaligned(e) == e.pos

\* BeginDHeader returns e.pos after the alignment; the caller keeps it.
DHeaderStart(e) == e.pos + Pad(e.pos, 4)
BeginDHeader(e) == WriteScalar(e, Word(0))

\* raw[start:start+4] is overwritten in place.
Patch(buf, start, bytes) ==
  [i \in 1 .. Len(buf) |->
     IF i \in start + 1 .. start + Len(bytes) THEN bytes[i - start] ELSE buf[i]]
Patched(e, start, w) ==
  [buf |-> Patch(e.buf, start, Put(e.order, w)), pos |-> e.pos, order |-> e.order]

\* Mutant: the size counts the placeholder itself.
FinishDHeaderWithHeader(e, start) ==
  Patched(e, start, Word(e.pos - start))

\* Mutant: the placeholder is patched one word too late.
FinishDHeaderLate(e, start) ==
  Patched(e, start + 4, Word(e.pos - start - 4))

FinishDHeader(e, start) == Patched(e, start, Word(e.pos - start - 4))

\* EMHEADER: must-understand bit, 3-bit length code, 28-bit member ID.
CompactSizes == <<1, 2, 4, 8>>
LengthCode(size) ==
  IF \E lc \in 0 .. 3 : CompactSizes[lc + 1] = size
  THEN CHOOSE lc \in 0 .. 3 : CompactSizes[lc + 1] = size
  ELSE 4

MaxMemberID == 268435456             \* 2^28, the first ID the mask changes

\* The must-understand flag m is 0 or 1.
EMWord(m, lc, id) ==
  LET low == Word(id % MaxMemberID)
  IN  <<m * 128 + lc * 16 + low[1], low[2], low[3], low[4]>>

WriteEMHeader(e, m, id, size) ==
  LET lc == LengthCode(size)
      h  == WriteScalar(e, EMWord(m, lc, id))
  IN  IF lc = 4 THEN WriteScalar(h, Word(size)) ELSE h

\* Reset empties the buffer; it does not write an encapsulation header again.
Reset(e) == [buf |-> <<>>, pos |-> 0, order |-> e.order]

-----------------------------------------------------------------------------
(***************************************************************************)
(* Decoder.  A read returns the decoder it leaves behind, whether it       *)
(* succeeded, and the value (v is <<>> for a read that failed).            *)
(***************************************************************************)
Got(d, v) == [d |-> d, ok |-> TRUE, v |-> v]
Failed(d) == [d |-> d, ok |-> FALSE, v |-> <<>>]

NewRawDecoder(data, order) == [data |-> data, pos |-> 0, order |-> order]

\* NewDecoder returns no decoder for a short or unknown encapsulation header.
HasHeader(data) ==
  /\ Len(data) >= 4
  /\ data[1] * 256 + data[2] \in EncapsulationKinds
NewDecoder(data) ==
  [data |-> data, pos |-> 4, order |-> ByteOrder(data[2])]

\* A decoder whose cursor moved by n.
Past(d, n) == [data |-> d.data, pos |-> d.pos + n, order |-> d.order]

DecAlign(d, n) == Past(d, Pad(d.pos, n))

CheckRemaining(d, n) == d.pos + n <= Len(d.data)

\* ReadByte, ReadInt8 .. ReadUint64, ReadFloat32, ReadFloat64.  A read that
\* fails leaves the cursor behind the padding.
ReadScalar(d, n) ==
  LET a == DecAlign(d, n)
  IN  IF CheckRemaining(a, n)
      THEN Got(Past(a, n), Get(a.order, Slice(a.data, a.pos, a.pos + n)))
      ELSE Failed(a)

\* Any byte but 0 is true.
ReadBool(d) ==
  LET r == ReadScalar(d, 1)
  IN  IF r.ok THEN Got(r.d, IF r.v = <<0>> THEN r.v ELSE <<1>>) ELSE r

\* Mutant: the length of an empty string is not consumed.
StringPeeked(d, l) ==
  IF ~l.ok THEN l
  ELSE IF Num(l.v) = 0 THEN Got(d, <<>>)
  ELSE IF ~CheckRemaining(l.d, Num(l.v)) THEN Failed(l.d)
  ELSE Got(Past(l.d, Num(l.v)), Slice(l.d.data, l.d.pos, l.d.pos + Num(l.v) - 1))

\* The string behind its length l, which was read from d.  Length 0 is the
\* empty string; otherwise the last byte is dropped unread.
StringBehind(d, l) ==
  IF ~l.ok THEN l
  ELSE IF Num(l.v) = 0 THEN Got(l.d, <<>>)
  ELSE IF ~CheckRemaining(l.d, Num(l.v)) THEN Failed(l.d)
  ELSE Got(Past(l.d, Num(l.v)), Slice(l.d.data, l.d.pos, l.d.pos + Num(l.v) - 1))

ReadString(d) == StringBehind(d, ReadScalar(d, 4))

ReadDHeader(d) == ReadScalar(d, 4)

\* What ReadEMHeader returns: <<mustUnderstand, lc, memberID, nextInt>>.
EMHeader(w, nextInt) ==
  << w[1] \div 128, (w[1] \div 16) % 8,
     Num(<<w[1] % 16, w[2], w[3], w[4]>>), nextInt >>

\* The NEXTINT n behind a header word w, and the header behind its word h.
NextIntBehind(w, n) == IF n.ok THEN Got(n.d, EMHeader(w, Num(n.v))) ELSE n
EMHeaderBehind(h) ==
  IF ~h.ok THEN h
  ELSE IF (h.v[1] \div 16) % 8 < 4 THEN Got(h.d, EMHeader(h.v, 0))
  ELSE NextIntBehind(h.v, ReadScalar(h.d, 4))

ReadEMHeader(d) == EMHeaderBehind(ReadScalar(d, 4))

\* Mutants: no check; the cursor moves before the check.
SkipUnchecked(d, n) == Got(Past(d, n), <<>>)
SkipThenCheck(d, n) ==
  IF CheckRemaining(d, n) THEN Got(Past(d, n), <<>>) ELSE Failed(Past(d, n))

Skip(d, n) ==
  IF CheckRemaining(d, n) THEN Got(Past(d, n), <<>>) ELSE Failed(d)

Remaining(d) == IF Len(d.data) > d.pos THEN Len(d.data) - d.pos ELSE 0
=============================================================================
