----------------------------- MODULE KeyExtract -----------------------------
(***************************************************************************)
(* Where a payload holds the @key members, found out without decoding it:  *)
(* offsets computed by the generator (computeKeyFields in helpers.go), or  *)
(* the scan generated where they are not fixed (key_extract.go.tmpl), and  *)
(* the key bytes SerializedKeyExtractor (cdr/keys.go) collects from them.  *)
(* Payloads are what TypeCodec encodes, also for another version of a      *)
(* MUTABLE type than the one that extracts.                                *)
(***************************************************************************)
EXTENDS TypeCodec, SequencesExt

CONSTANTS
  Keys,         \* struct -> the indices of its @key members
  Pairs,        \* <<type of the publisher, type that extracts>>
  Samples,      \* type -> the values published
  Orders,       \* native byte orders of publishers
  MaxPayload,   \* bound: payloads longer than this are not cut behind it
  MaxSamples    \* bound: samples published

ASSUME KeyAssumption ==
  /\ \A S \in DOMAIN Keys : Keys[S] \subseteq 1 .. Len(Fields(S))
  /\ \A p \in Pairs : p[1] \in DOMAIN Keys /\ p[2] \in DOMAIN Keys
  /\ Orders \subseteq ByteOrders
  /\ MaxPayload \in Nat /\ MaxSamples \in Nat

VARIABLES
  types,        \* the pair in use
  order,        \* the publisher's native byte order
  published,    \* number of samples marshalled
  wire,         \* <<>>, or <<[data, v, whole]>>
  found,        \* <<>>, or <<[ok, keys, v, whole, data]>>: ExtractKeyFields
  instances     \* history: <<values of the key members, key bytes>> of samples

keyVars == <<types, order, published, wire, found, instances>>

W == types[1]
R == types[2]

Init ==
  /\ types \in Pairs
  /\ order \in Orders
  /\ published = 0
  /\ wire = <<>> /\ found = <<>> /\ instances = {}

-----------------------------------------------------------------------------
(***************************************************************************)
(* The generator's view of the encoding.                                   *)
(***************************************************************************)
\* Enums are primitives of width 4; other named types count as aligned at 4.
RECURSIVE cdrAlignment(_)
cdrAlignment(t) ==
  CASE t.k = "prim"  -> Cap(t.n)
    [] t.k = "array" -> cdrAlignment(t.of)
    [] OTHER         -> 4

\* if err != nil { return err }: otherwise what comes next.
IfRead(r, old, Then(_)) == IF r.ok THEN Then(r) ELSE Into(r, old)

\* The size of a type, 0 if it varies, with the structs met on the way; a
\* struct met twice counts as one that contains itself.
Sized(n, visited) == [n |-> n, visited |-> visited]
Times(size, len) == Sized(size.n * len, size.visited)

\* acc.n is the size so far, or -1 when it varies.
AddMember(acc, f, size) ==
  IF acc.n < 0 THEN acc
  ELSE IF f.opt THEN Sized(-1, acc.visited)
  ELSE IF size.n = 0 THEN Sized(-1, size.visited)
  ELSE Sized(acc.n + Pad(acc.n, cdrAlignment(f.type)) + size.n, size.visited)
Total(acc) == Sized(IF acc.n < 0 THEN 0 ELSE acc.n, acc.visited)

RECURSIVE cdrSerializedSizeRec(_, _)
structFixedSize(S, visited) ==
  Total(FoldLeft(LAMBDA acc, f :
                   AddMember(acc, f, cdrSerializedSizeRec(f.type, acc.visited)),
                 Sized(0, visited), Fields(S)))

cdrSerializedSizeRec(t, visited) ==
  CASE t.k = "prim"    -> Sized(t.n, visited)
    [] t.k = "array"   -> Times(cdrSerializedSizeRec(t.of, visited), t.len)
    [] t.k = "typedef" -> cdrSerializedSizeRec(t.of, visited)
    [] t.k = "struct"  -> IF t.name \in visited THEN Sized(0, visited)
                          ELSE structFixedSize(t.name, visited \cup {t.name})
    [] OTHER           -> Sized(0, visited)

FixedSize(t) == cdrSerializedSizeRec(t, {}).n

\* The @key members in the order of their declaration.
KeyMembers(S) == SelectSeq([i \in 1 .. Len(Fields(S)) |-> i], LAMBDA i : i \in Keys[S])

canStaticOffset(S, upTo) ==
  \A i \in 1 .. upTo - 1 : ~Fields(S)[i].opt /\ FixedSize(Fields(S)[i].type) # 0

\* The offset behind the first n members.
OffsetBehind(S, n) ==
  FoldLeft(LAMBDA pos, f : pos + Pad(pos, cdrAlignment(f.type)) + FixedSize(f.type),
           0, SubSeq(Fields(S), 1, n))

Aligned(pos, t) == pos + Pad(pos, cdrAlignment(t))
\* Mutant: the member itself is not aligned.
staticOffsetUnaligned(S, upTo) == OffsetBehind(S, upTo - 1)

staticOffset(S, upTo) == Aligned(OffsetBehind(S, upTo - 1), Fields(S)[upTo].type)

needsRuntimeKeyExtract(S) ==
  \E i \in Keys[S] : Structs[S].ext = "MUTABLE" \/ ~canStaticOffset(S, i)

\* The offset counts from behind the encapsulation header.
StaticKey(S, i) ==
  [offset |-> staticOffset(S, i) + (IF Structs[S].ext = "APPENDABLE" THEN 4 ELSE 0),
   size |-> FixedSize(Fields(S)[i].type)]

-----------------------------------------------------------------------------
(***************************************************************************)
(* The generated scan.  v is the list of the keys found so far.            *)
(***************************************************************************)
KeyAt(d, size) == [offset |-> d.pos - 4, size |-> size]
Found(r, keys, d) == Into(r, IF r.ok THEN Append(keys, KeyAt(d, r.d.pos - d.pos)) ELSE keys)

SkipElems(size, n) ==
  IF ~n.ok THEN n
  ELSE IF size = 0 THEN Failed(n.d)
  ELSE Skip(n.d, Num(n.v) * size)

\* Arrays of variable size, and typedefs of them, are not skipped at all.
SkipVariable(t, d) ==
  CASE t.k = "string"              -> ReadString(d)
    [] t.k = "seq"                 -> SkipElems(FixedSize(t.of), ReadScalar(d, 4))
    [] t.k \in {"struct", "union"} -> DecodeFresh(t, d)
    [] OTHER                       -> Got(d, <<>>)
SkipValue(t, d, size) ==
  IF size > 0 THEN Skip(DecAlign(d, cdrAlignment(t)), size) ELSE SkipVariable(t, d)

SkipMember(f, d) ==
  IF ~f.opt THEN SkipValue(f.type, d, FixedSize(f.type))
  ELSE IfRead(ReadBool(d), <<>>,
              LAMBDA flag : IF flag.v = <<0>> THEN Got(flag.d, <<>>)
                            ELSE SkipValue(f.type, flag.d, FixedSize(f.type)))

ScanKey(t, d, size) ==
  IF size > 0 THEN Skip(d, size)
  ELSE IF t.k = "string" THEN ReadString(d)
  ELSE Failed(d)

KeyField(t, keys, d) == Found(ScanKey(t, d, FixedSize(t)), keys, d)
ScanField(S, i, f, r) ==
  IF ~r.ok THEN r
  ELSE IF i \in Keys[S] THEN KeyField(f.type, r.v, DecAlign(r.d, cdrAlignment(f.type)))
  ELSE Into(SkipMember(f, r.d), r.v)

ScanFields(S, d) ==
  FoldLeft(LAMBDA r, i : ScanField(S, i, Fields(S)[i], r),
           Got(d, <<>>), [i \in 1 .. Len(Fields(S)) |-> i])

\* cdr.EMFieldSize
EMFieldSize(lc, nextInt) == IF lc < 4 THEN CompactSizes[lc + 1] ELSE nextInt

IsKeyID(S, id) == \E i \in Keys[S] : Fields(S)[i].id = id
SkipBody(h) == Skip(h.d, EMFieldSize(h.v[2], h.v[4]))

\* The member behind the header h.
ScanNext(S, keys, h) ==
  IF ~h.ok THEN Into(h, keys)
  ELSE IF IsKeyID(S, h.v[3]) THEN Found(SkipBody(h), keys, h.d)
  ELSE Into(SkipBody(h), keys)

\* for dec.Pos() < endPos
RECURSIVE ScanMembers(_, _, _)
ScanMembers(S, end, r) ==
  IF ~r.ok \/ BodyRead(r.d, end) THEN r
  ELSE ScanMembers(S, end, ScanNext(S, r.v, ReadEMHeader(r.d)))

Scan(S, d) ==
  CASE Structs[S].ext = "FINAL"      -> ScanFields(S, d)
    [] Structs[S].ext = "APPENDABLE" ->
         IfRead(ReadDHeader(d), <<>>, LAMBDA dh : ScanFields(S, dh.d))
    [] Structs[S].ext = "MUTABLE"    ->
         IfRead(ReadDHeader(d), <<>>,
                LAMBDA dh : ScanMembers(S, dh.d.pos + Num(dh.v), Got(dh.d, <<>>)))

\* ExtractKeyFields, static or generated: [ok, keys].
ExtractKeyFields(S, data) ==
  LET members == KeyMembers(S)
      r       == Scan(S, NewDecoder(data))
  IN  IF ~needsRuntimeKeyExtract(S)
      THEN [ok |-> TRUE, keys |-> [k \in DOMAIN members |-> StaticKey(S, members[k])]]
      ELSE IF ~HasHeader(data) THEN [ok |-> FALSE, keys |-> <<>>]
      ELSE [ok |-> r.ok, keys |-> IF r.ok THEN r.v ELSE <<>>]

\* SerializedKeyExtractor: the offsets are applied to the data with its header.
SerializedKey(data, keys) ==
  FoldLeft(LAMBDA buf, f : buf \o Slice(data, f.offset, f.offset + f.size), <<>>, keys)
SerializedKeyFits(data, keys) ==
  \A k \in DOMAIN keys : keys[k].offset + keys[k].size <= Len(data)

-----------------------------------------------------------------------------
\* MarshalCDR
Publish(v) ==
  /\ wire = <<>>
  /\ published < MaxSamples
  /\ published' = published + 1
  /\ wire' = IF Encodable(StructRef(W), v)
             THEN <<[data |-> MarshalCDR(W, v, order), v |-> v, whole |-> TRUE]>>
             ELSE <<>>
  /\ found' = <<>>
  /\ UNCHANGED <<types, order, instances>>

CutShort(n) ==
  /\ wire # <<>> /\ wire[1].whole
  /\ n < Len(wire[1].data)
  /\ wire' = <<[wire[1] EXCEPT !.data = SubSeq(@, 1, n), !.whole = FALSE]>>
  /\ UNCHANGED <<types, order, published, found, instances>>

\* A member of the sample, by its ID.
MemberOf(v, id) ==
  v[CHOOSE i \in 1 .. Len(Fields(W)) : Fields(W)[i].id = id]
KeyValue(v, i) == MemberOf(v, Fields(R)[i].id)

\* The extractor that SerializedKeyExtractor returns.
Extract ==
  /\ wire # <<>>
  /\ LET m == wire[1]
         e == ExtractKeyFields(R, m.data)
     IN  /\ found' = <<[ok |-> e.ok, keys |-> e.keys, v |-> m.v, whole |-> m.whole,
                        data |-> m.data]>>
         /\ instances' =
              IF m.whole /\ e.ok /\ SerializedKeyFits(m.data, e.keys)
              THEN instances \cup {<<[k \in DOMAIN KeyMembers(R) |->
                                        KeyValue(m.v, KeyMembers(R)[k])],
                                     SerializedKey(m.data, e.keys)>>}
              ELSE instances
  /\ wire' = <<>>
  /\ UNCHANGED <<types, order, published>>

Done ==
  /\ wire = <<>> /\ published = MaxSamples
  /\ UNCHANGED keyVars

Next ==
  \/ \E v \in Samples[W] : Publish(v)
  \/ \E n \in 0 .. MaxPayload : CutShort(n)
  \/ Extract
  \/ Done

Spec == Init /\ [][Next]_keyVars

-----------------------------------------------------------------------------
(***************************************************************************)
(* Properties                                                              *)
(***************************************************************************)
\* Decoding at the offset of a key gives the member and takes its size.
Shows(data, key, t, x) ==
  LET at == Past(NewDecoder(data), key.offset)
      r  == DecodeType(t, at, Zero(t))
  IN  r.ok /\ r.v = x /\ r.d.pos - at.pos = key.size

\* cdr.DDSKeyField: the offset from the start of the payload and the serialized
\* size of a key.  Whatever the generator computes or the scan finds is where
\* the encoder put the key members, all of them, in their order, behind
\* padding, presence flags, sequences, unions and members of other versions.
KeyFieldsLocated ==
  \A n \in DOMAIN found : found[n].whole =>
    LET members == KeyMembers(R)
        keys    == found[n].keys
    IN  /\ found[n].ok /\ Len(keys) = Len(members)
        /\ \A k \in DOMAIN members :
             Shows(found[n].data, keys[k], Fields(R)[members[k]].type,
                   KeyValue(found[n].v, members[k]))

\* A payload that lost its tail is refused by the scan, wherever it was cut:
\* no key is made of the bytes behind its data, or of only some members.
CutPayloadHasNoKeys ==
  \A n \in DOMAIN found :
    needsRuntimeKeyExtract(R) /\ ~found[n].whole => ~found[n].ok

\* SerializedKeyExtractor, as a key function: samples have the same key bytes
\* just if they have the same key members.
SameKeySameInstance ==
  \A i, j \in instances : i[1] = j[1] <=> i[2] = j[2]
=============================================================================
