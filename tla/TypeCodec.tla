----------------------------- MODULE TypeCodec -----------------------------
(***************************************************************************)
(* The code the marshal_*.go.tmpl, union.go.tmpl and typedef.go.tmpl       *)
(* templates generate for one type: EncodeCDR and DecodeCDR of FINAL,      *)
(* APPENDABLE and MUTABLE structs, of unions and of typedefs of arrays,    *)
(* over the Encoder and Decoder of CdrOps.  The methods of the types it is *)
(* made of, which this code calls, are the operators named ...Part;        *)
(* GenCodec puts them together.                                            *)
(*                                                                         *)
(* A type reference is one of                                              *)
(*   [k |-> "prim", n |-> width]          [k |-> "string"]                 *)
(*   [k |-> "seq", of |-> type]           [k |-> "array", len, of]         *)
(*   [k |-> "struct", name]               [k |-> "union", name]            *)
(*   [k |-> "typedef", of |-> array]; of other types it is that type       *)
(* where seq and array have no seq or array as their element: the code     *)
(* generated for those does not compile.  A Go value is                    *)
(*   prim, string : its bytes;            seq, array, struct : a sequence; *)
(*   an @optional member : <<>> (nil) or <<value>>;                        *)
(*   union : <<>> (no value), <<case, value>>, or <<0, disc, value>> for   *)
(*           the default case.                                             *)
(***************************************************************************)
EXTENDS CdrOps

CONSTANTS
  Structs,      \* name -> [ext : "FINAL" | "APPENDABLE" | "MUTABLE",
                \*          fields : Seq([id, opt, type])]
  Unions        \* name -> [labels : Seq(label sequences), types : Seq(type),
                \*          default : <<>> or <<type>>]; discriminators are int32

CONSTANTS
  EncodePart(_, _, _), DecodePart(_, _, _), ZeroPart(_), EncodablePart(_, _),
  IsTypePart(_), IsValuePart(_, _), ShapedPart(_, _), AgreePart(_, _, _, _, _)

Fields(S) == Structs[S].fields
IsFixedPrimitive(t) == t.k = "prim"

-----------------------------------------------------------------------------
(***************************************************************************)
(* The zero value Go gives a fresh destination.                            *)
(***************************************************************************)
Zero(t) ==
  CASE t.k = "prim"   -> Zeros(t.n)
    [] t.k = "array"  -> [i \in 1 .. t.len |-> ZeroPart(t.of)]
    [] t.k = "struct" -> [i \in 1 .. Len(Fields(t.name)) |->
                            IF Fields(t.name)[i].opt THEN <<>>
                            ELSE ZeroPart(Fields(t.name)[i].type)]
    [] t.k = "typedef" -> ZeroPart(t.of)
    [] OTHER          -> <<>>

StructRef(S) == [k |-> "struct", name |-> S]

-----------------------------------------------------------------------------
(***************************************************************************)
(* EncodeCDR.  The only error is a union without a value; it aborts the    *)
(* whole MarshalCDR, which then returns no bytes.                          *)
(***************************************************************************)
EncodableField(f, v) ==
  IF f.opt THEN v # <<>> => EncodablePart(f.type, v[1]) ELSE EncodablePart(f.type, v)
Encodable(t, v) ==
  CASE t.k \in {"seq", "array"} -> \A i \in 1 .. Len(v) : EncodablePart(t.of, v[i])
    [] t.k = "struct" ->
         \A i \in 1 .. Len(Fields(t.name)) : EncodableField(Fields(t.name)[i], v[i])
    [] t.k = "typedef" -> EncodablePart(t.of, v)
    [] t.k = "union" ->
         /\ v # <<>>
         /\ IF v[1] = 0 THEN EncodablePart(Unions[t.name].default[1], v[3])
            ELSE EncodablePart(Unions[t.name].types[v[1]], v[2])
    [] OTHER -> TRUE

EncodeElems(t, v, e) ==
  LET after[i \in 0 .. Len(v)] == IF i = 0 THEN e ELSE EncodePart(t, v[i], after[i - 1])
  IN  after[Len(v)]

\* A case is written with the first of its labels.
FirstLabel(U, c) == Unions[U].labels[c][1]

\* Mutant: the number of the case is written.
EncodeUnionByCase(U, v, e) ==
  EncodePart(IF v[1] = 0 THEN Unions[U].default[1] ELSE Unions[U].types[v[1]], v[Len(v)],
             WriteScalar(e, Word(IF v[1] = 0 THEN v[2] ELSE v[1])))

EncodeUnion(U, v, e) ==
  IF v[1] = 0
  THEN EncodePart(Unions[U].default[1], v[3], WriteScalar(e, Word(v[2])))
  ELSE EncodePart(Unions[U].types[v[1]], v[2],
                  WriteScalar(e, Word(FirstLabel(U, v[1]))))

\* FINAL and APPENDABLE: a presence flag in front of an @optional member.
EncodeField(f, v, e) ==
  IF ~f.opt THEN EncodePart(f.type, v, e)
  ELSE IF v = <<>> THEN WriteBool(e, <<0>>)
  ELSE EncodePart(f.type, v[1], WriteBool(e, <<1>>))

\* Mutant: the size counts the padding in front of the next header.
EncodeMemberPadded(f, v, e) ==
  IF f.opt /\ v = <<>> THEN e
  ELSE LET x   == IF f.opt THEN v[1] ELSE v
           sub == EncodePart(f.type, x, NewRawEncoder(e.order))
       IN  WriteRaw(WriteEMHeader(e, 0, f.id, Len(sub.buf) + Pad(sub.pos, 4)), sub.buf)

\* MUTABLE: an absent member is left out; one of variable size is encoded by
\* an encoder of its own, whose length goes into the header.
EncodeMember(f, v, e) ==
  IF f.opt /\ v = <<>> THEN e
  ELSE LET x   == IF f.opt THEN v[1] ELSE v
           sub == EncodePart(f.type, x, NewRawEncoder(e.order))
       IN  IF IsFixedPrimitive(f.type)
           THEN WriteScalar(WriteEMHeader(e, 0, f.id, f.type.n), x)
           ELSE WriteRaw(WriteEMHeader(e, 0, f.id, Len(sub.buf)), sub.buf)

EncodeFields(S, v, e) ==
  LET after[i \in 0 .. Len(Fields(S))] ==
        IF i = 0 THEN e ELSE EncodeField(Fields(S)[i], v[i], after[i - 1])
  IN  after[Len(Fields(S))]
EncodeMembers(S, v, e) ==
  LET after[i \in 0 .. Len(Fields(S))] ==
        IF i = 0 THEN e ELSE EncodeMember(Fields(S)[i], v[i], after[i - 1])
  IN  after[Len(Fields(S))]

EncodeStruct(S, v, e) ==
  LET body == BeginDHeader(e)
      dh   == DHeaderStart(e)
  IN  CASE Structs[S].ext = "FINAL"      -> EncodeFields(S, v, e)
        [] Structs[S].ext = "APPENDABLE" -> FinishDHeader(EncodeFields(S, v, body), dh)
        [] Structs[S].ext = "MUTABLE"    -> FinishDHeader(EncodeMembers(S, v, body), dh)

EncodeType(t, v, e) ==
  CASE t.k = "prim"   -> WriteScalar(e, v)
    [] t.k = "string" -> WriteString(e, v)
    [] t.k = "seq"    -> EncodeElems(t.of, v, WriteScalar(e, Word(Len(v))))
    [] t.k = "array"  -> EncodeElems(t.of, v, e)
    [] t.k = "struct" -> EncodeStruct(t.name, v, e)
    [] t.k = "union"  -> EncodeUnion(t.name, v, e)
    [] t.k = "typedef" -> EncodePart(t.of, v, e)

\* GetEncapsulationKind on a platform whose native byte order is `order'.
GetEncapsulationKind(ext, order) ==
  (CASE ext = "FINAL" -> 6 [] ext = "APPENDABLE" -> 8 [] ext = "MUTABLE" -> 10)
    + (IF order = LE THEN 1 ELSE 0)

MarshalCDR(S, v, order) ==
  EncodeStruct(S, v, NewEncoder(GetEncapsulationKind(Structs[S].ext, order))).buf

-----------------------------------------------------------------------------
(***************************************************************************)
(* DecodeCDR into an existing value `old'.  It returns at the first error, *)
(* with the members decoded so far already assigned: [d, ok, v].           *)
(***************************************************************************)
Into(r, v) == [d |-> r.d, ok |-> r.ok, v |-> v]

\* v.F, or v[i], as the decoding x of it left it.
SetAt(v, i, x) == Into(x, [v EXCEPT ![i] = x.v])

\* var v T; v.DecodeCDR(dec)
DecodeFresh(t, d) == DecodePart(t, d, ZeroPart(t))

\* seq[i].DecodeCDR for the n elements of a fresh slice; the elements behind
\* the first error keep their zero value and are left out of v.
Appended(v, x) == Into(x, Append(v, x.v))
NextElem(t, r) == IF r.ok THEN Appended(r.v, DecodeFresh(t, r.d)) ELSE r
DecodeElems(t, n, r) ==
  LET after[i \in 0 .. n] == IF i = 0 THEN r ELSE NextElem(t, after[i - 1])
  IN  after[n]

\* if err != nil { return err }: the destination stays `old'.
\* Mutant: the elements are appended to those the member had.
DecodeSeqAppending(t, d, old) ==
  LET n == ReadScalar(d, 4)
  IN  IF n.ok THEN DecodeElems(t, Num(n.v), Got(n.d, old)) ELSE Into(n, old)

DecodeSeq(t, d, old) ==
  LET n == ReadScalar(d, 4)
  IN  IF n.ok THEN DecodeElems(t, Num(n.v), Got(n.d, <<>>)) ELSE Into(n, old)

NextAt(t, i, r) == IF r.ok THEN SetAt(r.v, i, DecodePart(t, r.d, r.v[i])) ELSE r
DecodeArray(t, len, d, old) ==
  LET after[i \in 0 .. len] == IF i = 0 THEN Got(d, old) ELSE NextAt(t, i, after[i - 1])
  IN  after[len]

\* A case with several labels becomes a Go `case' for each; only the last one
\* has statements, and Go does not fall through from those before it.
EmptyLabel(U, label) ==
  \E c \in 1 .. Len(Unions[U].labels) :
    \E i \in 1 .. Len(Unions[U].labels[c]) - 1 : Unions[U].labels[c][i] = label

\* The case whose labels include the discriminator; 0 is the default case.
HasLabel(U, c, label) ==
  \E i \in 1 .. Len(Unions[U].labels[c]) : Unions[U].labels[c][i] = label
CaseOf(U, label) ==
  LET cs == {c \in 1 .. Len(Unions[U].labels) : HasLabel(U, c, label)}
  IN  IF cs = {} THEN 0 ELSE CHOOSE c \in cs : TRUE

\* The value behind the discriminator.
DecodeCase(U, c, label, d, old) ==
  LET x == DecodeFresh(Unions[U].types[c], d)
      y == DecodeFresh(Unions[U].default[1], d)
  IN  IF EmptyLabel(U, label) THEN Got(d, old)
      ELSE IF c # 0 THEN Into(x, IF x.ok THEN <<c, x.v>> ELSE old)
      ELSE IF Unions[U].default = <<>> THEN Into(Failed(d), old)
      ELSE Into(y, IF y.ok THEN <<0, label, y.v>> ELSE old)

DecodeUnion(U, d, old) ==
  LET n == ReadScalar(d, 4)
  IN  IF n.ok THEN DecodeCase(U, CaseOf(U, Num(n.v)), Num(n.v), n.d, old) ELSE Into(n, old)

\* A present @optional member is decoded into a variable of its own.
DecodeNew(t, d, old) ==
  LET x == DecodeFresh(t, d) IN Into(x, IF x.ok THEN <<x.v>> ELSE old)

\* An absent @optional member leaves the destination as it is.
DecodeOptional(t, flag, old) ==
  IF flag.ok /\ flag.v # <<0>> THEN DecodeNew(t, flag.d, old) ELSE Into(flag, old)
DecodeField(f, d, old) ==
  IF f.opt THEN DecodeOptional(f.type, ReadBool(d), old) ELSE DecodePart(f.type, d, old)

NextField(S, i, r) ==
  IF r.ok THEN SetAt(r.v, i, DecodeField(Fields(S)[i], r.d, r.v[i])) ELSE r
DecodeFields(S, r) ==
  LET after[i \in 0 .. Len(Fields(S))] == IF i = 0 THEN r ELSE NextField(S, i, after[i - 1])
  IN  after[Len(Fields(S))]

\* fieldSize, from the length code and NEXTINT of a member header.
MemberSize(lc, nextInt) ==
  CASE lc < 4 -> CompactSizes[lc + 1]
    [] lc = 4 -> nextInt
    [] lc = 5 -> 4 + nextInt
    [] lc = 6 -> 4 + nextInt * 4
    [] lc = 7 -> 4 + nextInt * 8

DecodeMember(f, d, old) ==
  IF f.opt THEN DecodeNew(f.type, d, old) ELSE DecodePart(f.type, d, old)

\* Mutant: the members end where the data ends.
BodyReadToDataEnd(d, end) == Remaining(d) = 0
BodyRead(d, end) == d.pos >= end

\* A member this type knows is decoded, whatever its header h says of its
\* size; one it does not know is skipped by that size.
Known(S, id) == {i \in 1 .. Len(Fields(S)) : Fields(S)[i].id = id}
DecodeKnown(S, i, v, d) == SetAt(v, i, DecodeMember(Fields(S)[i], d, v[i]))
DecodeNext(S, v, h) ==
  IF ~h.ok THEN Into(h, v)
  ELSE IF Known(S, h.v[3]) = {} THEN Into(Skip(h.d, MemberSize(h.v[2], h.v[4])), v)
  ELSE DecodeKnown(S, CHOOSE i \in Known(S, h.v[3]) : TRUE, v, h.d)

\* for dec.Pos() < endPos: a header takes four bytes, so there are not more
\* rounds than words in the data.
NextMember(S, end, r) ==
  IF ~r.ok \/ BodyRead(r.d, end) THEN r ELSE DecodeNext(S, r.v, ReadEMHeader(r.d))
DecodeMembers(S, end, r) ==
  LET after[n \in 0 .. Len(r.d.data) \div 4] ==
        IF n = 0 THEN r ELSE NextMember(S, end, after[n - 1])
  IN  after[Len(r.d.data) \div 4]

\* What is behind the DHEADER dh.
DecodeBody(S, dh, old) ==
  IF ~dh.ok THEN Into(dh, old)
  ELSE IF Structs[S].ext = "APPENDABLE" THEN DecodeFields(S, Got(dh.d, old))
  ELSE DecodeMembers(S, dh.d.pos + Num(dh.v), Got(dh.d, old))
DecodeStruct(S, d, old) ==
  IF Structs[S].ext = "FINAL" THEN DecodeFields(S, Got(d, old))
  ELSE DecodeBody(S, ReadDHeader(d), old)

\* A scalar or string is assigned only if its read succeeded.
Assign(r, old) == IF r.ok THEN r ELSE Into(r, old)

DecodeType(t, d, old) ==
  CASE t.k = "prim"   -> Assign(ReadScalar(d, t.n), old)
    [] t.k = "string" -> Assign(ReadString(d), old)
    [] t.k = "seq"    -> DecodeSeq(t.of, d, old)
    [] t.k = "array"  -> DecodeArray(t.of, t.len, d, old)
    [] t.k = "struct" -> DecodeStruct(t.name, d, old)
    [] t.k = "union"  -> DecodeUnion(t.name, d, old)
    [] t.k = "typedef" -> DecodePart(t.of, d, old)

\* UnmarshalCDR
UnmarshalCDR(S, data, old) ==
  IF HasHeader(data) THEN DecodeStruct(S, NewDecoder(data), old)
  ELSE [d |-> NewRawDecoder(data, BE), ok |-> FALSE, v |-> old]

-----------------------------------------------------------------------------
(***************************************************************************)
(* The types and values the code is for                                    *)
(***************************************************************************)
Extensibilities == {"FINAL", "APPENDABLE", "MUTABLE"}
Places(s) == 1 .. Len(s)

\* The members of a struct have different IDs, which fit into a header.
IsField(f) ==
  /\ f.opt \in BOOLEAN
  /\ f.id \in Nat /\ f.id < MaxMemberID
  /\ IsTypePart(f.type)
IsStruct(S) ==
  /\ S \in DOMAIN Structs /\ Structs[S].ext \in Extensibilities
  /\ Len(Fields(S)) \in Nat
  /\ \A i \in Places(Fields(S)) : IsField(Fields(S)[i])
  /\ \A i, j \in Places(Fields(S)) : Fields(S)[i].id = Fields(S)[j].id => i = j

\* A case has one label, which no other has.
IsUnion(U) ==
  /\ U \in DOMAIN Unions /\ Len(Unions[U].labels) \in Nat
  /\ \A c \in Places(Unions[U].labels) :
       /\ Len(Unions[U].labels[c]) = 1 /\ FirstLabel(U, c) \in Uint32
       /\ IsTypePart(Unions[U].types[c])
  /\ \A b, c \in Places(Unions[U].labels) : FirstLabel(U, b) = FirstLabel(U, c) => b = c
  /\ Unions[U].default # <<>> => IsTypePart(Unions[U].default[1])

IsType(t) ==
  CASE t.k = "prim"   -> t.n \in {1, 2, 4, 8}
    [] t.k = "string" -> TRUE
    [] t.k = "array"  -> t.len \in Nat /\ IsTypePart(t.of)
    [] t.k = "struct" -> IsStruct(t.name)
    [] t.k = "union"  -> IsUnion(t.name)
    [] t.k \in {"seq", "typedef"} -> IsTypePart(t.of)
    [] OTHER -> FALSE

\* v is a slice, array or struct of n elements.
Holds(v, n) == DOMAIN v = 1 .. n /\ v = [i \in 1 .. n |-> v[i]]

\* Of a union the case, which has its label, or the default case with a
\* discriminator that is no case's label.
IsUnionValue(U, v) ==
  \/ v = <<>>
  \/ /\ v[1] \in Places(Unions[U].labels)
     /\ Holds(v, 2) /\ IsValuePart(Unions[U].types[v[1]], v[2])
  \/ /\ v[1] = 0 /\ Unions[U].default # <<>>
     /\ Holds(v, 3) /\ IsValuePart(Unions[U].default[1], v[3])
     /\ v[2] \in Uint32 /\ \A c \in Places(Unions[U].labels) : FirstLabel(U, c) # v[2]

IsFieldValue(f, v) ==
  IF f.opt THEN v = <<>> \/ (Holds(v, 1) /\ IsValuePart(f.type, v[1]))
  ELSE IsValuePart(f.type, v)

\* A Go value of type t, with lengths a uint32 holds.
IsValue(t, v) ==
  CASE t.k = "prim"   -> v \in Seq(Byte) /\ Len(v) = t.n
    [] t.k = "string" -> v \in Seq(Byte) /\ Len(v) + 1 \in Uint32
    [] t.k = "seq"    -> /\ Len(v) \in Uint32 /\ Holds(v, Len(v))
                         /\ \A i \in Places(v) : IsValuePart(t.of, v[i])
    [] t.k = "array"  -> Holds(v, t.len) /\ \A i \in 1 .. t.len : IsValuePart(t.of, v[i])
    [] t.k = "struct" ->
         /\ Holds(v, Len(Fields(t.name)))
         /\ \A i \in Places(Fields(t.name)) : IsFieldValue(Fields(t.name)[i], v[i])
    [] t.k = "union"  -> IsUnionValue(t.name, v)
    [] t.k = "typedef" -> IsValuePart(t.of, v)

\* What can be decoded into: arrays and structs have their elements.
Shaped(t, v) ==
  CASE t.k = "array"  -> DOMAIN v = 1 .. t.len /\ \A i \in 1 .. t.len : ShapedPart(t.of, v[i])
    [] t.k = "struct" ->
         /\ DOMAIN v = Places(Fields(t.name))
         /\ \A i \in Places(Fields(t.name)) :
              ~Fields(t.name)[i].opt => ShapedPart(Fields(t.name)[i].type, v[i])
    [] t.k = "typedef" -> ShapedPart(t.of, v)
    [] OTHER -> TRUE

-----------------------------------------------------------------------------
(***************************************************************************)
(* What the code is to do                                                  *)
(***************************************************************************)
\* A value of one version of a type and what another version should make of
\* it: members are matched by ID, and a member only one side has is not
\* compared.  An absent @optional member matches an absent one, or, if
\* `leftovers', anything.
AgreeMember(leftovers, f, v, g, x) ==
  IF ~f.opt THEN AgreePart(leftovers, f.type, v, g.type, x)
  ELSE IF v = <<>> THEN leftovers \/ x = <<>>
  ELSE x # <<>> /\ AgreePart(leftovers, f.type, v[1], g.type, x[1])
Agree(leftovers, tw, v, tr, x) ==
  CASE tw.k = "struct" ->
         \A i \in Places(Fields(tw.name)), j \in Places(Fields(tr.name)) :
           Fields(tw.name)[i].id = Fields(tr.name)[j].id =>
             AgreeMember(leftovers, Fields(tw.name)[i], v[i], Fields(tr.name)[j], x[j])
    [] tw.k \in {"seq", "array"} ->
         /\ DOMAIN v = DOMAIN x
         /\ \A i \in DOMAIN v : AgreePart(leftovers, tw.of, v[i], tr.of, x[i])
    [] tw.k = "typedef" -> AgreePart(leftovers, tw.of, v, tr.of, x)
    [] OTHER -> v = x

\* From a member header to the next, by a reader that knows no member.
PastHeader(h) == IF h.ok THEN Skip(h.d, MemberSize(h.v[2], h.v[4])) ELSE h
PastMember(end, r) == IF ~r.ok \/ r.d.pos >= end THEN r ELSE PastHeader(ReadEMHeader(r.d))
WalkHeaders(d, end) ==
  LET after[n \in 0 .. Len(d.data) \div 4] ==
        IF n = 0 THEN Got(d, <<>>) ELSE PastMember(end, after[n - 1])
      last == after[Len(d.data) \div 4]
  IN  last.ok /\ last.d.pos = end

\* The versions of a type between which values may be sent: the same, or
\* MUTABLE ones whose common members have the same types.
Compatible(S, T) ==
  /\ IsStruct(S) /\ IsStruct(T)
  /\ S # T =>
       /\ Structs[S].ext = "MUTABLE" /\ Structs[T].ext = "MUTABLE"
       /\ \A i \in Places(Fields(S)), j \in Places(Fields(T)) :
            Fields(S)[i].id = Fields(T)[j].id =>
              Fields(S)[i].opt = Fields(T)[j].opt /\ Fields(S)[i].type = Fields(T)[j].type
=============================================================================
