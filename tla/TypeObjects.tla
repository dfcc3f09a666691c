---------------------------- MODULE TypeObjects ----------------------------
(***************************************************************************)
(* internal/xtypes/serialize.go: the layout of type identifiers, type      *)
(* objects and type information, as the calls of a little-endian encoder   *)
(* that write them, one after the other.                                   *)
(*                                                                         *)
(* An item is such a call: a scalar, raw bytes or a string to be written,  *)
(* or a BeginDHeader or FinishDHeader.  A member is a record               *)
(* [id, flags, labels, name, tid], with the items of its type identifier.  *)
(***************************************************************************)
EXTENDS CdrOps, SequencesExt

CONSTANTS
  Text,          \* name -> its bytes
  NameHash       \* name -> the first four bytes of its MD5

U8(n)  == <<"scalar", <<n % 256>>>>
U16(n) == <<"scalar", <<n \div 256, n % 256>>>>
U32(n) == <<"scalar", Word(n)>>
Raw(bytes) == <<"raw", bytes>>
String(bytes) == <<"string", bytes>>
Begin == <<"begin", <<>>>>
Finish == <<"finish", <<>>>>
Absent == <<U8(0), U8(0)>>             \* ann_builtin, ann_custom

\* A writer has an encoder, and where the DHEADERs start that are not finished.
Writer(e, starts) == [starts |-> starts, enc |-> e]

WriteItem(w, item) ==
  CASE item[1] = "scalar" -> [w EXCEPT !.enc = WriteScalar(@, item[2])]
    [] item[1] = "raw"    -> [w EXCEPT !.enc = WriteRaw(@, item[2])]
    [] item[1] = "string" -> [w EXCEPT !.enc = WriteString(@, item[2])]
    [] item[1] = "begin"  -> Writer(BeginDHeader(w.enc), Append(w.starts, DHeaderStart(w.enc)))
    [] item[1] = "finish" -> Writer(FinishDHeader(w.enc, Last(w.starts)), Front(w.starts))

\* w after the first i items.
WriteItems(w, items) ==
  LET after[i \in 0 .. Len(items)] ==
        IF i = 0 THEN w ELSE WriteItem(after[i - 1], items[i])
  IN  after[Len(items)]

Serialize(items) == WriteItems(Writer(NewRawEncoder(LE), <<>>), items).enc.buf

Delimited(items) == <<Begin>> \o items \o <<Finish>>

\* A sequence whose elements are delimited is delimited itself.  An element is
\* given by its items.
DelimitedSeq(elems) == Delimited(<<U32(Len(elems))>> \o FlattenSeq(elems))

-----------------------------------------------------------------------------
(***************************************************************************)
(* Type identifiers                                                        *)
(***************************************************************************)
MINIMAL  == 241
COMPLETE == 242
BOTH     == 243

PrimitiveTID(kind) == <<U8(kind)>>
HashTID(kind, hash) == <<U8(kind), Raw(hash)>>

StringTID(bound) ==
  IF bound <= 255 THEN <<U8(112), U8(bound)>> ELSE <<U8(113), U32(bound)>>

IsFullyDescriptive(tid) == tid[1][2][1] <= 115
EquivKind(elem, kind) == IF IsFullyDescriptive(elem) THEN BOTH ELSE kind

\* The header of a plain collection, with TRY_CONSTRUCT1 for the elements.
Header(elem, kind) == <<U8(EquivKind(elem, kind)), U16(1)>>

SequenceTID(bound, elem, kind) ==
  (IF bound <= 255 THEN <<U8(128)>> \o Header(elem, kind) \o <<U8(bound)>>
                   ELSE <<U8(129)>> \o Header(elem, kind) \o <<U32(bound)>>) \o elem

\* One dimension.
ArrayTID(size, elem, kind) ==
  (IF size <= 255 THEN <<U8(144)>> \o Header(elem, kind) \o <<U32(1), U8(size)>>
                  ELSE <<U8(145)>> \o Header(elem, kind) \o <<U32(1), U32(size)>>) \o elem

-----------------------------------------------------------------------------
(***************************************************************************)
(* Type objects                                                            *)
(***************************************************************************)
MinimalMemberDetail(name)  == <<Raw(NameHash[name])>>
CompleteMemberDetail(name) == <<String(Text[name])>> \o Absent
CompleteTypeDetail(name)   == Absent \o <<String(name)>>

Members(ms, Member(_)) == DelimitedSeq([i \in DOMAIN ms |-> Member(ms[i])])

MinimalStructMember(m) ==
  Delimited(<<U32(m.id), U16(m.flags)>> \o m.tid \o MinimalMemberDetail(m.name))
CompleteStructMember(m) ==
  Delimited(<<U32(m.id), U16(m.flags)>> \o m.tid \o CompleteMemberDetail(m.name))

\* No type has a base type: TK_NONE.
MinimalStructType(flags, ms) ==
  <<U8(81), U16(flags)>> \o Delimited(PrimitiveTID(0)) \o Members(ms, MinimalStructMember)
CompleteStructType(flags, name, ms) ==
  <<U8(81), U16(flags)>> \o Delimited(PrimitiveTID(0) \o CompleteTypeDetail(name))
    \o Members(ms, CompleteStructMember)

CommonUnionMember(m) ==
  <<U32(m.id), U16(m.flags)>> \o m.tid
    \o <<U32(Len(m.labels))>> \o [i \in DOMAIN m.labels |-> U32(m.labels[i])]
MinimalUnionMember(m)  == Delimited(CommonUnionMember(m) \o MinimalMemberDetail(m.name))
CompleteUnionMember(m) == Delimited(CommonUnionMember(m) \o CompleteMemberDetail(m.name))

\* The discriminator comes first among the members.
MinimalUnionType(flags, ms) ==
  <<U8(82), U16(flags)>> \o Delimited(<<>>) \o Delimited(<<U16(1)>> \o ms[1].tid)
    \o Members(Tail(ms), MinimalUnionMember)
CompleteUnionType(flags, name, ms) ==
  <<U8(82), U16(flags)>> \o Delimited(CompleteTypeDetail(name))
    \o Delimited(<<U16(1)>> \o ms[1].tid \o Absent) \o Members(Tail(ms), CompleteUnionMember)

\* A literal is [value, flags, name].
CommonEnumLiteral(l) == Delimited(<<U32(l.value), U16(l.flags)>>)
MinimalEnumLiteral(l)  == Delimited(CommonEnumLiteral(l) \o MinimalMemberDetail(l.name))
CompleteEnumLiteral(l) == Delimited(CommonEnumLiteral(l) \o CompleteMemberDetail(l.name))

MinimalEnumType(ls) ==
  <<U8(64), U16(1)>> \o Delimited(<<U16(32)>>) \o Members(ls, MinimalEnumLiteral)
CompleteEnumType(name, ls) ==
  <<U8(64), U16(1)>> \o Delimited(<<U16(32)>> \o CompleteTypeDetail(name))
    \o Members(ls, CompleteEnumLiteral)

\* Mutant: both kinds are labelled as minimal.
SerializeTypeObjectMinimal(kind, content) == Serialize(Delimited(<<U8(MINIMAL)>> \o content))

SerializeTypeObject(kind, content) == Serialize(Delimited(<<U8(kind)>> \o content))

-----------------------------------------------------------------------------
(***************************************************************************)
(* Type information.  An entry is [hash, size] of a type object.           *)
(***************************************************************************)
TypeIdWithSize(kind, entry) ==
  Delimited(HashTID(kind, entry.hash) \o <<U32(entry.size)>>)

TypeIdWithDeps(kind, entry, deps) ==
  Delimited(TypeIdWithSize(kind, entry) \o <<U32(Len(deps))>>
            \o DelimitedSeq([i \in DOMAIN deps |-> TypeIdWithSize(kind, deps[i])]))

\* Mutant: length code 5, with which the size is counted again.
MutableMemberShared(id, items) == <<<<"scalar", EMWord(0, 5, id)>>>> \o Delimited(items)

\* The size behind the member header is written like a DHEADER.
MutableMember(id, items) == <<<<"scalar", EMWord(0, 4, id)>>>> \o Delimited(items)

MinimalID  == 4097
CompleteID == 4098

SerializeTypeInformation(min, minDeps, comp, compDeps) ==
  Serialize(Delimited(MutableMember(MinimalID, TypeIdWithDeps(MINIMAL, min, minDeps))
                      \o MutableMember(CompleteID, TypeIdWithDeps(COMPLETE, comp, compDeps))))
=============================================================================
