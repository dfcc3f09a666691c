------------------------------- MODULE CdrWire -------------------------------
(***************************************************************************)
(* A writer's Encoder, the payload on its way, and a reader's Decoder: one *)
(* message of MarshalCDR and UnmarshalCDR.  The writer makes any calls, in *)
(* any order and with DHEADERs nested in any way; the reader makes the     *)
(* matching calls, as the code generated from the same IDL does.  The      *)
(* payload may arrive cut off.                                             *)
(***************************************************************************)
EXTENDS CdrOps, FiniteSets

CONSTANTS
  Kinds, Scalars, Strings, Raws, Members, Sizes,      \* see CdrEncoder
  MaxItems,     \* bound: calls of the writer
  MaxDepth      \* bound: open DHEADERs

ASSUME WireAssumption ==
  /\ Kinds \subseteq EncapsulationKinds
  /\ \A w \in Scalars : w \in Seq(Byte) /\ Len(w) \in {1, 2, 4, 8}
  /\ \A s \in Strings : s \in Seq(Byte) /\ Len(s) + 1 \in Uint32
  /\ Raws \subseteq Seq(Byte)
  /\ Members \subseteq 0 .. MaxMemberID - 1
  /\ Sizes \subseteq Uint32
  /\ MaxItems \in Nat
  /\ MaxDepth \in Nat

VARIABLES
  enc, open, bodies,       \* the writer: see CdrEncoder
  dec, ret,                \* the reader: see CdrDecoder; NoDecoder before
  framed,                  \* whether the payload has an encapsulation header
  script,                  \* history: the calls of the writer, [call, v]
  slots,                   \* history: the script index of each open DHEADER
  got,                     \* the values the reader has read
  phase                    \* "write", "read" or "failed"

writer == <<enc, open, bodies, script, slots>>
reader == <<dec, ret, got>>
vars == <<enc, open, bodies, dec, ret, framed, script, slots, got, phase>>

W == INSTANCE CdrEncoder WITH MaxLen <- 2147483647
R == INSTANCE CdrDecoder WITH Inputs <- {}, Skips <- {}

NoDecoder == [data |-> <<>>, pos |-> 0, order |-> enc.order]

Init ==
  /\ W!Init
  /\ framed = (enc.buf # <<>>)
  /\ dec = NoDecoder
  /\ ret = R!Aligned
  /\ script = <<>>
  /\ slots = <<>>
  /\ got = <<>>
  /\ phase = "write"

-----------------------------------------------------------------------------
(***************************************************************************)
(* The writer                                                              *)
(***************************************************************************)
Record(call, v) ==
  /\ phase = "write"
  /\ Len(script) < MaxItems
  /\ script' = Append(script, [call |-> call, v |-> v])
  /\ UNCHANGED <<slots, reader, framed, phase>>

WriteS(w) == W!Scalar(w) /\ Record("scalar", w)
WriteB(b) == W!Bool(b) /\ Record("bool", b)
WriteStr(s) == W!String(s) /\ Record("string", s)

MemberValue(m, id, size) ==
  <<m, LengthCode(size), id, IF LengthCode(size) = 4 THEN size ELSE 0>>
WriteMember(m, id, size) ==
  W!MemberHeader(m, id, size) /\ Record("member", MemberValue(m, id, size))

\* Raw bytes are a member's body, which the reader skips when it does not
\* know the member.
WriteBytes(bytes) == W!Raw(bytes) /\ Record("raw", bytes)

BeginBody ==
  /\ phase = "write"
  /\ Len(script) < MaxItems
  /\ W!Begin
  /\ script' = Append(script, [call |-> "dheader", v |-> Word(0)])
  /\ slots' = Append(slots, Len(script) + 1)
  /\ UNCHANGED <<reader, framed, phase>>

FinishBody ==
  /\ phase = "write"
  /\ W!Finish
  /\ script' = [script EXCEPT ![slots[Len(slots)]].v =
                  Word(enc.pos - open[Len(open)] - 4)]
  /\ slots' = SubSeq(slots, 1, Len(slots) - 1)
  /\ UNCHANGED <<reader, framed, phase>>

-----------------------------------------------------------------------------
(***************************************************************************)
(* The payload: the first n bytes of enc.Bytes() reach the reader.         *)
(***************************************************************************)
DeliverTo(data) ==
  IF framed
  THEN IF HasHeader(data)
       THEN dec' = NewDecoder(data) /\ phase' = "read"
       ELSE UNCHANGED dec /\ phase' = "failed"
  ELSE dec' = NewRawDecoder(data, enc.order) /\ phase' = "read"

Deliver(n) ==
  /\ phase = "write" /\ open = <<>> /\ script # <<>>
  /\ DeliverTo(SubSeq(enc.buf, 1, n))
  /\ UNCHANGED <<writer, ret, framed, got>>

-----------------------------------------------------------------------------
(***************************************************************************)
(* The reader: the call that matches the writer's next one.                *)
(***************************************************************************)
NextItem == script[Len(got) + 1]

Matching(item) ==
  \/ item.call = "scalar" /\ R!ReturnScalar(Len(item.v))
  \/ item.call = "bool" /\ R!ReturnBool
  \/ item.call = "string" /\ R!ReturnString
  \/ item.call = "member" /\ R!ReturnMemberHeader
  \/ item.call = "dheader" /\ R!ReturnDHeader
  \/ item.call = "raw" /\ R!SkipBytes(Len(item.v))

\* Skip returns nothing: the skipped bytes count as received.
ReadNext ==
  /\ phase = "read"
  /\ Len(got) < Len(script)
  /\ Matching(NextItem)
  /\ IF ret'.ok
     THEN /\ got' = Append(got, IF NextItem.call = "raw" THEN NextItem.v ELSE ret'.v)
          /\ UNCHANGED phase
     ELSE phase' = "failed" /\ UNCHANGED got
  /\ UNCHANGED <<writer, framed>>

Done ==
  /\ \/ phase = "failed"
     \/ phase = "read" /\ Len(got) = Len(script)
  /\ UNCHANGED vars

Next ==
  \/ \E w \in Scalars : WriteS(w)
  \/ \E b \in Booleans : WriteB(b)
  \/ \E s \in Strings : WriteStr(s)
  \/ \E m \in {0, 1}, id \in Members, size \in Sizes : WriteMember(m, id, size)
  \/ \E bytes \in Raws : WriteBytes(bytes)
  \/ BeginBody
  \/ FinishBody
  \/ \E n \in 0 .. Len(enc.buf) : Deliver(n)
  \/ ReadNext
  \/ Done

Spec == Init /\ [][Next]_vars

-----------------------------------------------------------------------------
(***************************************************************************)
(* Properties                                                              *)
(***************************************************************************)
Whole == dec.data = enc.buf
Values == [i \in 1 .. Len(script) |-> script[i].v]

Channel == INSTANCE ValueChannel WITH
  sent   <- IF phase = "write" THEN <<>> ELSE Values,
  whole  <- (phase = "write" \/ Whole),
  rcvd   <- got,
  broken <- phase = "failed"

\* Encoder and Decoder together are a channel of values: alignment, byte
\* order, lengths, nested DHEADERs and compact member headers all cancel out,
\* and a payload cut off anywhere costs a tail of the values, never a value.
ImplementsChannel == Channel!Spec

\* The reader's cursor follows the writer's: at the header of a body it stands
\* 4 bytes before what the writer recorded as the body's start, with the size
\* that skips the body, and behind the last value it has used up the payload.
CursorsMeet ==
  phase = "read" =>
    IF Len(got) = Len(script)
    THEN Whole => dec.pos = enc.pos
    ELSE NextItem.call = "dheader" =>
           \E b \in bodies :
             /\ b.start = dec.pos + Pad(dec.pos, 4)
             /\ NextItem.v = Word(b.end - b.start - 4)
=============================================================================
