----------------------------- MODULE CdrEncoder -----------------------------
(***************************************************************************)
(* One cdr.Encoder and the EncodeCDR calls that use it.  A generated       *)
(* EncodeCDR of an APPENDABLE or MUTABLE type begins a DHEADER, writes its *)
(* members, which may be structs that do the same, and finishes its        *)
(* DHEADER; the start positions live in the Go call stack, here `open'.    *)
(* An EncodeCDR that fails (a union without a value) returns through all   *)
(* its callers, which finish no header.                                    *)
(***************************************************************************)
EXTENDS CdrOps, FiniteSets

CONSTANTS
  Kinds,        \* encapsulation kinds of the messages
  Scalars,      \* scalar values written, as byte sequences, most significant first
  Strings,      \* strings written, as byte sequences
  Raws,         \* byte slices handed to Write
  Members,      \* member IDs handed to WriteEMHeader
  Sizes,        \* data sizes handed to WriteEMHeader
  MaxLen,       \* bound: no operation starts at or beyond this position
  MaxDepth      \* bound: open DHEADERs

ASSUME EncoderAssumption ==
  /\ Kinds \subseteq EncapsulationKinds
  /\ \A w \in Scalars : w \in Seq(Byte) /\ Len(w) \in {1, 2, 4, 8}
  /\ Strings \subseteq Seq(Byte)
  /\ Raws \subseteq Seq(Byte)
  /\ Members \subseteq Nat
  /\ Sizes \subseteq Nat
  /\ MaxLen \in Nat
  /\ MaxDepth \in Nat

VARIABLES
  enc,          \* the Encoder: [buf, pos, order]
  open,         \* start positions of the DHEADERs begun and not finished
  bodies        \* history: the [start, end] of every finished DHEADER

vars == <<enc, open, bodies>>

TypeOK ==
  /\ enc \in [buf : Seq(Byte), pos : Nat, order : ByteOrders]
  /\ open \in Seq(Nat)
  /\ bodies \subseteq [start : Nat, end : Nat]

Init ==
  /\ \/ \E kind \in Kinds : enc = NewEncoder(kind)
     \/ \E order \in ByteOrders : enc = NewRawEncoder(order)
  /\ open = <<>>
  /\ bodies = {}

Room == enc.pos < MaxLen

Scalar(w) ==
  /\ Room
  /\ enc' = WriteScalar(enc, w)
  /\ UNCHANGED <<open, bodies>>

Bool(b) ==
  /\ Room
  /\ enc' = WriteBool(enc, b)
  /\ UNCHANGED <<open, bodies>>

String(s) ==
  /\ Room
  /\ enc' = WriteString(enc, s)
  /\ UNCHANGED <<open, bodies>>

Raw(bytes) ==
  /\ Room
  /\ enc' = WriteRaw(enc, bytes)
  /\ UNCHANGED <<open, bodies>>

MemberHeader(m, id, size) ==
  /\ Room
  /\ enc' = WriteEMHeader(enc, m, id, size)
  /\ UNCHANGED <<open, bodies>>

\* dh := enc.BeginDHeader()
Begin ==
  /\ Room
  /\ Len(open) < MaxDepth
  /\ enc' = BeginDHeader(enc)
  /\ open' = Append(open, DHeaderStart(enc))
  /\ UNCHANGED bodies

\* Mutant: the outermost header is finished first.
FinishOutermost ==
  /\ open # <<>>
  /\ LET start == open[1]
     IN  /\ enc' = FinishDHeader(enc, start)
         /\ bodies' = bodies \cup {[start |-> start, end |-> enc.pos]}
  /\ open' = SubSeq(open, 1, Len(open) - 1)

\* enc.FinishDHeader(dh), as the innermost EncodeCDR returns
Finish ==
  /\ open # <<>>
  /\ LET start == open[Len(open)]
     IN  /\ enc' = FinishDHeader(enc, start)
         /\ bodies' = bodies \cup {[start |-> start, end |-> enc.pos]}
  /\ open' = SubSeq(open, 1, Len(open) - 1)

\* The error return of a nested EncodeCDR unwinds every caller.
Unwind ==
  /\ open # <<>>
  /\ open' = <<>>
  /\ UNCHANGED <<enc, bodies>>

\* The owner of the encoder resets it between two messages.
ResetEncoder ==
  /\ open = <<>>
  /\ enc' = Reset(enc)
  /\ bodies' = {}
  /\ UNCHANGED open

Next ==
  \/ \E w \in Scalars : Scalar(w)
  \/ \E b \in Booleans : Bool(b)
  \/ \E s \in Strings : String(s)
  \/ \E bytes \in Raws : Raw(bytes)
  \/ \E m \in {0, 1}, id \in Members, size \in Sizes : MemberHeader(m, id, size)
  \/ Begin
  \/ Finish
  \/ Unwind
  \/ ResetEncoder

Spec == Init /\ [][Next]_vars

-----------------------------------------------------------------------------
(***************************************************************************)
(* Properties                                                              *)
(***************************************************************************)

\* pos, which decides every alignment and every DHEADER value, is the length
\* of the buffer whatever mix of aligned, raw and string writes came before.
PosIsLength == enc.pos = Len(enc.buf)

\* The headers the call stack still has to patch lie in the buffer, aligned,
\* one after the other: finishing one overwrites its own placeholder only.
OpenHeadersInBuffer ==
  \A i \in 1 .. Len(open) :
    /\ open[i] % 4 = 0
    /\ open[i] + 4 <= Len(enc.buf)
    /\ \A j \in 1 .. i - 1 : open[j] + 4 <= open[i]

\* What a reader finds in a finished DHEADER is the number of bytes its body
\* took, and stays so while enclosing headers are patched and data follows.
DHeadersDelimitBodies ==
  \A b \in bodies :
    /\ b.start + 4 <= b.end
    /\ b.end <= Len(enc.buf)
    /\ Get(enc.order, Slice(enc.buf, b.start, b.start + 4))
         = Word(b.end - b.start - 4)

\* Two delimited bodies are disjoint or one encloses the other with its
\* header, so a reader that skips an outer body skips its inner ones.
BodiesNest ==
  \A a, b \in bodies :
    a # b => \/ a.end <= b.start
             \/ b.end <= a.start
             \/ a.start + 4 <= b.start /\ b.end <= a.end
             \/ b.start + 4 <= a.start /\ a.end <= b.end

\* A byte that left the encoder for good is never rewritten: until Reset, the
\* only bytes a step may change are those of a header that is still open.
RewritesOpenHeadersOnly ==
  \/ enc'.buf = <<>>
  \/ /\ Len(enc'.buf) >= Len(enc.buf)
     /\ \A i \in 1 .. Len(enc.buf) :
          \/ enc'.buf[i] = enc.buf[i]
          \/ \E j \in 1 .. Len(open) : i \in open[j] + 1 .. open[j] + 4

OnlyOpenHeadersRewritten == [][RewritesOpenHeadersOnly]_vars
=============================================================================
