----------------------------- MODULE CdrDecoder -----------------------------
(***************************************************************************)
(* One cdr.Decoder over bytes it did not choose.  The caller may read      *)
(* anything next: what an evolved or damaged payload makes of the calls is *)
(* covered by letting every call follow every other, also after a failure. *)
(***************************************************************************)
EXTENDS CdrOps

CONSTANTS
  Inputs,       \* byte sequences handed to the constructors
  Skips         \* arguments of Skip: the field sizes of unknown members

ASSUME DecoderAssumption ==
  /\ Inputs \subseteq Seq(Byte)
  /\ Skips \subseteq Nat

VARIABLES
  dec,          \* the Decoder: [data, pos, order]
  ret           \* the last call and its result: [call, ok, v]

decoderVars == <<dec, ret>>

Aligned == [call |-> "align", ok |-> TRUE, v |-> <<>>]

DecoderTypeOK ==
  /\ dec \in [data : Seq(Byte), pos : Nat, order : ByteOrders]
  /\ ret.call \in {"read", "skip", "align"}
  /\ ret.ok \in BOOLEAN

\* A short or unknown header yields an error and no decoder to use.
DInit ==
  /\ \E data \in Inputs :
       \/ HasHeader(data) /\ dec = NewDecoder(data)
       \/ \E order \in ByteOrders : dec = NewRawDecoder(data, order)
  /\ ret = Aligned

Return(r) ==
  /\ dec' = r.d
  /\ ret' = [call |-> "read", ok |-> r.ok, v |-> r.v]

ReturnScalar(n) == Return(ReadScalar(dec, n))
ReturnBool == Return(ReadBool(dec))
ReturnString == Return(ReadString(dec))
ReturnDHeader == Return(ReadDHeader(dec))
ReturnMemberHeader == Return(ReadEMHeader(dec))

SkipBytes(n) ==
  /\ dec' = Skip(dec, n).d
  /\ ret' = [call |-> "skip", ok |-> Skip(dec, n).ok, v |-> <<>>]

AlignTo(n) ==
  /\ dec' = DecAlign(dec, n)
  /\ ret' = Aligned

DNext ==
  \/ \E n \in {1, 2, 4, 8} : ReturnScalar(n)
  \/ ReturnBool
  \/ ReturnString
  \/ ReturnDHeader
  \/ ReturnMemberHeader
  \/ \E n \in Skips : SkipBytes(n)
  \/ \E n \in {1, 2, 4, 8} : AlignTo(n)

DSpec == DInit /\ [][DNext]_decoderVars

-----------------------------------------------------------------------------
(***************************************************************************)
(* Properties                                                              *)
(***************************************************************************)

\* Alignment may carry the cursor past the data, which Remaining hides, but
\* never beyond the next 4-byte boundary, however many calls fail after that.
CursorBounded == dec.pos <= Len(dec.data) + Pad(Len(dec.data), 4)

\* A read or skip that succeeds took only bytes that are there: no length,
\* header or alignment found in the data leads it beyond the end.
ReadsStayInside ==
  [][ret'.call # "align" /\ ret'.ok => dec'.pos <= Len(dec.data)]_decoderVars

\* Every read that succeeds consumes at least one byte, an empty string and a
\* member header included, so a loop over reads ends with the data.
ReadsMakeProgress ==
  [][ret'.call = "read" /\ ret'.ok => dec'.pos > dec.pos]_decoderVars
=============================================================================
