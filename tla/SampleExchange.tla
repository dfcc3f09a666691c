--------------------------- MODULE SampleExchange ---------------------------
(***************************************************************************)
(* A publisher that marshals samples of one generated type and a           *)
(* subscriber that unmarshals them as another: the same type, or the type  *)
(* another version of the IDL generated.  The subscriber unmarshals into a *)
(* new object, or into the one it used for the sample before.  The         *)
(* transport (not part of the repository) may cut a payload short or lose  *)
(* it.  The types of the members of what is sent are those of the ...Part   *)
(* operators of TypeCodec, of whatever depth.                              *)
(***************************************************************************)
EXTENDS TypeCodec

CONSTANTS
  Pairs,        \* <<type of the publisher, type of the subscriber>>
  Samples,      \* type -> the values published
  Orders,       \* native byte orders of publishers
  MaxPayload,   \* bound: payloads longer than this are not cut behind it
  MaxFaults,    \* bound: payloads cut or lost
  MaxSamples    \* bound: samples published

ASSUME ExchangeAssumption ==
  /\ \A p \in Pairs : p[1] \in DOMAIN Structs /\ p[2] \in DOMAIN Structs
  /\ Orders \subseteq ByteOrders
  /\ MaxPayload \in Nat /\ MaxFaults \in Nat
  /\ MaxSamples \in Nat

\* What the guarantees below rest on: the versions of a type that meet may be
\* mixed, the values are of the type, and their payloads have a length that the
\* sizes in them can be.
AllCompatible == \A p \in Pairs : Compatible(p[1], p[2])
SamplesTyped == \A p \in Pairs : \A v \in Samples[p[1]] : IsValue(StructRef(p[1]), v)
PayloadsFit ==
  \A p \in Pairs : \A v \in Samples[p[1]], o \in Orders :
    Encodable(StructRef(p[1]), v) => Len(MarshalCDR(p[1], v, o)) \in Uint32

VARIABLES
  types,        \* the pair in use
  order,        \* the publisher's native byte order
  published,    \* number of samples marshalled
  faults,       \* number of payloads cut or lost
  wire,         \* payload under way: <<>>, or <<[data, v, whole]>>
  dest,         \* the subscriber's object
  took          \* history of the last UnmarshalCDR: <<>>, or
                \* <<[ok, v, whole, fresh, left]>>

vars == <<types, order, published, faults, wire, dest, took>>

W == types[1]
R == types[2]

Init ==
  /\ types \in Pairs
  /\ order \in Orders
  /\ published = 0 /\ faults = 0
  /\ wire = <<>>
  /\ dest = Zero(StructRef(R))
  /\ took = <<>>

\* MarshalCDR, which returns an error and no bytes for a union without a value.
Publish(v) ==
  /\ wire = <<>>
  /\ published < MaxSamples
  /\ published' = published + 1
  /\ wire' = IF Encodable(StructRef(W), v)
             THEN <<[data |-> MarshalCDR(W, v, order), v |-> v, whole |-> TRUE]>>
             ELSE <<>>
  /\ took' = <<>>
  /\ UNCHANGED <<types, order, faults, dest>>

Fault == faults < MaxFaults /\ faults' = faults + 1

CutShort(n) ==
  /\ wire # <<>> /\ wire[1].whole
  /\ Fault
  /\ n < Len(wire[1].data)
  /\ wire' = <<[wire[1] EXCEPT !.data = SubSeq(@, 1, n), !.whole = FALSE]>>
  /\ UNCHANGED <<types, order, published, dest, took>>

Lose ==
  /\ wire # <<>>
  /\ Fault
  /\ wire' = <<>>
  /\ UNCHANGED <<types, order, published, dest, took>>

\* UnmarshalCDR into a new object or into the last one.
Take(fresh) ==
  /\ wire # <<>>
  /\ LET before == IF fresh THEN Zero(StructRef(R)) ELSE dest
         r      == UnmarshalCDR(R, wire[1].data, before)
     IN  /\ dest' = r.v
         /\ took' = <<[ok |-> r.ok, v |-> wire[1].v, whole |-> wire[1].whole,
                       fresh |-> fresh, left |-> Remaining(r.d)]>>
  /\ wire' = <<>>
  /\ UNCHANGED <<types, order, published, faults>>

Done ==
  /\ wire = <<>> /\ published = MaxSamples
  /\ UNCHANGED vars

Next ==
  \/ \E v \in Samples[W] : Publish(v)
  \/ \E n \in 0 .. MaxPayload : CutShort(n)
  \/ Lose
  \/ \E fresh \in BOOLEAN : Take(fresh)
  \/ Done

Spec == Init /\ [][Next]_vars

-----------------------------------------------------------------------------
(***************************************************************************)
(* Properties                                                              *)
(***************************************************************************)
AgreesWithSample(t) == Agree(FALSE, StructRef(W), t.v, StructRef(R), dest)

\* Whatever sample was published, the new object unmarshalled from it has its
\* members, nested, optional, sequences and unions included, wherever padding,
\* presence flags and member headers put them.
SampleArrives ==
  \A i \in DOMAIN took :
    took[i].ok /\ took[i].whole /\ took[i].fresh => AgreesWithSample(took[i])

\* A payload is accepted just if it arrived whole, and then decoding uses up
\* what encoding produced.  One that lost its tail is refused wherever it was
\* cut, so no object mixes decoded members and left-overs without an error.
AcceptedJustIfWhole ==
  \A i \in DOMAIN took :
    /\ took[i].ok <=> took[i].whole
    /\ took[i].ok => took[i].left = 0

\* The members of a MUTABLE payload can be found from the headers alone, by a
\* reader that knows none of them: the sizes lead from each header to the next
\* and from the last one to the end.
HeadersTilePayload ==
  wire # <<>> /\ wire[1].whole /\ Structs[W].ext = "MUTABLE" =>
    LET dh == ReadDHeader(NewDecoder(wire[1].data))
    IN  /\ dh.d.pos + Num(dh.v) = Len(wire[1].data)
        /\ WalkHeaders(dh.d, Len(wire[1].data))

\* docs/dds_specification.md: "Fields may be added, removed, or reordered" in
\* MUTABLE types and "New fields may be appended at the end" of APPENDABLE
\* ones.  A subscriber with another version of the type accepts the sample and
\* gets the members both versions have.
EvolutionKeepsMembers ==
  \A i \in DOMAIN took :
    took[i].whole /\ took[i].fresh => took[i].ok /\ AgreesWithSample(took[i])

\* Also an object that was used for a sample before, or was left half decoded
\* by a payload that was refused, has every member that a sample of the same
\* type brings: no sequence keeps elements, no union its case.  (Members the
\* sample lacks keep what the object had; see README.md.)
PresentMembersShown ==
  \A i \in DOMAIN took :
    W = R /\ took[i].ok /\ took[i].whole =>
      Agree(TRUE, StructRef(W), took[i].v, StructRef(R), dest)
=============================================================================
