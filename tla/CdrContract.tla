----------------------------- MODULE CdrContract -----------------------------
(***************************************************************************)
(* What calls of cdr.Encoder and cdr.Decoder promise one another: the      *)
(* vocabulary of the proofs.                                               *)
(***************************************************************************)
EXTENDS CdrOps

Encoders == [buf : Seq(Byte), pos : Nat, order : ByteOrders]

\* r is e with bytes added behind those it had, and pos kept in step.
Extends(e, r) ==
  /\ r \in Encoders
  /\ r.order = e.order
  /\ r.pos = Len(r.buf)
  /\ Len(e.buf) <= Len(r.buf)
  /\ \A i \in 1 .. Len(e.buf) : r.buf[i] = e.buf[i]

-----------------------------------------------------------------------------
Decoders == [data : Seq(Byte), pos : Nat, order : ByteOrders]

\* The boundary no cursor passes.
Bound(data) == Len(data) + Pad(Len(data), 4)

\* The decoder d with its cursor at p.
At(d, p) == [data |-> d.data, pos |-> p, order |-> d.order]

-----------------------------------------------------------------------------
\* An encoder that writes behind all it wrote.
Full(e) == e \in Encoders /\ e.pos = Len(e.buf)

\* Where what took e to f ends, if it starts at d.
End(e, f, d) == d.pos + (f.pos - e.pos)

\* From d on, the data is what took e to f, as far as there is data.  It need
\* not start where e did, only as far from a word.
Shows(e, f, d) ==
  /\ d \in Decoders /\ d.order = e.order
  /\ d.pos % 4 = e.pos % 4 /\ d.pos <= Len(d.data)
  /\ \A i \in 1 .. f.pos - e.pos :
       d.pos + i <= Len(d.data) => d.data[d.pos + i] = f.buf[e.pos + i]

\* r succeeds just if all that took e to f is there, and is then behind it.
Shown(e, f, d, r) ==
  /\ r.ok \in BOOLEAN
  /\ r.ok <=> End(e, f, d) <= Len(d.data)
  /\ r.ok => r.d = At(d, End(e, f, d))
=============================================================================
