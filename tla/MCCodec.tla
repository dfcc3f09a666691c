------------------------------- MODULE MCCodec -------------------------------
(* The codecs of an IDL file whose types are at most five levels deep, and   *)
(* the notation of its types.                                                *)
EXTENDS TypeCodec

\* What is sent is of level 4 at most: its members are types of level 3.
\* The results have names, as TLC's statistics of coverage, which follow an
\* expression that stands for a constant, would not come back from GenCodec.
Deep == INSTANCE GenCodec
EncodePart3(t, v, e) == LET after == Deep!L3!EncodeType(t, v, e) IN after
DecodePart3(t, d, old) == LET after == Deep!L3!DecodeType(t, d, old) IN after
ZeroPart3(t) == LET zero == Deep!L3!Zero(t) IN zero
EncodablePart3(t, v) == LET holds == Deep!L3!Encodable(t, v) IN holds
IsTypePart3(t) == LET holds == Deep!L3!IsType(t) IN holds
IsValuePart3(t, v) == LET holds == Deep!L3!IsValue(t, v) IN holds
ShapedPart3(t, v) == LET holds == Deep!L3!Shaped(t, v) IN holds
AgreePart3(leftovers, tw, v, tr, x) == LET holds == Deep!L3!Agree(leftovers, tw, v, tr, x) IN holds

prim(n) == [k |-> "prim", n |-> n]
str == [k |-> "string"]
seq(t) == [k |-> "seq", of |-> t]
arr(n, t) == [k |-> "array", len |-> n, of |-> t]
ref(S) == [k |-> "struct", name |-> S]
named(t) == [k |-> "typedef", of |-> t]
uni(U) == [k |-> "union", name |-> U]

req(i, t) == [id |-> i, opt |-> FALSE, type |-> t]
opt(i, t) == [id |-> i, opt |-> TRUE, type |-> t]

struct(e, fs) == [ext |-> e, fields |-> fs]
==============================================================================
