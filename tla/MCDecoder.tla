------------------------------ MODULE MCDecoder ------------------------------
(* All inputs up to six bytes over a sample that makes empty, short, exact   *)
(* and huge lengths, compact and NEXTINT length codes (64 is LC 4), and both *)
(* byte orders' encapsulation kinds; and longer ones for the 8-byte reads.   *)
EXTENDS CdrDecoder

Sample == {0, 1, 2, 64}
MCInputs ==
  UNION {[1 .. n -> Sample] : n \in 0 .. 5}
    \cup {<<0, k>> \o s : k \in {6, 7}, s \in [1 .. 6 -> {0, 1, 127}]}
    \cup {<<0, 9, 0, 0>> \o s : s \in [1 .. 7 -> {0, 64}]}
MCSkips == {0, 1, 4, 1073741824}
=============================================================================
