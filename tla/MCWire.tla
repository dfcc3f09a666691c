------------------------------- MODULE MCWire -------------------------------
(* A scalar of each aligned width, the empty and a one-byte string, member   *)
(* headers with a compact size and with NEXTINT, and raw bytes of an odd     *)
(* number, so that every value can meet every misalignment.                  *)
EXTENDS CdrWire

MCScalars == {<<1, 2>>, <<1, 2, 3, 4, 5, 6, 7, 8>>}
MCStrings == {<<>>, <<65>>}
MCRaws == {<<9, 9, 9>>}
MCMembers == {5}
MCSizes == {3, 4}
=============================================================================
