------------------------------ MODULE MCEncoder ------------------------------
(* Model values for CdrEncoder: scalars of every aligned width, an empty and a   *)
(* two-byte string, sizes with and without a compact length code.           *)
EXTENDS CdrEncoder

MCScalars == {<<1, 2>>, <<1, 2, 3, 4>>, <<1, 2, 3, 4, 5, 6, 7, 8>>}
MCStrings == {<<>>, <<65, 66>>}
MCRaws == {<<9, 9, 9>>}
MCMembers == {5}
MCSizes == {3, 4}
=============================================================================
