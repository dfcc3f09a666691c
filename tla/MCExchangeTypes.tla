--------------------------- MODULE MCExchangeTypes ---------------------------
(* Types and samples for SampleExchange.  Names ending in 2 are the same     *)
(* type in a later version of its IDL.                                       *)
EXTENDS SampleExchange, MCCodec

MCStructs == [
  \* members that need padding in front and in between, and every shape
  Plain   |-> struct("FINAL", <<req(0, prim(1)), opt(1, prim(8)), req(2, prim(2)),
                                req(3, seq(ref("Pair"))), req(4, uni("U"))>>),
  Pair    |-> struct("FINAL", <<req(0, prim(1)), req(1, prim(4))>>),
  App     |-> struct("APPENDABLE", <<req(0, prim(1)), req(1, ref("In")),
                                     opt(2, named(arr(2, prim(2))))>>),
  In      |-> struct("APPENDABLE", <<req(0, prim(2)), opt(1, str)>>),
  Mut     |-> struct("MUTABLE", <<req(7, prim(1)), opt(3, prim(8)),
                                  req(1, seq(prim(2))), req(9, ref("In")),
                                  opt(4, str)>>),
  \* members dropped, reordered and added
  Mut2    |-> struct("MUTABLE", <<opt(4, str), req(5, prim(4)), req(9, ref("In")),
                                  req(7, prim(1))>>),
  Log     |-> struct("APPENDABLE", <<req(0, ref("Entry")), req(1, prim(2))>>),
  Entry   |-> struct("APPENDABLE", <<req(0, prim(2))>>),
  Log2    |-> struct("APPENDABLE", <<req(0, ref("Entry2")), req(1, prim(2))>>),
  Entry2  |-> struct("APPENDABLE", <<req(0, prim(2)), req(1, prim(2))>>),
  \* a MUTABLE type without @optional members
  Core    |-> struct("MUTABLE", <<req(2, str), req(1, seq(prim(1))), req(3, arr(2, prim(2)))>>),
  \* a union with two labels for one case
  Two     |-> struct("FINAL", <<req(0, uni("V")), req(1, prim(2))>>)
]

MCUnions == [
  U |-> [labels |-> << <<1>>, <<3>> >>, types |-> <<ref("Pair"), str>>,
         default |-> <<prim(2)>>],
  V |-> [labels |-> << <<1, 2>>, <<3>> >>, types |-> <<prim(1), prim(2)>>,
         default |-> <<>>]
]

a == <<11>>
b == <<21, 22>>
c == <<31, 32, 33, 34>>
\* as a member header, q would have length code 4
q == <<71, 42, 43, 44, 45, 46, 47, 48>>
s == <<65>>
two == << <<a, c>>, <<a, c>> >>

MCSamples == [
  Plain |-> { <<a, x[1], b, x[2], x[3]>> :
                x \in { << <<>>, <<>>, <<1, <<a, c>>>> >>, << <<q>>, two, <<2, s>> >>,
                        << <<q>>, <<>>, <<0, 9, b>> >>, << <<>>, two, <<>> >> } },
  App   |-> { <<a, <<b, o>>, p>> : o \in {<<>>, <<s>>}, p \in {<<>>, << <<b, b>> >>} },
  Mut   |-> { <<a, x[1], x[2], <<b, x[3]>>, x[4]>> :
                x \in { << <<>>, <<>>, <<>>, <<s>> >>, << <<q>>, <<b>>, <<>>, <<>> >>,
                        << <<q>>, <<b, b>>, <<s>>, <<s>> >>, << <<>>, <<b>>, <<s>>, <<>> >> } },
  Mut2  |-> { <<o, c, <<b, <<>>>>, a>> : o \in {<<>>, <<s>>} },
  Log   |-> { << <<b>>, <<5, 6>> >> },
  Log2  |-> { << <<b, <<3, 4>> >>, <<5, 6>> >> },
  Core  |-> { <<s, <<>>, <<b, b>>>>, <<<<>>, <<a, <<12>>, <<13>>>>, <<b, b>>>> },
  Two   |-> { <<u, b>> : u \in {<<1, a>>, <<2, b>>} }
]

MCMutable == {<<"Mut", "Mut2">>, <<"Mut2", "Mut">>}
MCCompatible == MCMutable \cup {<<S, S>> : S \in {"Plain", "App", "Mut", "Core"}}
MCAppendable == {<<"Log", "Log2">>, <<"Log2", "Log">>}
MCLabels == {<<"Two", "Two">>}
=============================================================================
