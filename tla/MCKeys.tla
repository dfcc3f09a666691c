------------------------------- MODULE MCKeys -------------------------------
(* Keyed types and samples for KeyExtract. *)
EXTENDS KeyExtract, MCCodec

MCStructs == [
  Pos     |-> struct("FINAL", <<req(0, prim(4)), req(1, prim(2))>>),
  Tag     |-> struct("APPENDABLE", <<req(0, prim(1)), opt(1, prim(4))>>),
  \* static offsets
  Static  |-> struct("FINAL", <<req(0, prim(1)), req(1, prim(2)), req(2, arr(3, prim(1))),
                                req(3, ref("Pos")), req(4, str)>>),
  Static2 |-> struct("APPENDABLE", <<req(0, ref("Pos")), req(1, prim(8)), req(2, prim(1))>>),
  \* scans
  Scanned |-> struct("FINAL", <<req(0, str), req(1, prim(8)), opt(2, ref("Pos")), req(3, str),
                                req(4, seq(prim(2))), req(5, ref("Pos"))>>),
  Scanned2 |-> struct("APPENDABLE", <<req(0, uni("U")), opt(1, seq(prim(4))), req(2, ref("Tag")),
                                      req(3, arr(2, prim(2))), req(4, str)>>),
  Mut     |-> struct("MUTABLE", <<req(7, prim(1)), opt(3, str), req(1, str),
                                  req(9, ref("Tag"))>>),
  Mut2    |-> struct("MUTABLE", <<req(5, prim(8)), req(1, str), req(7, prim(1)),
                                  req(9, ref("Tag"))>>),
  Plain   |-> struct("FINAL", <<req(0, prim(4)), req(1, prim(4))>>)
]
MCKeys == [
  Static |-> {2, 3, 4}, Static2 |-> {2, 3}, Scanned |-> {1, 2, 4, 6}, Scanned2 |-> {4, 5},
  Mut |-> {3, 4}, Mut2 |-> {2, 4}, Plain |-> {1}
]
MCUnions == [
  U |-> [labels |-> << <<1>>, <<3>> >>, types |-> <<prim(1), str>>, default |-> <<>>]
]

a == <<11>>
b == <<21, 22>>
c == <<31, 32, 33, 34>>
q == <<41, 42, 43, 44, 45, 46, 47, 48>>
s == <<65>>
p == <<c, b>>

MCSamples == [
  Static  |-> {<<a, b, <<a, a, <<12>>>>, p, t>> : t \in {<<>>, s}},
  Static2 |-> {<<p, q, a>>},
  Scanned |-> {<<t, q, o, u, l, p>> : t \in {<<>>, s}, o \in {<<>>, <<p>>}, u \in {<<>>, s},
                                      l \in {<<>>, <<b>>, <<b, b, b>>}},
  Scanned2 |-> {<<u, o, g, <<b, b>>, s>> : u \in {<<1, a>>, <<2, s>>}, o \in {<<>>, << <<c>> >>},
                                           g \in {<<a, <<>>>>, <<a, <<c>>>>}},
  Mut     |-> {<<a, o, t, g>> : o \in {<<>>, <<s>>}, t \in {<<>>, s}, g \in {<<a, <<>>>>, <<a, <<c>>>>}},
  Mut2    |-> {<<q, t, a, g>> : t \in {<<>>, s}, g \in {<<a, <<>>>>, <<a, <<c>>>>}},
  Plain   |-> {<<c, x>> : x \in {c, <<0, 0, 0, 1>>}} \cup {<<<<0, 0, 0, 1>>, c>>}
]

MCPairs == {<<S, S>> : S \in {"Static", "Static2", "Scanned", "Scanned2", "Mut"}}
             \cup {<<"Mut", "Mut2">>, <<"Mut2", "Mut">>}
MCPlain == {<<"Plain", "Plain">>}
=============================================================================
