------------------------------ MODULE MCTypes ------------------------------
EXTENDS TypeInfo

Int32 == [wraps |-> <<>>, core |-> <<"prim", 4>>]
UInt8 == [wraps |-> <<>>, core |-> <<"prim", 13>>]
Str(bound) == [wraps |-> <<>>, core |-> <<"string", bound>>]
N(parts) == [wraps |-> <<>>, core |-> <<"named", parts>>]
SequenceOf(t, bound) == [t EXCEPT !.wraps = <<<<"seq", bound>>>> \o @]
ArrayOf(t, size) == [t EXCEPT !.wraps = <<<<"arr", size>>>> \o @]

Mem(name, t) == [name |-> name, type |-> t, labels |-> <<>>, id |-> <<>>, flags |-> {}]
With(m, flags) == [m EXCEPT !.flags = flags]
Id(m, id) == [m EXCEPT !.id = <<id>>]
Case(m, labels) == [m EXCEPT !.labels = labels]
Val(name, v) == [name |-> name, value |-> v]

D(kind, path, name, ms) ==
  [kind |-> kind, path |-> path, name |-> name, members |-> ms, annotations |-> <<>>,
   values |-> <<>>]
Ann(d, as) == [d EXCEPT !.annotations = as]
Enum(path, name, vs) == [D("enum", path, name, <<>>) EXCEPT !.values = vs]
TypedefOf(path, name, t) == D("typedef", path, name, <<Mem("", t)>>)

(***************************************************************************)
(* A package of shared types, and one whose types hold them.  The includes *)
(* are a diamond: a's definitions come twice.                              *)
(***************************************************************************)
PathMembers ==
  <<Id(Mem("p", SequenceOf(N(<<"a", "Point">>), 0)), 7), Mem("sh", N(<<"a", "Shape">>)),
    With(Mem("g", N(<<"a", "Grid">>)), {"optional"}), With(Mem("n", Str(300)), {"key"})>>
Orders == {o \in [1 .. 4 -> 1 .. 4] : IsInjective(o)}

Point(path) ==
  Ann(D("struct", path, "Point", <<With(Mem("x", Int32), {"key"}), Mem("y", N(<<"a", "Len">>))>>),
      <<<<"nested", "">>, <<"extensibility", "final">>>>)

Shapes(order) ==
  [decls |->
     <<Enum(<<"a">>, "Color", <<Val("RED", <<-1>>), Val("G", <<>>), Val("BL", <<5>>), Val("N", <<>>)>>),
       TypedefOf(<<"a">>, "Len", Int32),
       TypedefOf(<<"a">>, "Grid", ArrayOf(ArrayOf(N(<<"a", "Len">>), 2), 3)),
       Point(<<"a">>),
       D("union", <<"a">>, "Shape",
         <<Mem("", N(<<"a", "Color">>)),
           Case(Mem("p", N(<<"a", "Point">>)), <<<<"name", "RED">>, <<"name", "G">>>>),
           With(Mem("s", SequenceOf(Str(0), 300)), {"default"})>>),
       Ann(D("struct", <<"b">>, "Path", [i \in 1 .. 4 |-> PathMembers[order[i]]]), <<<<"mutable", "">>>>),
       Point(<<"b">>),
       D("struct", <<"b">>, "Top", <<Mem("p", N(<<"Path">>)), Mem("q", N(<<"b", "Point">>)),
                                     Mem("r", ArrayOf(N(<<"Color">>), 2))>>),
       Enum(<<"b">>, "Color", <<Val("RED", <<>>)>>),
       D("const", <<"b">>, "Len", <<>>)>>,
   files |-> <<[included |-> <<1, 2, 3, 4, 5, 1, 2, 3, 4, 5>>, own |-> <<6, 7, 8, 9, 10>>],
               [included |-> <<>>, own |-> <<1, 2, 3, 4, 5>>]>>]

(***************************************************************************)
(* Types that differ in one thing only, and unions of integer labels.      *)
(***************************************************************************)
Union(name, label) ==
  D("union", <<"c">>, name, <<Mem("", Int32), Case(Mem("x", UInt8), <<<<"int", label>>>>)>>)
Struct(name, m) == D("struct", <<"c">>, name, <<m>>)
Similar ==
  [decls |-> <<Union("A", 1), Union("B", 2), Struct("S", Mem("x", UInt8)),
               Struct("T", Id(Mem("x", UInt8), 1)), Struct("U", With(Mem("x", UInt8), {"key"})),
               Struct("V", Mem("x", SequenceOf(UInt8, 2))), Struct("W", Mem("y", UInt8)),
               Ann(Struct("X", Mem("x", UInt8)), <<<<"final", "">>>>),
               Ann(Struct("Y", Mem("x", UInt8)), <<<<"appendable", "">>, <<"final", "">>>>)>>,
   files |-> <<[included |-> <<>>, own |-> <<1, 2, 3, 4, 5, 6, 7, 8, 9>>]>>]

(***************************************************************************)
(* The first file hides the root's T from S, which the second shares.      *)
(***************************************************************************)
Hiding ==
  [decls |->
     <<D("struct", <<"m">>, "S", <<Mem("x", N(<<"T">>))>>),
       D("struct", <<>>, "T", <<Mem("y", Int32)>>),
       D("struct", <<>>, "Use", <<Mem("s", N(<<"m", "S">>))>>),
       D("struct", <<"m">>, "T", <<Mem("y", Int32), Mem("x", UInt8)>>),
       D("struct", <<"m">>, "Use", <<Mem("s", N(<<"S">>)), Mem("x", ArrayOf(N(<<"T">>), 300))>>)>>,
   files |-> <<[included |-> <<1, 2, 3>>, own |-> <<4, 5>>],
               [included |-> <<1>>, own |-> <<2, 3>>]>>]

(***************************************************************************)
(* Modules of three levels and capital letters, with references between    *)
(* packages and inside one; the second file uses a name nobody declares.   *)
(***************************************************************************)
Deep ==
  [decls |->
     <<Enum(<<"Geo", "Base", "Kind">>, "Color", <<Val("RED", <<>>), Val("G", <<>>)>>),
       D("struct", <<"Geo", "Base", "Msg">>, "S",
         <<Mem("x", N(<<"Geo", "Base", "Kind", "Color">>)), Mem("y", N(<<"Len">>))>>),
       TypedefOf(<<"Geo", "Base">>, "Len", UInt8),
       TypedefOf(<<"Geo">>, "Point", SequenceOf(N(<<"Geo", "Base", "Msg", "S">>), 1)),
       TypedefOf(<<>>, "T", N(<<"Geo", "Base", "Kind", "Color">>)),
       D("union", <<"Geo", "Base">>, "Shape",
         <<Mem("", Int32), With(Mem("y", N(<<"Geo", "Base", "Len">>)), {"default"})>>),
       D("skipped", <<"Geo">>, "X", <<>>),
       D("struct", <<"Geo", "Base">>, "V", <<Mem("x", N(<<"Base", "Len">>))>>)>>,
   files |-> <<[included |-> <<>>, own |-> <<1, 2, 3, 4, 5, 6, 7>>],
               [included |-> <<1, 2, 3>>, own |-> <<8>>]>>]

MCWorlds == {Shapes(o) : o \in Orders} \cup {Similar, Hiding, Deep}

MCLowerCase == [m \in {"a", "b", "c", "m", "Geo", "Base", "Kind", "Msg"} |->
                  CASE m = "Geo" -> "geo" [] m = "Base" -> "base" [] m = "Kind" -> "kind"
                    [] m = "Msg" -> "msg" [] OTHER -> m]

\* ReferencesDenote is proved for worlds like these.
ASSUME ReferencesSettled == \A w \in MCWorlds : AliasesUnique(w) /\ SimpleNamesLocal(w)

\* TypesTypeOK and EnumLiteralsAgree are proved for worlds like these.
ASSUME TypesLayered == \A w \in MCWorlds : NoneHoldsItself(w)
ASSUME EnumsAreSmall == \A w \in MCWorlds : EnumsFit(w)

\* Names of various lengths, which move what is behind them.
Names == <<"a", "b", "c", "m", "Geo", "Base", "geo", "base", "kind", "msg", "x", "y", "p", "g", "n", "s", "q", "r",
           "Point", "Shape", "Color", "Path", "Top", "RED", "G", "BL", "N", "A", "B", "S", "T",
           "U", "V", "W", "X", "Y", "Use", "sh", "Len", "Grid", "Kind", "Msg", "">>
MCText == [n \in ToSet(Names) |->
             LET i == CHOOSE k \in DOMAIN Names : Names[k] = n
             IN  IF n = "" THEN <<>> ELSE [j \in 1 .. 1 + (i % 4) |-> 64 + i]]
MCNameHash == [n \in ToSet(Names) |-> <<0, 0, 1, CHOOSE k \in DOMAIN Names : Names[k] = n>>]
=============================================================================
