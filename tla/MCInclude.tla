------------------------------ MODULE MCInclude ------------------------------
(* Include graphs for IncludeResolver: two directories that both have a "b". *)
EXTENDS IncludeResolver, TLC

MCDirs == {"src", "lib"}
MCNames == {"a", "b", "c", "d"}
MCPaths == MCDirs \X MCNames
MCFiles == {<<"src", "a">>, <<"src", "b">>, <<"lib", "b">>, <<"lib", "c">>,
            <<"lib", "d">>}
MCUnusable == {<<"lib", "d">>}
MCJoin == [p \in MCDirs \X MCNames |-> p]
MCDir == [f \in MCFiles |-> f[1]]
MCIncludePaths == <<"lib">>

quoted(n) == [path |-> n, system |-> FALSE]
angle(n) == [path |-> n, system |-> TRUE]

One == {quoted("a"), quoted("b"), quoted("c"), angle("b")}
AtMostOne == {<<>>} \cup {<<x>> : x \in One}
AtMostTwo == AtMostOne \cup {<<x, y>> : x \in One, y \in One}

\* src/b hides lib/b from src/a; src/c does not exist, nor lib/a.
Graph(a, b, lb, c) ==
  <<"src", "a">> :> a @@ <<"src", "b">> :> b @@ <<"lib", "b">> :> lb
    @@ <<"lib", "c">> :> c @@ <<"lib", "d">> :> <<>>

MCGraphs ==
  {Graph(a, b, lb, c) :
     a \in AtMostTwo, b \in AtMostOne, lb \in {<<>>, <<quoted("c")>>},
     c \in {<<>>, <<quoted("b")>>, <<quoted("a")>>, <<quoted("d")>>}}
=============================================================================
