----------------------------- MODULE MCGenerator -----------------------------
(* IDL files and calls for Generator. *)
EXTENDS Generator, TLC

MCFiles == {"a", "b", "c", "d", "e", "f", "a2", "bad"}
MCModules == {"m", "M", "n", "x", "y"}
MCLower == [k \in MCModules |-> IF k = "M" THEN "m" ELSE k]
MCIdlNames == {"T", "U", "S", "s", "C", "D", "E", "F"}
MCGoNames == MCIdlNames \ {"s"}
MCPascalCase == [k \in MCIdlNames |-> IF k = "s" THEN "S" ELSE k]
def(path, name) == [module |-> path, name |-> name]

\* a and b share a package and, in modules that become one, the name S.
MCOwn ==
  "a" :> <<def(<<"m">>, "T"), def(<<"m", "n", "x">>, "S")>>
    @@ "b" :> <<def(<<"M">>, "U"), def(<<"m", "n", "y">>, "s"), def(<<"m", "n">>, "S")>>
    @@ "c" :> <<def(<<"m">>, "C")>>
    @@ "d" :> <<def(<<>>, "D"), def(<<"m">>, "C")>>
    @@ "a2" :> <<def(<<"m">>, "E")>>
    @@ "e" :> <<def(<<"m">>, "F")>> @@ "f" :> <<def(<<"m", "n">>, "F")>>
    @@ "bad" :> <<>>
MCBase == [f \in MCFiles |-> IF f = "a2" THEN "a" ELSE f]
MCBaseNames == {"a", "b", "c", "d", "e", "f", "bad"}
MCQuoted == [f \in MCFiles |-> CASE f = "a" -> {"c"} [] f = "f" -> {"e"} [] OTHER -> {}]
MCAngled == [f \in MCFiles |-> IF f \in {"b", "c"} THEN {"d"} ELSE {}]
MCRank == "a" :> 1 @@ "b" :> 2 @@ "c" :> 3 @@ "d" :> 4 @@ "e" :> 5 @@ "f" :> 6
  @@ "a2" :> 7 @@ "bad" :> 8

\* Every file is an input once at most, but for files that cannot be generated;
\* a2, which has the base name of a, is one of those.
MCCalls == {<<<<"a">>, <<"b">>>>, <<<<"b">>, <<"a">>>>, <<<<"a", "b">>>>, <<<<"b", "a">>>>,
            <<<<"c", "a">>, <<"b">>>>, <<<<"b">>, <<"d">>, <<"a", "c">>>>,
            <<<<"b", "bad">>, <<>>, <<"a">>>>, <<<<"a", "a2">>, <<"b">>>>,
            <<<<"f">>, <<"b", "e">>, <<"a">>>>}

\* All calls are of the kind the proofs speak of, but those with a2.
ASSUME CallsTakeFilesOnce ==
  \A programs \in MCCalls :
    TakenOnce(programs) <=> \A i \in DOMAIN programs : "a2" \notin Elements(programs[i])

MCBroken == {"bad"}
MCUnresolved == {"e"}
MCUnformatted == {def(<<"m">>, "E")}
=============================================================================
