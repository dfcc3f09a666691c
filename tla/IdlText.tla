------------------------------ MODULE IdlText ------------------------------
(***************************************************************************)
(* The text a file's declarations are written as, and what Parser makes of *)
(* such texts and of damaged ones.                                         *)
(***************************************************************************)
EXTENDS Parser

CONSTANT Files               \* records [includes, definitions]

Concat(ss) == FoldLeft(LAMBDA a, b : a \o b, <<>>, ss)
Each(s, Op(_)) == Concat([i \in 1 .. Len(s) |-> Op(s[i])])
Text(n) == CHOOSE t \in DOMAIN Decimals : Decimals[t] = n

Scoped(parts) == Tail(Each(parts, LAMBDA p : <<"::", p>>))

Words(name) ==
  CASE name = "int16" -> <<"short">> [] name = "int32" -> <<"long">>
    [] name = "int64" -> <<"long", "long">>
    [] name = "uint16" -> <<"unsigned", "short">>
    [] name = "uint32" -> <<"unsigned", "long">>
    [] name = "uint64" -> <<"unsigned", "long", "long">>
    [] OTHER -> <<name>>

RECURSIVE TypeText(_)
TypeText(ty) ==
  CASE ty[1] = "basic"    -> Words(ty[2])
    [] ty[1] = "named"    -> Scoped(ty[2])
    [] ty[1] = "string"   -> <<"string">> \o (IF ty[2] = 0 THEN <<>>
                                              ELSE <<"<", Text(ty[2]), ">">>)
    [] ty[1] = "sequence" -> <<"sequence", "<">> \o TypeText(ty[2])
                             \o (IF ty[3] = 0 THEN <<>> ELSE <<",", Text(ty[3])>>)
                             \o <<">">>

\* A type and what it declares; the size of an array stands in front of those
\* of its elements, so T c[2][3] is two arrays of three.
RECURSIVE Declared(_, _)
Declared(ty, declarator) ==
  IF ty[1] = "array" THEN Declared(ty[2], declarator \o <<"[", Text(ty[3]), "]">>)
  ELSE TypeText(ty) \o declarator

ParamText(p) == IF p[1] = "value" THEN <<",", p[2]>> ELSE <<",", p[1], "=", p[2]>>
AnnText(a) ==
  <<"@", a[1]>> \o (IF a[2] = <<>> THEN <<>>
                    ELSE <<"(">> \o Tail(Each(a[2], ParamText)) \o <<")">>)
FieldText(f) == Each(f[2], AnnText) \o Declared(f[3], <<f[4]>>) \o <<";">>
ValueText(v) == <<",", v[1]>> \o (IF v[2] = <<>> THEN <<>> ELSE <<"=", Text(v[2][1])>>)
LabelText(l) == <<"case">> \o Scoped(l) \o <<":">>
CaseText(c) == Each(c[1], LabelText) \o TypeText(c[2]) \o <<c[3], ";">>
DefaultText(c) == <<"default", ":">> \o TypeText(c[1]) \o <<c[2], ";">>

RECURSIVE DefText(_)
DefText(d) ==
  CASE d[1] = "module" ->
         <<"module", d[2], "{">> \o Each(d[3], DefText) \o <<"}", ";">>
    [] d[1] = "struct" ->
         Each(d[2], AnnText) \o <<"struct", d[3]>>
         \o (IF d[4] = <<>> THEN <<>> ELSE <<":">> \o Scoped(d[4]))
         \o <<"{">> \o Each(d[5], FieldText) \o <<"}", ";">>
    [] d[1] = "enum" ->
         Each(d[2], AnnText) \o <<"enum", d[3], "{">> \o Tail(Each(d[4], ValueText))
         \o <<"}", ";">>
    [] d[1] = "typedef" -> <<"typedef">> \o Declared(d[2], <<d[3]>>) \o <<";">>
    [] d[1] = "const" -> <<"const">> \o TypeText(d[2]) \o <<d[3], "=">> \o d[4] \o <<";">>
    [] d[1] = "union" ->
         Each(d[2], AnnText) \o <<"union", d[3], "switch", "(">> \o TypeText(d[4])
         \o <<")", "{">> \o Each(d[5], CaseText) \o Each(d[6], DefaultText)
         \o <<"}", ";">>
    [] d[1] = "skipped" -> <<d[2], d[3], "{", "}", ";">>

IncludeText(inc) == <<"#", "include">> \o (IF inc[1] = "quoted" THEN inc[2]
                                          ELSE <<"<">> \o inc[2] \o <<">">>)
FileText(f) == Each(f.includes, IncludeText) \o Each(f.definitions, DefText)

(***************************************************************************)
(* Damage: a token lost, the end of the file lost, a token too many or     *)
(* in place of another.                                                    *)
(***************************************************************************)
Damaged(s, tokens) ==
  {RemoveAt(s, i) : i \in DOMAIN s} \cup {SubSeq(s, 1, i) : i \in DOMAIN s}
  \cup {InsertAt(s, i, t) : i \in DOMAIN s, t \in tokens}
  \cup {ReplaceAt(s, i, t) : i \in DOMAIN s, t \in tokens}

-----------------------------------------------------------------------------
\* What ParseFile returns.
File == [includes |-> includes, definitions |-> Definitions]

\* A file that is written as the grammar has it is parsed without an error
\* into its declarations: Parse is a left inverse of printing.  Files
\* has no arrays of arrays, which parser.go:615 builds inside out, and no @id
\* in another base than ten, which 298 loses.
ParseInvertsPrint ==
  Returned => \A f \in Files : input = FileText(f) => ~failed /\ File = f

\* Where the parser takes any token, or none, without an error: annotation
\* parameters (168-193) and enum values (323-330), a bound that is left out
\* (565), an include path without ">" (126), annotations with no declaration
\* behind them (71, 196), and what is skipped on purpose; and where it takes
\* the sizes of an array of arrays in the wrong order (615), or the last of
\* two default cases (415).
At(s, i) == IF i \in DOMAIN s THEN s[i] ELSE EOF
Lenient(s) ==
  \E i \in DOMAIN s :
    \/ s[i] \in Skipped \cup {"ifndef", "define", "endif"}
    \/ s[i] = "=" /\ ~Integer(At(s, i + 1))
    \/ s[i] = "@" /\ At(s, i + 2) \in {"(", ";", EOF}
    \/ s[i] = "<" /\ At(s, i + 1) = ">"
    \/ s[i] = "]" /\ At(s, i + 1) = "["
    \/ s[i] = "default" /\ \E j \in i + 1 .. Len(s) :
         s[j] = "default" /\ \A k \in i .. j : s[k] # "}"
    \/ s[i] = "include" /\ At(s, i + 1) = "<" /\ \A j \in i .. Len(s) : s[j] # ">"

\* Elsewhere a text that is parsed without an error holds nothing that the
\* AST does not hold, in the same order: no token is dropped silently.
\* Separators and parentheses may be missing or too many.
Separators == {";", ",", "::", "(", ")"}
Significant(s) == SelectSeq(s, LAMBDA t : t \notin Separators)
AcceptedReadsBack ==
  Returned /\ ~failed /\ ~Lenient(input)
    => Significant(input) = Significant(FileText(File))

\* ParseFile returns for every text.
ParseReturns == <>Returned
=============================================================================
