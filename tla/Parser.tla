------------------------------- MODULE Parser -------------------------------
(***************************************************************************)
(* parser.Parser: the recursive descent over the tokens of one IDL file,   *)
(* with the Go call stack as a variable.  `work' lists what the parse      *)
(* functions that have not returned still have to do: a call is replaced   *)
(* by the body of the function, chosen by the current token, and every     *)
(* other item is one call of expect, accept or next, or an assignment to   *)
(* the locals, which are on the stack `vals' (its end is its top).         *)
(*                                                                         *)
(* The rest of the input is what the lexer has not delivered, the current  *)
(* token included.  A token is its text; its kind is punctuation itself,   *)
(* "int", "string" or "ident".  An AST node is a tuple that begins with    *)
(* the name of its Go type.                                                *)
(***************************************************************************)
EXTENDS Integers, Sequences, SequencesExt

CONSTANT Inputs              \* token sequences a file may hold

EOF == ""                    \* the value of the token at the end
Punctuation == {"{", "}", "(", ")", "[", "]", "<", ">", ";", ":", "::", ",",
                "=", "@", "#"}

\* Integer literals: decimal ones, and the others strconv knows in base 0.
Decimals == [t \in {"0", "1", "2", "3", "-1"} |->
               CASE t = "0" -> 0 [] t = "1" -> 1 [] t = "2" -> 2
                 [] t = "3" -> 3 [] t = "-1" -> -1]
Prefixed == [t \in {"0x2"} |-> 2]
Integer(t) == t \in DOMAIN Decimals \cup DOMAIN Prefixed
Strings == {"'a.idl'", "'s'"}

\* Lexer.Next: the kind of a token.  Unknown characters are identifiers.
Kind(t) ==
  CASE t = EOF -> "EOF"
    [] t \in Punctuation -> t
    [] Integer(t) -> "int"
    [] t \in Strings -> "string"
    [] OTHER -> "ident"

\* strconv.Atoi with its error ignored, ParseInt(_, 0, _) of an integer, and
\* whether ParseUint(_, 10, _) succeeds.
Atoi(t) == IF t \in DOMAIN Decimals THEN Decimals[t] ELSE 0
ParseInt(t) == IF t \in DOMAIN Decimals THEN Decimals[t] ELSE Prefixed[t]
IsUint10(t) == t \in DOMAIN Decimals /\ Decimals[t] >= 0

VARIABLES
  input,                     \* the tokens of the file
  rest,                      \* those not yet consumed, the current one first
  work,                      \* what is left to do, the next item first
  vals,                      \* locals of the calls in progress
  includes,                  \* file.Includes
  failed                     \* p.errors is not empty

vars == <<input, rest, work, vals, includes, failed>>

Tok == IF rest = <<>> THEN EOF ELSE Head(rest)

-----------------------------------------------------------------------------
(***************************************************************************)
(* Items of work.                                                          *)
(***************************************************************************)
Call(f) == <<"call", f>>
Expect(k) == <<"expect", k>>        \* p.expect(k), its token not used
Value(k) == <<"value", k>>          \* p.expect(k).Value
Accept(k) == <<"accept", k>>
Advance == <<"next", "">>
Take == <<"take", "">>              \* p.tok.Value, then p.next()
Push(v) == <<"push", v>>
Drop == <<"drop", "">>
Append1 == <<"append", "">>         \* list = append(list, v)
Make(k, n) == <<"make", k, n>>      \* a node of the n values on top
Error == <<"error", "">>
AddInclude(sys) == <<"include", sys>>
SkipBraced(n) == <<"skip", n>>

Nil == Push(<<>>)

\* A loop that calls `body' while the token is none of `ends'.
While(ends, t, body, again) == IF Kind(t) \in ends THEN <<>> ELSE body \o <<Call(again)>>

(***************************************************************************)
(* The nodes the parse functions return, of the values they have read.     *)
(***************************************************************************)
\* params[key] = value.
SetParam(params, key, value) ==
  SelectSeq(params, LAMBDA p : p[1] # key) \o << <<key, value>> >>

\* parseArrayDimensions: each size wraps what stands before it.
ArrayOf(type, sizes) ==
  FoldLeft(LAMBDA ty, s : <<"array", ty, Atoi(s)>>, type, sizes)

\* Field.ID: the last @id whose value is a decimal number.
IDs(anns) ==
  SelectSeq(anns, LAMBDA a : a[1] = "id" /\ \E i \in DOMAIN a[2] :
                               a[2][i][1] = "value" /\ IsUint10(a[2][i][2]))
FieldID(anns) ==
  IF IDs(anns) = <<>> THEN <<>>
  ELSE << Atoi(SelectSeq(Last(IDs(anns))[2], LAMBDA p : p[1] = "value")[1][2]) >>

\* The bound and the value for the tokens read: none or one.
BoundOf(ts) == IF ts = <<>> THEN 0 ELSE Atoi(ts[1])
EnumLiteral(ts) == IF ts # <<>> /\ Integer(ts[1]) THEN <<ParseInt(ts[1])>> ELSE <<>>

\* parseModule, parseTypedef, parseConst and parseSkipped take no annotations.
Node(k, v) ==
  CASE k = "annotation" -> <<v[1], v[2]>>
    [] k = "param"      -> SetParam(v[1], v[2], v[3])
    [] k = "value"      -> SetParam(v[1], "value", v[2])
    [] k = "module"     -> <<"module", v[2], v[3]>>
    [] k = "struct"     -> <<"struct", v[1], v[2], v[3], v[4]>>
    [] k = "field"      -> <<"field", v[1], ArrayOf(v[2], v[4]), v[3], FieldID(v[1])>>
    [] k = "enum"       -> <<"enum", v[1], v[2], v[3]>>
    [] k = "enumvalue"  -> <<v[1], EnumLiteral(v[2])>>
    [] k = "typedef"    -> <<"typedef", ArrayOf(v[2], v[4]), v[3]>>
    [] k = "const"      -> <<"const", v[2], v[3], v[4]>>
    [] k = "empty"      -> << <<>>, <<>> >>
    [] k = "noswitch"   -> <<"union", v[1], v[2], <<>>, <<>>, <<>> >>
    [] k = "union"      -> <<"union", v[1], v[2], v[3], v[4][1], v[4][2]>>
    [] k = "addcase"    -> <<Append(v[1][1], v[2]), v[1][2]>>
    [] k = "default"    -> <<v[1][1], << <<v[2], v[3]>> >> >>
    [] k = "case"       -> <<v[1], v[2], v[3]>>
    [] k = "skipped"    -> <<"skipped", v[2], v[3]>>
    [] k = "string"     -> <<"string", BoundOf(v[1])>>
    [] k = "sequence"   -> <<"sequence", v[1], BoundOf(v[2])>>
    [] k = "named"      -> <<"named", v[1]>>

-----------------------------------------------------------------------------
(***************************************************************************)
(* What a parse function does, given the current token.  Where it looks at *)
(* a later token, the rest of it is a call of its own.                     *)
(***************************************************************************)
ParseFile(t) ==
  While({"EOF"}, t,
        IF t = "#" THEN <<Call("directive")>>
                   ELSE <<Nil, Call("annotations"), Call("definition")>>, "file")

parseDirective == <<Expect("#"), Call("directiveName")>>
DirectiveName(t) ==
  CASE Kind(t) # "ident"         -> <<Error>>
    [] t = "include"             -> <<Advance, Call("include")>>
    [] t \in {"ifndef", "define"} -> <<Advance, Accept("ident")>>
    [] t = "endif"               -> <<Advance>>
    [] OTHER                     -> <<Error, Advance>>

parseIncludeDirective(t) ==
  CASE Kind(t) = "string" -> <<Nil, Take, Append1, AddInclude("quoted")>>
    [] t = "<" -> <<Advance, Nil, Call("angle"), Accept(">"), AddInclude("system")>>
    [] OTHER   -> <<Error>>
Angle(t) == While({">", "EOF"}, t, <<Take, Append1>>, "angle")

parseAnnotations(t) == IF t = "@" THEN <<Advance, Call("annotation")>> ELSE <<>>
Annotation(t) ==
  IF Kind(t) # "ident" THEN <<Error>>
  ELSE <<Take, Nil, Call("parens"), Make("annotation", 2), Append1,
         Call("annotations")>>
Parens(t) == IF t = "(" THEN <<Advance, Call("params"), Expect(")")>> ELSE <<>>
parseAnnotationParams(t) ==
  While({")", "EOF"}, t, <<Take, Call("param"), Accept(",")>>, "params")
Param(t) == IF t = "=" THEN <<Advance, Take, Make("param", 3)>>
                       ELSE <<Make("value", 2)>>

\* The annotations are on top of vals, and below them the list the
\* definition is added to; a definition that is nil is not added.
Skipped == {"interface", "valuetype", "bitset", "bitmask"}
Defining == {"module", "struct", "enum", "typedef", "const", "union"}
parseDefinition(t) ==
  CASE t = EOF                   -> <<Drop>>
    [] t = ";"                   -> <<Drop, Advance>>
    [] t \in Defining            -> <<Advance, Call(t), Append1>>
    [] t \in Skipped             -> <<Take, Call("skipped"), Append1>>
    [] OTHER                     -> <<Drop, Error, Advance>>

parseModule == <<Value("ident"), Expect("{"), Nil, Call("moduleBody"),
                 Expect("}"), Accept(";"), Make("module", 3)>>
ModuleBody(t) ==
  While({"}", "EOF"}, t, <<Nil, Call("annotations"), Call("moduleDef")>>, "moduleBody")
ModuleDef(t) == IF Kind(t) \in {"}", "EOF"} THEN <<Drop>> ELSE <<Call("definition")>>

\* Mutant: the end of a struct is not expected.
parseStructOpen == <<Value("ident"), Call("inherits"), Expect("{"), Nil, Call("fields"),
                     Accept("}"), Accept(";"), Make("struct", 4)>>
parseStruct == <<Value("ident"), Call("inherits"), Expect("{"), Nil, Call("fields"),
                 Expect("}"), Expect(";"), Make("struct", 4)>>
Inherits(t) == IF t = ":" THEN <<Advance, Call("scopedName")>> ELSE <<Nil>>
Fields(t) == While({"}", "EOF"}, t, <<Call("field"), Append1>>, "fields")
parseField == <<Nil, Call("annotations"), Call("typeRef"), Value("ident"), Nil,
                Call("dimensions"), Expect(";"), Make("field", 4)>>

parseEnum == <<Value("ident"), Expect("{"), Nil, Call("enumBody"),
               Expect("}"), Expect(";"), Make("enum", 3)>>
EnumBody(t) ==
  While({"}", "EOF"}, t, <<Value("ident"), Nil, Call("enumValue"),
                           Make("enumvalue", 2), Append1, Accept(",")>>, "enumBody")
EnumValue(t) == IF t = "=" THEN <<Advance, Take, Append1>> ELSE <<>>

parseTypedef == <<Call("typeRef"), Value("ident"), Nil, Call("dimensions"),
                  Expect(";"), Make("typedef", 4)>>

parseConst == <<Call("typeRef"), Value("ident"), Expect("="), Nil, Call("constValue"),
                Expect(";"), Make("const", 4)>>
ConstValue(t) == While({";", "EOF"}, t, <<Take, Append1>>, "constValue")

\* Without the keyword switch the rest of the union is left to the callers.
parseUnion == <<Value("ident"), Call("switch")>>
Switch(t) ==
  IF t # "switch" THEN <<Error, Make("noswitch", 2)>>
  ELSE <<Advance, Expect("("), Call("typeRef"), Expect(")"), Expect("{"),
         Make("empty", 0), Call("cases"), Expect("}"), Expect(";"), Make("union", 4)>>
Cases(t) ==
  While({"}", "EOF"}, t,
    CASE t = "case" -> <<Nil, Call("labels"), Call("typeRef"), Value("ident"),
                         Expect(";"), Make("case", 3), Make("addcase", 2)>>
      [] t = "default" -> <<Advance, Expect(":"), Call("typeRef"), Value("ident"),
                            Expect(";"), Make("default", 3)>>
      [] OTHER -> <<Error, Advance>>, "cases")
\* Mutant: a label replaces those before it.
parseUnionCaseLast(t) ==
  IF t = "case" THEN <<Advance, Drop, Nil, Call("label"), Append1, Expect(":"),
                       Call("labels")>>
                ELSE <<>>
parseUnionCase(t) ==
  IF t = "case" THEN <<Advance, Call("label"), Append1, Expect(":"), Call("labels")>>
                ELSE <<>>
parseUnionCaseLabel(t) == IF Kind(t) = "int" THEN <<Nil, Take, Append1>>
                                             ELSE <<Call("scopedName")>>

parseSkipped(t) == (IF Kind(t) = "ident" THEN <<Take>> ELSE <<Push("")>>)
                   \o <<Call("skipTo"), Make("skipped", 3)>>
\* Mutant: the end of the file does not end the search.
SkipToBlock(t) == CASE t = "{" -> <<SkipBraced(0), Accept(";")>>
                    [] t = ";" -> <<Accept(";")>>
                    [] OTHER -> <<Advance, Call("skipTo")>>
SkipTo(t) == CASE t = "{" -> <<SkipBraced(0), Accept(";")>>
               [] Kind(t) \in {";", "EOF"} -> <<Accept(";")>>
               [] OTHER -> <<Advance, Call("skipTo")>>

\* The names of the basic types, after the first word of them.
BasicName(t) == CASE t = "short" -> "int16" [] t = "long" -> "int32" [] OTHER -> t
Basics == {"boolean", "octet", "char", "float", "double", "int8", "short"}
Basic(name) == Push(<<"basic", name>>)
parseTypeRef(t) ==
  CASE Kind(t) # "ident"          -> <<Error, Advance, Basic("error")>>
    [] t \in Basics               -> <<Advance, Basic(BasicName(t))>>
    [] t = "long"                 -> <<Advance, Call("long")>>
    [] t = "unsigned"             -> <<Advance, Call("unsigned")>>
    [] t \in {"string", "wstring"} -> <<Advance, Nil, Call("angleBound"), Make("string", 1)>>
    [] t = "sequence"             -> <<Advance, Expect("<"), Call("typeRef"),
                                       Nil, Call("commaBound"), Expect(">"),
                                       Make("sequence", 2)>>
    [] OTHER                      -> <<Call("scopedName"), Make("named", 1)>>
Long(t) == IF t = "long" THEN <<Advance, Basic("int64")>> ELSE <<Basic("int32")>>
Unsigned(t) == CASE t = "short" -> <<Advance, Basic("uint16")>>
                 [] t = "long"  -> <<Advance, Call("unsignedLong")>>
                 [] OTHER       -> <<Error, Basic("error")>>
UnsignedLong(t) == IF t = "long" THEN <<Advance, Basic("uint64")>> ELSE <<Basic("uint32")>>
Bound(t) == IF Kind(t) = "int" THEN <<Take, Append1>> ELSE <<>>
AngleBound(t) == IF t = "<" THEN <<Advance, Call("bound"), Expect(">")>> ELSE <<>>
CommaBound(t) == IF t = "," THEN <<Advance, Call("bound")>> ELSE <<>>

\* The first part is taken whatever it is; a name may end in "::".
parseScopedName == <<Nil, Take, Append1, Call("scopes")>>
Scopes(t) == IF t = "::" THEN <<Advance, Call("scopePart")>> ELSE <<>>
ScopePart(t) == (IF Kind(t) = "ident" THEN <<Take, Append1>> ELSE <<>>)
                \o <<Call("scopes")>>

parseArrayDimensions(t) ==
  IF t = "[" THEN <<Advance, Value("int"), Append1, Expect("]"), Call("dimensions")>>
             ELSE <<>>

Body(f, t) ==
  CASE f = "file" -> ParseFile(t)
    [] f = "directive" -> parseDirective
    [] f = "directiveName" -> DirectiveName(t)
    [] f = "include" -> parseIncludeDirective(t)
    [] f = "angle" -> Angle(t)
    [] f = "annotations" -> parseAnnotations(t)
    [] f = "annotation" -> Annotation(t)
    [] f = "parens" -> Parens(t)
    [] f = "params" -> parseAnnotationParams(t)
    [] f = "param" -> Param(t)
    [] f = "definition" -> parseDefinition(t)
    [] f = "module" -> parseModule
    [] f = "moduleBody" -> ModuleBody(t)
    [] f = "moduleDef" -> ModuleDef(t)
    [] f = "struct" -> parseStruct
    [] f = "inherits" -> Inherits(t)
    [] f = "fields" -> Fields(t)
    [] f = "field" -> parseField
    [] f = "enum" -> parseEnum
    [] f = "enumBody" -> EnumBody(t)
    [] f = "enumValue" -> EnumValue(t)
    [] f = "typedef" -> parseTypedef
    [] f = "const" -> parseConst
    [] f = "constValue" -> ConstValue(t)
    [] f = "union" -> parseUnion
    [] f = "switch" -> Switch(t)
    [] f = "cases" -> Cases(t)
    [] f = "labels" -> parseUnionCase(t)
    [] f = "label" -> parseUnionCaseLabel(t)
    [] f = "skipped" -> parseSkipped(t)
    [] f = "skipTo" -> SkipTo(t)
    [] f = "typeRef" -> parseTypeRef(t)
    [] f = "long" -> Long(t)
    [] f = "unsigned" -> Unsigned(t)
    [] f = "unsignedLong" -> UnsignedLong(t)
    [] f = "bound" -> Bound(t)
    [] f = "angleBound" -> AngleBound(t)
    [] f = "commaBound" -> CommaBound(t)
    [] f = "scopedName" -> parseScopedName
    [] f = "scopes" -> Scopes(t)
    [] f = "scopePart" -> ScopePart(t)
    [] f = "dimensions" -> parseArrayDimensions(t)

-----------------------------------------------------------------------------
Init ==
  /\ input \in Inputs /\ rest = input
  /\ work = <<Call("file")>>
  /\ vals = << <<>> >>                \* file.Definitions
  /\ includes = <<>> /\ failed = FALSE

Do(op) == work # <<>> /\ Head(work)[1] = op
Arg == Head(work)[2]
Done == work' = Tail(work)
\* Parser.next; at the end the lexer keeps returning EOF.
next == rest' = IF rest = <<>> THEN rest ELSE Tail(rest)
Push1(v) == vals' = Append(vals, v)
Top(n) == SubSeq(vals, Len(vals) - n + 1, Len(vals))
Below(n) == SubSeq(vals, 1, Len(vals) - n)

DoCall ==
  /\ Do("call") /\ work' = Body(Arg, Tok) \o Tail(work)
  /\ UNCHANGED <<rest, vals, failed, includes>>

\* Parser.expect: an unexpected token is an error, and is consumed as well.
Expected == failed' = (failed \/ Kind(Tok) # Arg)
DoExpect == Do("expect") /\ Expected /\ next /\ Done /\ UNCHANGED <<vals, includes>>
DoValue == Do("value") /\ Expected /\ next /\ Push1(Tok) /\ Done /\ UNCHANGED includes

\* Parser.accept.
DoAccept ==
  /\ Do("accept") /\ Done
  /\ IF Kind(Tok) = Arg THEN next ELSE UNCHANGED rest
  /\ UNCHANGED <<vals, failed, includes>>

DoNext == Do("next") /\ next /\ Done /\ UNCHANGED <<vals, failed, includes>>
DoTake == Do("take") /\ next /\ Push1(Tok) /\ Done /\ UNCHANGED <<failed, includes>>

\* skipBracedBlock: one token, n blocks being open.
DoSkipBraced ==
  /\ Do("skip") /\ next
  /\ LET n == Arg + (CASE Tok = "{" -> 1 [] Tok = "}" -> -1 [] OTHER -> 0)
     IN  IF Tok = EOF \/ (Tok = "}" /\ n = 0) THEN Done
         ELSE work' = <<SkipBraced(n)>> \o Tail(work)
  /\ UNCHANGED <<vals, failed, includes>>

\* Parser.addError.
DoError == Do("error") /\ failed' = TRUE /\ Done /\ UNCHANGED <<rest, vals, includes>>

\* Assignments to locals.
DoPush == Do("push") /\ Push1(Arg) /\ Done /\ UNCHANGED <<rest, failed, includes>>
DoDrop == Do("drop") /\ vals' = Below(1) /\ Done /\ UNCHANGED <<rest, failed, includes>>
DoAppend ==
  /\ Do("append") /\ vals' = Append(Below(2), Append(Top(2)[1], Top(2)[2]))
  /\ Done /\ UNCHANGED <<rest, failed, includes>>
DoMake ==
  /\ Do("make")
  /\ LET n == Head(work)[3] IN vals' = Append(Below(n), Node(Arg, Top(n)))
  /\ Done /\ UNCHANGED <<rest, failed, includes>>

\* ParseFile keeps an include that has a path.
DoInclude ==
  /\ Do("include") /\ vals' = Below(1)
  /\ includes' = IF Last(vals) = <<>> THEN includes
                 ELSE Append(includes, <<Arg, Last(vals)>>)
  /\ Done /\ UNCHANGED <<rest, failed>>

Step ==
  /\ \/ DoCall \/ DoExpect \/ DoValue \/ DoAccept \/ DoNext \/ DoTake \/ DoSkipBraced
     \/ DoError \/ DoPush \/ DoDrop \/ DoAppend \/ DoMake \/ DoInclude
  /\ UNCHANGED input

\* ParseFile has returned.
Returned == work = <<>>
Definitions == vals[1]

Next == Step \/ (Returned /\ UNCHANGED vars)
Spec == Init /\ [][Next]_vars /\ WF_<<rest, work>>(Step)
=============================================================================
