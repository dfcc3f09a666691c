----------------------------- MODULE EnumValues -----------------------------
(***************************************************************************)
(* The values of an enum, which are counted in two places: where its type  *)
(* object is built (xtypes/compute.go) and where its Go constants are      *)
(* written (generator/helpers.go).  A value of the declaration is a record *)
(* [name, value], with <<>> or <<n>> for what the IDL says of it.          *)
(***************************************************************************)
EXTENDS Integers, Sequences

Explicit(v) == v.value # <<>>

\* Mutant: explicit values do not move the counter.
EnumLiteralsCounted(values) ==
  [i \in DOMAIN values |->
     [name |-> values[i].name, flags |-> IF i = 1 THEN 64 ELSE 0,
      value |-> IF Explicit(values[i]) THEN values[i].value[1] ELSE i - 1]]

\* nextVal counts on from the last explicit value; the first literal is the
\* default.  Serialization takes the value as a uint32.
EnumLiterals(values) ==
  LET nextVal[i \in DOMAIN values] ==
        IF Explicit(values[i]) THEN values[i].value[1]
        ELSE IF i = 1 THEN 0 ELSE nextVal[i - 1] + 1
  IN  [i \in DOMAIN values |->
         [name |-> values[i].name, flags |-> IF i = 1 THEN 64 ELSE 0, value |-> nextVal[i]]]

\* The generated constant: explicit values as they are, implicit ones count on.
EnumComputedValue(values, index) ==
  LET explicit == {i \in 1 .. index : Explicit(values[i])}
      last     == CHOOSE i \in explicit : \A j \in explicit : j <= i
  IN  IF explicit = {} THEN index - 1 ELSE values[last].value[1] + (index - last)
=============================================================================
