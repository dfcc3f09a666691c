----------------------------- MODULE TypeScopes -----------------------------
(***************************************************************************)
(* internal/resolver/types.go and the references of                        *)
(* internal/generator/generator.go: file after file, names are looked up   *)
(* in scopes, and the packages the file's definitions go to are written    *)
(* with references to one another.                                         *)
(*                                                                         *)
(* The files share their trees: a definition that several files include is *)
(* one node, and what its names were resolved to is overwritten each time. *)
(* A definition is a number, its declaration a record in world.decls, and  *)
(* <<d, i>> the type of its i-th member.                                   *)
(***************************************************************************)
EXTENDS Integers, Sequences, SequencesExt

CONSTANTS
  Worlds,        \* declarations, and files in the order they are processed
  LowerCase      \* module name -> strings.ToLower of it

Kinds == {"struct", "union", "enum", "typedef", "const", "skipped"}

\* A type: the sequences and arrays around a primitive, a string or a name.
TypeRefs ==
  [wraps : Seq({"seq", "arr"} \X Nat),
   core  : ({"prim", "string"} \X Nat) \cup ({"named"} \X (Seq(STRING) \ {<<>>}))]

\* A field, a case with its labels, a discriminator, or what a typedef names.
MemberDecls ==
  [name : STRING, type : TypeRefs, id : Seq(Nat), flags : SUBSET STRING,
   labels : Seq(({"int"} \X Int) \cup ({"name"} \X STRING))]

\* Definitions are numbered from 1: 0 stands for none.  An enum has values, a
\* typedef one member, and a union's first is its discriminator.
Declarations ==
  [kind : Kinds, path : Seq(STRING), name : STRING, members : Seq(MemberDecls),
   annotations : Seq(STRING \X STRING), values : Seq([name : STRING, value : Seq(Int)])]

ASSUME WorldAssumption ==
  \A w \in Worlds :
    /\ w.decls \in Seq(Declarations)
    /\ w.files \in Seq([included : Seq(DOMAIN w.decls), own : Seq(DOMAIN w.decls)])
    /\ \A d \in DOMAIN w.decls :
         /\ w.decls[d].kind = "typedef" => Len(w.decls[d].members) = 1
         /\ w.decls[d].kind = "union" => w.decls[d].members # <<>>

VARIABLES
  world,
  file,          \* how many files were begun
  phase,         \* "start", "resolving", "rendering" or "failed"
  at,            \* the definition of the file and the member to be looked at
  resolved,      \* reference -> definition, 0 for nil; of all files
  units,         \* packages of the file that are still to be written
  written        \* what was written for each package of each file

scopeVars == <<world, file, phase, at, resolved, units, written>>

Decl(d) == world.decls[d]
Defs == DOMAIN world.decls
TypeOf(r) == Decl(r[1]).members[r[2]].type
IsNamed(r) == TypeOf(r).core[1] = "named"
Parts(r) == TypeOf(r).core[2]        \* the name, split at "::"

\* The references in the types of a definition's members.
NamedRefs(d) ==
  SelectSeq([i \in DOMAIN Decl(d).members |-> <<d, i>>], IsNamed)
AllRefs == {r \in UNION {{d} \X DOMAIN Decl(d).members : d \in Defs} : IsNamed(r)}

\* A file's merged definitions: those it includes, then its own.
Definitions(f) == world.files[f].included \o world.files[f].own
RefsIn(f) == {r \in AllRefs : r[1] \in ToSet(Definitions(f))}

-----------------------------------------------------------------------------
(***************************************************************************)
(* Scopes                                                                  *)
(***************************************************************************)
Registered(d) == Decl(d).kind # "const" /\ Decl(d).name # ""

\* Scope and name -> definition; a later registration overwrites an earlier.
BuildScope(ds) ==
  LET Key(k)  == <<Decl(ds[k]).path, Decl(ds[k]).name>>
      kept    == {k \in DOMAIN ds : Registered(ds[k])}
      last(k) == \A j \in kept : j > k => Key(j) # Key(k)
  IN  [key \in {Key(k) : k \in kept} |-> ds[CHOOSE k \in kept : Key(k) = key /\ last(k)]]

\* A simple name: from the scope outward to the root.
Lookup(scopes, path, name) ==
  LET found == {n \in 0 .. Len(path) : <<SubSeq(path, 1, n), name>> \in DOMAIN scopes}
  IN  IF found = {} THEN 0
      ELSE scopes[<<SubSeq(path, 1, CHOOSE n \in found : \A m \in found : m <= n), name>>]

\* A scoped name: from the root only.
LookupScoped(scopes, path, parts) ==
  IF Len(parts) = 1 THEN Lookup(scopes, path, parts[1])
  ELSE IF <<Front(parts), Last(parts)>> \in DOMAIN scopes
       THEN scopes[<<Front(parts), Last(parts)>>] ELSE 0

ScopesInit ==
  /\ world \in Worlds
  /\ file = 0 /\ phase = "start" /\ at = <<1, 1>>
  /\ resolved = [r \in AllRefs |-> 0]
  /\ units = {} /\ written = {}

\* The next file: its scopes are built from nothing.
StartFile ==
  /\ phase \in {"start", "rendering"} /\ units = {}
  /\ file < Len(world.files)
  /\ file' = file + 1
  /\ phase' = "resolving"
  /\ at' = <<1, 1>>
  /\ UNCHANGED <<world, resolved, units, written>>

\* Mutant: what was resolved for an earlier file is kept.
SetResolvedOnce(r, d) ==
  resolved' = IF resolved[r] = 0 THEN [resolved EXCEPT ![r] = d] ELSE resolved

SetResolved(r, d) == resolved' = [resolved EXCEPT ![r] = d]

\* resolveDefs goes through the definitions and their members in order.
InHand == Definitions(file)[at[1]]
Ref == <<InHand, at[2]>>
Looking == phase = "resolving" /\ at[1] <= Len(Definitions(file))
Target == LookupScoped(BuildScope(Definitions(file)), Decl(InHand).path, Parts(Ref))

NextDefinition ==
  /\ Looking /\ at[2] > Len(Decl(InHand).members)
  /\ at' = <<at[1] + 1, 1>>
  /\ UNCHANGED <<world, file, phase, resolved, units, written>>

AtMember(named) ==
  Looking /\ at[2] <= Len(Decl(InHand).members) /\ (IsNamed(Ref) = named)
PassMember == at' = <<at[1], at[2] + 1>>

SkipMember ==
  /\ AtMember(FALSE) /\ PassMember
  /\ UNCHANGED <<world, file, phase, resolved, units, written>>

ResolveMember ==
  /\ AtMember(TRUE) /\ Target # 0
  /\ SetResolved(Ref, Target) /\ PassMember
  /\ UNCHANGED <<world, file, phase, units, written>>

\* A name that is not found ends the program.
Unresolved ==
  /\ AtMember(TRUE) /\ Target = 0
  /\ phase' = "failed"
  /\ UNCHANGED <<world, file, at, resolved, units, written>>

ResolveNext == NextDefinition \/ SkipMember \/ ResolveMember \/ Unresolved

-----------------------------------------------------------------------------
(***************************************************************************)
(* Packages and the references between them                                *)
(***************************************************************************)
\* Modules below two levels share the package of their parent.
FlattenModPath(path) == IF Len(path) >= 3 THEN Front(path) ELSE path

RelPath(path) == [i \in DOMAIN FlattenModPath(path) |-> LowerCase[FlattenModPath(path)[i]]]

HasUnit(d) == Decl(d).kind # "skipped" \/ Decl(d).name # ""
Own(f) == world.files[f].own
InUnit(d, rel) == HasUnit(d) /\ RelPath(Decl(d).path) = rel
Places(f, rel) == {k \in DOMAIN Own(f) : InUnit(Own(f)[k], rel)}

\* The module path of the definition that made the unit.
ModulePath(f, rel) ==
  LET first == CHOOSE k \in Places(f, rel) : \A j \in Places(f, rel) : k <= j
  IN  FlattenModPath(Decl(Own(f)[first]).path)

\* Every unit of the file, when all its references are resolved.
CollectUnits ==
  /\ phase = "resolving" /\ at[1] > Len(Definitions(file))
  /\ phase' = "rendering"
  /\ units' = {RelPath(Decl(d).path) : d \in {e \in ToSet(Own(file)) : HasUnit(e)}}
  /\ UNCHANGED <<world, file, at, resolved, written>>

\* Mutant: the package is taken from the path as it was spelt.
WrittenNameDeep(modulePath, parts) ==
  IF Len(parts) = 1 THEN parts
  ELSE IF Front(parts) = modulePath THEN <<Last(parts)>>
  ELSE <<LowerCase[parts[Len(parts) - 1]], Last(parts)>>

\* resolveNamed: the name a reference is written with in a unit, and the
\* package it imports, <<>> for none.
WrittenName(modulePath, parts) ==
  LET target == FlattenModPath(Front(parts))
  IN  IF Len(parts) = 1 THEN parts
      ELSE IF target = modulePath THEN <<Last(parts)>>
      ELSE <<LowerCase[Last(target)], Last(parts)>>

\* The references preprocessUnit walks: those in structs, then in unions, then
\* in typedefs.  The k-th definition's i-th is walked at <<kind, k, i>>.
Walked == <<"struct", "union", "typedef">>
RefAt(f, p) == <<Own(f)[p[2]], p[3]>>
UnitPlaces(f, rel) ==
  UNION {{p \in (DOMAIN Walked) \X {k} \X (DOMAIN Decl(Own(f)[k]).members) :
            Walked[p[1]] = Decl(Own(f)[k]).kind /\ IsNamed(RefAt(f, p))} : k \in Places(f, rel)}
Before(p, q) ==
  \/ p[1] < q[1]
  \/ p[1] = q[1] /\ p[2] < q[2]
  \/ p[1] = q[1] /\ p[2] = q[2] /\ p[3] < q[3]
UnitRefs(f, rel) == {RefAt(f, p) : p \in UnitPlaces(f, rel)}

\* The import paths; one to an alias, of which a later replaces an earlier.
Imports(f, rel) ==
  LET Name(p) == WrittenName(ModulePath(f, rel), Parts(RefAt(f, p)))
      foreign == {p \in UnitPlaces(f, rel) : Len(Name(p)) = 2}
      LastOf(p) == \A q \in foreign : Before(p, q) => Name(q)[1] # Name(p)[1]
  IN  {RelPath(Front(Parts(RefAt(f, p)))) : p \in {q \in foreign : LastOf(q)}}

Rendered(f, rel) ==
  [file |-> f, package |-> rel, imports |-> Imports(f, rel),
   refs |-> [r \in UnitRefs(f, rel) |-> WrittenName(ModulePath(f, rel), Parts(r))]]

\* preprocessUnit and renderUnit; the units come in any order.
RenderUnit(rel) ==
  /\ phase = "rendering" /\ rel \in units
  /\ written' = written \cup {Rendered(file, rel)}
  /\ units' = units \ {rel}
  /\ UNCHANGED <<world, file, phase, at, resolved>>

\* The program's end, well or not.
Ended ==
  /\ phase = "failed" \/ (phase = "rendering" /\ units = {} /\ file = Len(world.files))
  /\ UNCHANGED scopeVars

ScopesNext ==
  StartFile \/ ResolveNext \/ CollectUnits \/ (\E rel \in units : RenderUnit(rel))
    \/ Ended

\* Resolving and writing by themselves.  TypeInfo adds what is computed while a
\* package is written; each of its steps is one of these or leaves their
\* variables alone.
ScopesSpec == ScopesInit /\ [][ScopesNext]_scopeVars

-----------------------------------------------------------------------------
(***************************************************************************)
(* Correctness                                                             *)
(***************************************************************************)
\* The type invariant: references point to definitions, and the place looked
\* at is one of the file in hand.
ScopesTypeOK ==
  /\ world \in Worlds
  /\ file \in 0 .. Len(world.files) /\ (phase # "start" => file > 0)
  /\ phase \in {"start", "resolving", "rendering", "failed"}
  /\ at \in (Nat \ {0}) \X (Nat \ {0})
  /\ phase \in {"resolving", "failed"} => at[1] <= Len(Definitions(file)) + 1
  /\ resolved \in [AllRefs -> Defs \cup {0}]
  /\ units \subseteq {RelPath(Decl(d).path) : d \in Defs}

\* d declares a name of a scope in file f: of several declarations, the last.
Declares(f, d, path, name) ==
  LET Named(k) == /\ Registered(Definitions(f)[k])
                  /\ Decl(Definitions(f)[k]).path = path
                  /\ Decl(Definitions(f)[k]).name = name
  IN  \E k \in DOMAIN Definitions(f) :
        /\ Definitions(f)[k] = d /\ Named(k)
        /\ \A j \in DOMAIN Definitions(f) : j > k => ~Named(j)

\* d is what the name at r stands for: a scoped name is d's own; a simple one
\* is visible from its scope and hidden by no inner declaration.
Denotes(f, r, d) ==
  LET scope == Decl(r[1]).path
      parts == Parts(r)
  IN  IF Len(parts) > 1 THEN Declares(f, d, Front(parts), Last(parts))
      ELSE /\ IsPrefix(Decl(d).path, scope)
           /\ Declares(f, d, Decl(d).path, parts[1])
           /\ \A e \in ToSet(Definitions(f)) :
                Registered(e) /\ IsPrefix(Decl(e).path, scope) /\ Decl(e).name = parts[1]
                  => Len(Decl(e).path) <= Len(Decl(d).path)

\* While a file is generated, every name in it and in what it includes is
\* resolved to the innermost declaration of this file, whatever an earlier
\* file that shares the nodes made of it; only a name that is declared
\* nowhere ends the program (types.go:127-184).
ResolvedInScope ==
  /\ phase = "rendering" =>
       \A r \in RefsIn(file) : resolved[r] # 0 /\ Denotes(file, r, resolved[r])
  /\ phase = "failed" =>
       \E r \in RefsIn(file) : \A d \in Defs : ~Denotes(file, r, d)

\* Every reference a package is written with is one that Go resolves to the
\* type's own package: by its simple name there, elsewhere by the package name
\* of exactly one import, the last segment of its path (generator.go:369-440).
ReferencesDenote ==
  \A w \in written : \A r \in DOMAIN w.refs : \A d \in Defs : Denotes(w.file, r, d) =>
    /\ Last(w.refs[r]) = Decl(d).name
    /\ {RelPath(Decl(d).path)} =
         IF Len(w.refs[r]) = 1 THEN {w.package}
         ELSE {p \in w.imports : Last(p) = w.refs[r][1]}

-----------------------------------------------------------------------------
(***************************************************************************)
(* Worlds for which ReferencesDenote is proved.                            *)
(***************************************************************************)
\* No two packages are known by the same name: imports are told apart by the
\* last segments of their paths.
AliasesUnique(w) ==
  \A d, e \in DOMAIN w.decls :
    LET p == RelPath(w.decls[d].path)
        q == RelPath(w.decls[e].path)
    IN  p # <<>> /\ q # <<>> /\ Last(p) = Last(q) => p = q

\* A simple name is one of the package it is used in: it is written as it is.
SimpleNamesLocal(w) ==
  \A f \in DOMAIN w.files : \A k \in DOMAIN w.files[f].own :
    LET d == w.decls[w.files[f].own[k]]
        Local(name) ==
          \E e \in ToSet(w.files[f].included \o w.files[f].own) :
            /\ w.decls[e].kind # "const" /\ w.decls[e].name = name
            /\ IsPrefix(w.decls[e].path, d.path)
            /\ RelPath(w.decls[e].path) = RelPath(d.path)
    IN  \A i \in DOMAIN d.members :
          d.members[i].type.core[1] = "named" /\ Len(d.members[i].type.core[2]) = 1
            => Local(d.members[i].type.core[2][1])
=============================================================================
