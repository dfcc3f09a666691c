-------------------------- MODULE TypeInfo_proofs --------------------------
(***************************************************************************)
(* Proofs about TypeScopes: whatever the declarations are, how they are    *)
(* nested and in which order the files that share them are processed,      *)
(* every name is resolved to the innermost declaration of the file in      *)
(* hand, and only a name nobody declares ends the program.                 *)
(*                                                                         *)
(* Proofs about TypeInfo: it implements TypeScopes; the two counts of enum *)
(* values agree; its state stays in its types (TypesStayTyped); and what a *)
(* peer reads from an enum's object are its values (EnumValuesRead).       *)
(*                                                                         *)
(* TypesStayTyped takes two things.  The layouts leave what is in front of *)
(* them alone, all DHEADERs they begin being finished (Closed), so that an *)
(* object's fifth byte is its kind.  And a name stands for a type that the *)
(* type it is in may hold (ResolvedHeld), so that typedefs and members     *)
(* lead down, to types under it; where none is under itself, no type is    *)
(* begun inside itself.                                                    *)
(*                                                                         *)
(* EnumValuesRead takes the place of every literal in the object it is     *)
(* written to (EnumObjectHolds), the places a reader of the same widths    *)
(* comes to (LiteralsLead), and that objects keep their indices            *)
(* (EnumsWritten).                                                         *)
(***************************************************************************)
EXTENDS TypeInfo, CdrOps_proofs, WellFoundedInduction

-----------------------------------------------------------------------------
(***************************************************************************)
(* Maxima                                                                  *)
(***************************************************************************)
\* Naturals have no infinite descent, as a set of pairs.
LEMMA LessIsWellFounded ==
  IsWellFoundedOn({p \in Nat \X Nat : p[1] < p[2]}, Nat)
BY NatLessThanWellFounded DEF OpToRel

\* A set of naturals up to n has a greatest element, as the searches for the
\* innermost scope and for the last registration assume.
LEMMA GreatestExists ==
  ASSUME NEW n \in Nat, NEW T, T \subseteq 0 .. n, T # {}
  PROVE  \E x \in T : \A y \in T : y <= x
<1> DEFINE U == {m \in 0 .. n : n - m \in T}
<1>1. U \subseteq Nat
  OBVIOUS
<1>2. U # {}
  <2>1. PICK t : t \in T
    OBVIOUS
  <2>2. t \in 0 .. n /\ n - t \in 0 .. n /\ n - (n - t) = t
    BY <2>1
  <2> QED
    BY <2>1, <2>2
<1>3. PICK u \in U : \A v \in U : <<v, u>> \notin {p \in Nat \X Nat : p[1] < p[2]}
  <2> HIDE DEF U
  <2> QED
    BY <1>1, <1>2, LessIsWellFounded, WFMin
<1>4. ASSUME NEW y \in T
      PROVE  y <= n - u
  <2>1. y \in 0 .. n /\ n - y \in 0 .. n /\ n - (n - y) = y
    OBVIOUS
  <2>2. n - y \in U
    BY <2>1
  <2>3. ~(n - y < u)
    BY <1>1, <1>3, <2>2
  <2> QED
    BY <2>1, <2>3
<1> QED
  BY <1>4

-----------------------------------------------------------------------------
(***************************************************************************)
(* What worlds are made of                                                 *)
(***************************************************************************)
LEMMA ElementOf ==
  ASSUME NEW S, NEW s \in Seq(S), NEW i \in 1 .. Len(s)
  PROVE  s[i] \in S
OBVIOUS

LEMMA WorldFacts ==
  ASSUME world \in Worlds
  PROVE  /\ Defs = 1 .. Len(world.decls) /\ Len(world.decls) \in Nat
         /\ \A d \in Defs : Decl(d).path \in Seq(STRING)
         /\ \A d \in Defs : /\ Len(Decl(d).members) \in Nat
                            /\ DOMAIN Decl(d).members = 1 .. Len(Decl(d).members)
                            /\ \A i \in DOMAIN Decl(d).members : Decl(d).members[i] \in MemberDecls
         /\ Len(world.files) \in Nat
         /\ \A f \in 1 .. Len(world.files) : Definitions(f) \in Seq(Defs)
<1>1. /\ world.decls \in Seq(Declarations)
      /\ world.files \in Seq([included : Seq(Defs), own : Seq(Defs)])
  BY WorldAssumption DEF Defs
<1>2. Defs = 1 .. Len(world.decls) /\ Len(world.decls) \in Nat
  BY <1>1 DEF Defs
<1>3. \A d \in Defs : Decl(d) \in Declarations
  BY <1>1, <1>2 DEF Decl
<1>4. \A d \in Defs : Decl(d).path \in Seq(STRING) /\ Decl(d).members \in Seq(MemberDecls)
  BY <1>3 DEF Declarations
<1>5. \A d \in Defs : /\ Len(Decl(d).members) \in Nat
                      /\ DOMAIN Decl(d).members = 1 .. Len(Decl(d).members)
                      /\ \A i \in DOMAIN Decl(d).members : Decl(d).members[i] \in MemberDecls
  BY <1>4
<1>6. ASSUME NEW f \in 1 .. Len(world.files)
      PROVE  Definitions(f) \in Seq(Defs)
  <2>1. world.files[f] \in [included : Seq(Defs), own : Seq(Defs)]
    BY <1>1, ElementOf
  <2> QED
    BY <2>1 DEF Definitions
<1> QED
  BY <1>1, <1>2, <1>4, <1>5, <1>6

LEMMA DefinitionFacts ==
  ASSUME world \in Worlds, NEW f \in 1 .. Len(world.files)
  PROVE  /\ Len(Definitions(f)) \in Nat
         /\ DOMAIN Definitions(f) = 1 .. Len(Definitions(f))
         /\ \A k \in DOMAIN Definitions(f) : Definitions(f)[k] \in Defs
BY WorldFacts

LEMMA RefFacts ==
  ASSUME world \in Worlds, NEW r \in AllRefs
  PROVE  /\ r[1] \in Defs /\ IsNamed(r)
         /\ r[2] \in 1 .. Len(Decl(r[1]).members)
         /\ Parts(r) \in Seq(STRING) /\ Parts(r) # <<>>
<1>1. r[1] \in Defs /\ IsNamed(r) /\ r[2] \in DOMAIN Decl(r[1]).members
  BY DEF AllRefs
<1>3. Decl(r[1]).members[r[2]] \in MemberDecls
  BY <1>1, WorldFacts
<1>4. TypeOf(r).core \in ({"prim", "string"} \X Nat) \cup ({"named"} \X (Seq(STRING) \ {<<>>}))
  BY <1>3 DEF TypeOf, MemberDecls, TypeRefs
<1>5. Parts(r) \in Seq(STRING) \ {<<>>}
  BY <1>1, <1>4 DEF IsNamed, Parts
<1> QED
  BY <1>1, <1>5, WorldFacts

-----------------------------------------------------------------------------
(***************************************************************************)
(* Scopes and what they declare                                            *)
(***************************************************************************)
\* The definitions of file f that are registered under a name of a scope.
Registrations(f, path, name) ==
  {k \in DOMAIN Definitions(f) :
     /\ Registered(Definitions(f)[k])
     /\ Decl(Definitions(f)[k]).path = path
     /\ Decl(Definitions(f)[k]).name = name}

\* A scope has the names that are registered in it ...
LEMMA ScopeHas ==
  ASSUME world \in Worlds, NEW f \in 1 .. Len(world.files), NEW path, NEW name
  PROVE  <<path, name>> \in DOMAIN BuildScope(Definitions(f)) <=> Registrations(f, path, name) # {}
BY DEF BuildScope, Registrations

\* ... and holds the last definition registered under each, as Declares says.
LEMMA ScopeDeclares ==
  ASSUME world \in Worlds, NEW f \in 1 .. Len(world.files), NEW path, NEW name,
         Registrations(f, path, name) # {}
  PROVE  Declares(f, BuildScope(Definitions(f))[<<path, name>>], path, name)
<1> DEFINE ds == Definitions(f)
           Last1(k) == /\ k \in Registrations(f, path, name)
                       /\ \A j \in Registrations(f, path, name) : j <= k
<1>1. \E k \in 0 .. Len(ds) : Last1(k)
  <2>1. Registrations(f, path, name) \subseteq 0 .. Len(ds)
    BY DefinitionFacts DEF Registrations
  <2> QED
    BY <2>1, GreatestExists, DefinitionFacts
<1>2. \A k : Last1(k) <=>
        /\ k \in {j \in DOMAIN ds : Registered(ds[j])}
        /\ <<Decl(ds[k]).path, Decl(ds[k]).name>> = <<path, name>>
        /\ \A j \in {i \in DOMAIN ds : Registered(ds[i])} :
             j > k => <<Decl(ds[j]).path, Decl(ds[j]).name>> # <<Decl(ds[k]).path, Decl(ds[k]).name>>
  BY DefinitionFacts DEF Registrations
<1>3. PICK k : Last1(k) /\ BuildScope(ds)[<<path, name>>] = ds[k]
  BY <1>1, <1>2 DEF BuildScope
<1> QED
  BY <1>3, DefinitionFacts DEF Declares, Registrations

\* What declares a name is a definition, registered under that name.
LEMMA DeclaredFacts ==
  ASSUME world \in Worlds, NEW f \in 1 .. Len(world.files), NEW path, NEW name,
         NEW d, Declares(f, d, path, name)
  PROVE  /\ Registrations(f, path, name) # {}
         /\ d \in Defs /\ d # 0 /\ d \in ToSet(Definitions(f)) /\ Registered(d)
         /\ Decl(d).path = path /\ Decl(d).name = name
<1>1. PICK k \in DOMAIN Definitions(f) :
        /\ Definitions(f)[k] = d /\ Registered(d)
        /\ Decl(d).path = path /\ Decl(d).name = name
  BY DEF Declares
<1>2. d \in Defs /\ d # 0
  BY <1>1, DefinitionFacts, WorldFacts
<1>3. k \in Registrations(f, path, name)
  BY <1>1 DEF Registrations
<1> QED
  BY <1>1, <1>2, <1>3 DEF ToSet

-----------------------------------------------------------------------------
(***************************************************************************)
(* Looking names up                                                        *)
(***************************************************************************)
\* Prefixes are what SubSeq makes of a path.
LEMMA PrefixFacts ==
  ASSUME NEW s \in Seq(STRING), NEW n \in 0 .. Len(s)
  PROVE  /\ SubSeq(s, 1, n) \in Seq(STRING) /\ Len(SubSeq(s, 1, n)) = n
         /\ IsPrefix(SubSeq(s, 1, n), s)
<1>1. /\ SubSeq(s, 1, n) \in Seq(STRING)
      /\ Len(SubSeq(s, 1, n)) = n
  BY SubSeqProperties
<1>2. SubSeq(SubSeq(s, 1, n), 1, n) = SubSeq(s, 1, n)
  BY <1>1, SubSeqFull
<1> QED
  BY <1>1, <1>2 DEF IsPrefix

LEMMA PrefixIs ==
  ASSUME NEW s \in Seq(STRING), NEW t \in Seq(STRING), IsPrefix(t, s)
  PROVE  Len(t) \in 0 .. Len(s) /\ t = SubSeq(s, 1, Len(t))
BY SubSeqFull DEF IsPrefix

\* A simple name is found in the innermost scope that declares it, or nowhere.
LEMMA LookupDenotes ==
  ASSUME world \in Worlds, NEW f \in 1 .. Len(world.files), NEW r \in AllRefs,
         Len(Parts(r)) = 1,
         NEW d, d = Lookup(BuildScope(Definitions(f)), Decl(r[1]).path, Parts(r)[1])
  PROVE  /\ d # 0 => Denotes(f, r, d)
         /\ d = 0 => \A e : ~Denotes(f, r, e)
<1> DEFINE path == Decl(r[1]).path
           name == Parts(r)[1]
           scopes == BuildScope(Definitions(f))
           found == {n \in 0 .. Len(path) : <<SubSeq(path, 1, n), name>> \in DOMAIN scopes}
<1>1. path \in Seq(STRING) /\ Len(path) \in Nat
  BY RefFacts, WorldFacts
<1>2. ASSUME NEW e, e \in ToSet(Definitions(f)), Registered(e),
             IsPrefix(Decl(e).path, path), Decl(e).name = name
      PROVE  Len(Decl(e).path) \in found
  <2>1. PICK k \in DOMAIN Definitions(f) : Definitions(f)[k] = e
    BY <1>2 DEF ToSet
  <2>2. e \in Defs
    BY <2>1, DefinitionFacts
  <2>3. Len(Decl(e).path) \in 0 .. Len(path) /\ Decl(e).path = SubSeq(path, 1, Len(Decl(e).path))
    BY <1>1, <1>2, <2>2, WorldFacts, PrefixIs
  <2>4. k \in Registrations(f, Decl(e).path, name)
    BY <1>2, <2>1 DEF Registrations
  <2>5. <<Decl(e).path, name>> \in DOMAIN scopes
    BY <2>4, ScopeHas
  <2> QED
    BY <2>3, <2>5
<1>3. CASE found = {}
  <2>1. d = 0
    BY <1>3 DEF Lookup
  <2>2. ASSUME NEW e, Denotes(f, r, e)
        PROVE  FALSE
    <3>1. IsPrefix(Decl(e).path, path) /\ Declares(f, e, Decl(e).path, name)
      BY <2>2 DEF Denotes
    <3>2. e \in ToSet(Definitions(f)) /\ Registered(e) /\ Decl(e).name = name
      BY <3>1, DeclaredFacts
    <3>3. Len(Decl(e).path) \in found
      BY <1>2, <3>1, <3>2
    <3> QED
      BY <1>3, <3>3
  <2> QED
    BY <2>1, <2>2
<1>4. CASE found # {}
  <2>1. PICK n \in found :
          /\ \A m \in found : m <= n
          /\ d = scopes[<<SubSeq(path, 1, n), name>>]
    <3>1. \E n \in found : \A m \in found : m <= n
      BY <1>1, <1>4, GreatestExists
    <3> QED
      BY <1>4, <3>1 DEF Lookup
  <2>2. Declares(f, d, SubSeq(path, 1, n), name)
    BY <2>1, ScopeHas, ScopeDeclares
  <2>3. /\ Decl(d).path = SubSeq(path, 1, n) /\ d # 0
        /\ IsPrefix(Decl(d).path, path) /\ Len(Decl(d).path) = n
    <3>1. n \in 0 .. Len(path)
      OBVIOUS
    <3>2. Decl(d).path = SubSeq(path, 1, n) /\ d # 0
      <4>1. PICK p : p = SubSeq(path, 1, n) /\ Declares(f, d, p, name)
        BY <2>2
      <4>2. d \in Defs
        BY <4>1, DeclaredFacts
      <4>3. Decl(d).path = p
        BY <4>1 DEF Declares
      <4> QED
        BY <4>1, <4>2, <4>3, WorldFacts
    <3>3. IsPrefix(SubSeq(path, 1, n), path) /\ Len(SubSeq(path, 1, n)) = n
      BY <1>1, <3>1, PrefixFacts
    <3> QED
      BY <3>2, <3>3
  <2>4. Denotes(f, r, d)
    <3>1. ASSUME NEW e \in ToSet(Definitions(f)), Registered(e),
                 IsPrefix(Decl(e).path, path), Decl(e).name = name
          PROVE  Len(Decl(e).path) <= Len(Decl(d).path)
      BY <1>2, <2>1, <2>3, <3>1
    <3> QED
      BY <2>2, <2>3, <3>1 DEF Denotes
  <2> QED
    BY <2>3, <2>4
<1> QED
  BY <1>3, <1>4

LEMMA Several ==
  ASSUME NEW n \in Nat, n # 0, n # 1
  PROVE  n > 1
OBVIOUS

\* A scoped name is found where its scope declares it, or nowhere.
LEMMA ScopedDenotes ==
  ASSUME world \in Worlds, NEW f \in 1 .. Len(world.files), NEW r \in AllRefs,
         Len(Parts(r)) # 1,
         NEW d, d = LookupScoped(BuildScope(Definitions(f)), Decl(r[1]).path, Parts(r))
  PROVE  /\ d # 0 => Denotes(f, r, d)
         /\ d = 0 => \A e : ~Denotes(f, r, e)
<1> DEFINE parts == Parts(r)
           scopes == BuildScope(Definitions(f))
<1>1. Len(parts) > 1
  <2>1. parts \in Seq(STRING) /\ parts # <<>>
    BY RefFacts
  <2>2. Len(parts) \in Nat /\ Len(parts) # 0
    BY <2>1, EmptySeq
  <2> QED
    BY <2>2, Several
<1>2. \A e : Denotes(f, r, e) <=> Declares(f, e, Front(parts), Last(parts))
  BY <1>1 DEF Denotes
<1>3. CASE <<Front(parts), Last(parts)>> \in DOMAIN scopes
  <2>1. d = scopes[<<Front(parts), Last(parts)>>]
    BY <1>3 DEF LookupScoped
  <2>2. Declares(f, d, Front(parts), Last(parts))
    BY <1>3, <2>1, ScopeHas, ScopeDeclares
  <2> QED
    BY <1>2, <2>2, DeclaredFacts
<1>4. CASE <<Front(parts), Last(parts)>> \notin DOMAIN scopes
  <2>1. d = 0
    BY <1>4 DEF LookupScoped
  <2>2. \A e : ~Declares(f, e, Front(parts), Last(parts))
    BY <1>4, ScopeHas, DeclaredFacts
  <2> QED
    BY <1>2, <2>1, <2>2
<1> QED
  BY <1>3, <1>4

LEMMA TargetDenotes ==
  ASSUME world \in Worlds, NEW f \in 1 .. Len(world.files), NEW r \in AllRefs,
         NEW d, d = LookupScoped(BuildScope(Definitions(f)), Decl(r[1]).path, Parts(r))
  PROVE  /\ d # 0 => Denotes(f, r, d) /\ d \in Defs
         /\ d = 0 => \A e : ~Denotes(f, r, e)
<1>1. /\ d # 0 => Denotes(f, r, d)
      /\ d = 0 => \A e : ~Denotes(f, r, e)
  BY LookupDenotes, ScopedDenotes DEF LookupScoped
<1>2. ASSUME Denotes(f, r, d)
      PROVE  d \in Defs
  <2>1. \E path, name : Declares(f, d, path, name)
    BY <1>2 DEF Denotes
  <2> QED
    BY <2>1, DeclaredFacts
<1> QED
  BY <1>1, <1>2

-----------------------------------------------------------------------------
(***************************************************************************)
(* The inductive invariant                                                 *)
(***************************************************************************)
\* What resolveDefs has gone through is resolved.
Passed(k, i) == k < at[1] \/ (k = at[1] /\ i < at[2])
ResolvedSoFar ==
  phase = "resolving" =>
    \A k \in DOMAIN Definitions(file), i \in Nat :
      Passed(k, i) /\ <<Definitions(file)[k], i>> \in AllRefs =>
        /\ resolved[<<Definitions(file)[k], i>>] # 0
        /\ Denotes(file, <<Definitions(file)[k], i>>, resolved[<<Definitions(file)[k], i>>])

IndInv == ScopesTypeOK /\ ResolvedSoFar /\ ResolvedInScope

\* Declarations and files do not change, so neither does what names denote.
LEMMA SameWorld ==
  ASSUME world' = world
  PROVE  /\ Defs' = Defs /\ AllRefs' = AllRefs
         /\ \A f : Definitions(f)' = Definitions(f)
         /\ \A f : RefsIn(f)' = RefsIn(f)
         /\ \A d : Decl(d)' = Decl(d)
         /\ \A path : RelPath(path)' = RelPath(path)
         /\ \A f, r, d : Denotes(f, r, d)' = Denotes(f, r, d)
<1>1. /\ Defs' = Defs /\ AllRefs' = AllRefs
      /\ \A f : Definitions(f)' = Definitions(f)
      /\ \A d : Decl(d)' = Decl(d)
      /\ \A r : Parts(r)' = Parts(r)
      /\ \A d : Registered(d)' = Registered(d)
      /\ \A path : RelPath(path)' = RelPath(path)
  BY DEF Defs, AllRefs, Definitions, Decl, IsNamed, TypeOf, Parts, Registered,
         RelPath, FlattenModPath
<1>2. \A f : RefsIn(f)' = RefsIn(f)
  BY <1>1 DEF RefsIn
<1>3. \A f, d, path, name : Declares(f, d, path, name)' = Declares(f, d, path, name)
  BY <1>1 DEF Declares
<1>4. \A f, r, d : Denotes(f, r, d)' = Denotes(f, r, d)
  BY <1>1, <1>3 DEF Denotes
<1> QED
  BY <1>1, <1>2, <1>4

\* The member that is looked at, when there is one.
LEMMA MemberAt ==
  ASSUME ScopesTypeOK, Looking
  PROVE  /\ file \in 1 .. Len(world.files) /\ world \in Worlds
         /\ at[1] \in DOMAIN Definitions(file) /\ InHand \in Defs
         /\ AtMember(TRUE) => Ref \in AllRefs /\ Ref \in RefsIn(file)
         /\ AtMember(FALSE) => Ref \notin AllRefs
         /\ at[2] > Len(Decl(InHand).members) =>
              \A i \in Nat : <<InHand, i>> \in AllRefs => i < at[2]
<1>1. /\ file \in 1 .. Len(world.files) /\ world \in Worlds
      /\ at[1] \in Nat \ {0} /\ at[2] \in Nat \ {0} /\ at[1] <= Len(Definitions(file))
  BY WorldFacts DEF ScopesTypeOK, Looking
<1>2. at[1] \in DOMAIN Definitions(file) /\ InHand \in Defs
  BY <1>1, DefinitionFacts DEF InHand
<1>3. /\ Len(Decl(InHand).members) \in Nat
      /\ DOMAIN Decl(InHand).members = 1 .. Len(Decl(InHand).members)
  BY <1>1, <1>2, WorldFacts
<1>4. \A i : <<InHand, i>> \in AllRefs <=>
        i \in DOMAIN Decl(InHand).members /\ IsNamed(<<InHand, i>>)
  BY <1>2 DEF AllRefs
<1>5. AtMember(TRUE) => Ref \in AllRefs
  BY <1>1, <1>3, <1>4 DEF AtMember, Ref
<1>6. AtMember(FALSE) => Ref \notin AllRefs
  BY <1>4 DEF AtMember, Ref
<1>7. Ref \in AllRefs => Ref \in RefsIn(file)
  BY <1>2 DEF Ref, RefsIn, ToSet, InHand
<1>8. at[2] > Len(Decl(InHand).members) =>
        \A i \in Nat : <<InHand, i>> \in AllRefs => i < at[2]
  BY <1>1, <1>3, <1>4
<1> QED
  BY <1>1, <1>2, <1>5, <1>6, <1>7, <1>8

LEMMA TypeInit == ScopesInit => ScopesTypeOK
<1> SUFFICES ASSUME ScopesInit
             PROVE  ScopesTypeOK
  OBVIOUS
<1>1. world \in Worlds /\ Len(world.files) \in Nat
  BY WorldFacts DEF ScopesInit
<1>2. resolved \in [AllRefs -> Defs \cup {0}]
  BY DEF ScopesInit
<1> QED
  BY <1>1, <1>2 DEF ScopesInit, ScopesTypeOK

LEMMA TypeStep == ScopesTypeOK /\ [ScopesNext]_scopeVars => ScopesTypeOK'
<1> SUFFICES ASSUME ScopesTypeOK, [ScopesNext]_scopeVars
             PROVE  ScopesTypeOK'
  OBVIOUS
<1>0. world \in Worlds /\ Len(world.files) \in Nat
  BY WorldFacts DEF ScopesTypeOK
<1>1. CASE StartFile
  <2>1. world' = world /\ resolved' = resolved /\ units' = units
    BY <1>1 DEF StartFile
  <2>2. file' \in 1 .. Len(world.files) /\ at' = <<1, 1>> /\ phase' = "resolving"
    BY <1>0, <1>1 DEF StartFile, ScopesTypeOK
  <2>3. Len(Definitions(file')) \in Nat
    BY <1>0, <2>2, DefinitionFacts
  <2>4. Definitions(file)' = Definitions(file')
    BY <2>1 DEF Definitions
  <2> QED
    BY <1>0, <2>1, <2>2, <2>3, <2>4, SameWorld DEF ScopesTypeOK
<1>2. CASE NextDefinition
  <2>1. /\ world' = world /\ file' = file /\ phase' = phase /\ resolved' = resolved
        /\ units' = units /\ at' = <<at[1] + 1, 1>>
        /\ phase = "resolving" /\ at[1] <= Len(Definitions(file))
    BY <1>2 DEF NextDefinition, Looking
  <2>2. Len(Definitions(file)) \in Nat
    BY <1>0, <2>1, DefinitionFacts DEF ScopesTypeOK
  <2>3. Definitions(file)' = Definitions(file)
    BY <2>1, SameWorld
  <2>4. at' \in (Nat \ {0}) \X (Nat \ {0}) /\ at'[1] <= Len(Definitions(file)) + 1
    BY <2>1, <2>2 DEF ScopesTypeOK
  <2> QED
    BY <1>0, <2>1, <2>3, <2>4, SameWorld DEF ScopesTypeOK
<1>3. CASE SkipMember
  <2>1. /\ world' = world /\ file' = file /\ phase' = phase /\ resolved' = resolved
        /\ units' = units /\ at' = <<at[1], at[2] + 1>>
    BY <1>3 DEF SkipMember, PassMember
  <2>2. Definitions(file)' = Definitions(file)
    BY <2>1, SameWorld
  <2> QED
    BY <1>0, <2>1, <2>2, SameWorld DEF ScopesTypeOK
<1>4. CASE ResolveMember
  <2>1. /\ world' = world /\ file' = file /\ phase' = phase
        /\ resolved' = [resolved EXCEPT ![Ref] = Target]
        /\ units' = units /\ at' = <<at[1], at[2] + 1>>
        /\ Looking /\ Target # 0 /\ AtMember(TRUE)
    BY <1>4 DEF ResolveMember, PassMember, SetResolved, AtMember
  <2>2. Definitions(file)' = Definitions(file)
    BY <2>1, SameWorld
  <2>3. Target \in Defs
    BY <1>0, <2>1, MemberAt, TargetDenotes DEF Target, Ref
  <2>4. resolved' \in [AllRefs -> Defs \cup {0}]
    BY <2>1, <2>3 DEF ScopesTypeOK
  <2> QED
    BY <1>0, <2>1, <2>2, <2>4, SameWorld DEF ScopesTypeOK
<1>5. CASE Unresolved
  <2>1. /\ world' = world /\ file' = file /\ phase = "resolving" /\ phase' = "failed"
        /\ resolved' = resolved /\ units' = units /\ at' = at
    BY <1>5 DEF Unresolved, AtMember, Looking
  <2>2. Definitions(file)' = Definitions(file)
    BY <2>1, SameWorld
  <2> QED
    BY <1>0, <2>1, <2>2, SameWorld DEF ScopesTypeOK
<1>6. CASE CollectUnits
  <2>1. /\ world' = world /\ file' = file /\ phase = "resolving" /\ phase' = "rendering"
        /\ resolved' = resolved /\ at' = at
    BY <1>6 DEF CollectUnits
  <2>2. ToSet(Own(file)) \subseteq Defs
    <3>1. file \in 1 .. Len(world.files)
      BY <1>0, <2>1 DEF ScopesTypeOK
    <3>2. world.files \in Seq([included : Seq(Defs), own : Seq(Defs)])
      BY <1>0, WorldAssumption DEF Defs
    <3>3. world.files[file] \in [included : Seq(Defs), own : Seq(Defs)]
      BY <3>1, <3>2, ElementOf
    <3> QED
      BY <3>3 DEF Own, ToSet
  <2>3. units' \subseteq {RelPath(Decl(d).path) : d \in Defs}
    BY <1>6, <2>2 DEF CollectUnits
  <2>4. units' \subseteq {RelPath(Decl(d).path) : d \in Defs}'
    BY <2>1, <2>3, SameWorld
  <2> QED
    BY <1>0, <2>1, <2>4, SameWorld DEF ScopesTypeOK
<1>7. ASSUME NEW rel \in units, RenderUnit(rel)
      PROVE  ScopesTypeOK'
  <2>1. /\ world' = world /\ file' = file /\ phase' = phase /\ resolved' = resolved
        /\ at' = at /\ units' = units \ {rel}
    BY <1>7 DEF RenderUnit
  <2>2. Definitions(file)' = Definitions(file)
    BY <2>1, SameWorld
  <2> QED
    BY <1>0, <2>1, <2>2, SameWorld DEF ScopesTypeOK
<1>8. CASE UNCHANGED scopeVars
  <2>1. /\ world' = world /\ file' = file /\ phase' = phase /\ resolved' = resolved
        /\ at' = at /\ units' = units
    BY <1>8 DEF scopeVars
  <2>2. Definitions(file)' = Definitions(file)
    BY <2>1, SameWorld
  <2> QED
    BY <1>0, <2>1, <2>2, SameWorld DEF ScopesTypeOK
<1> QED
  BY <1>1, <1>2, <1>3, <1>4, <1>5, <1>6, <1>7, <1>8 DEF ScopesNext, ResolveNext, Ended

-----------------------------------------------------------------------------
(***************************************************************************)
(* Resolution                                                              *)
(***************************************************************************)
\* When the file's last definition has been passed, all its references have.
LEMMA AllPassed ==
  ASSUME IndInv, phase = "resolving", at[1] > Len(Definitions(file))
  PROVE  \A r \in RefsIn(file) : resolved[r] # 0 /\ Denotes(file, r, resolved[r])
<1> SUFFICES ASSUME NEW r \in RefsIn(file)
             PROVE  resolved[r] # 0 /\ Denotes(file, r, resolved[r])
  OBVIOUS
<1>1. world \in Worlds /\ file \in 1 .. Len(world.files)
  BY WorldFacts DEF IndInv, ScopesTypeOK
<1>2. r \in AllRefs /\ r = <<r[1], r[2]>>
  BY DEF RefsIn, AllRefs
<1>3. PICK k \in DOMAIN Definitions(file) : Definitions(file)[k] = r[1]
  BY DEF RefsIn, ToSet
<1>4. r[2] \in Nat
  BY <1>1, <1>2, RefFacts, WorldFacts
<1>5. Passed(k, r[2])
  BY <1>1, <1>3, DefinitionFacts DEF Passed, IndInv, ScopesTypeOK
<1> QED
  BY <1>2, <1>3, <1>4, <1>5 DEF IndInv, ResolvedSoFar

LEMMA ResolvedStep ==
  ASSUME IndInv, [ScopesNext]_scopeVars
  PROVE  ResolvedSoFar'
<1>1. CASE StartFile
  <2>1. world' = world /\ at' = <<1, 1>> /\ file' \in 1 .. Len(world.files)
    BY <1>1, WorldFacts DEF StartFile, IndInv, ScopesTypeOK
  <2>2. \A k \in DOMAIN Definitions(file'), i \in Nat :
          <<Definitions(file')[k], i>> \in AllRefs => ~Passed(k, i)'
    <3> SUFFICES ASSUME NEW k \in DOMAIN Definitions(file'), NEW i \in Nat,
                        <<Definitions(file')[k], i>> \in AllRefs
                 PROVE  ~Passed(k, i)'
      OBVIOUS
    <3>1. world \in Worlds /\ k \in Nat \ {0}
      BY <2>1, DefinitionFacts DEF IndInv, ScopesTypeOK
    <3>2. i \in Nat \ {0}
      BY <3>1, RefFacts, WorldFacts
    <3> QED
      BY <2>1, <3>1, <3>2 DEF Passed
  <2>3. Definitions(file)' = Definitions(file')
    BY <2>1 DEF Definitions
  <2> QED
    BY <2>1, <2>2, <2>3, SameWorld DEF ResolvedSoFar
<1>2. CASE NextDefinition
  <2>1. /\ world' = world /\ file' = file /\ phase' = phase /\ resolved' = resolved
        /\ at' = <<at[1] + 1, 1>> /\ Looking /\ phase = "resolving"
        /\ at[2] > Len(Decl(InHand).members)
    BY <1>2 DEF NextDefinition, Looking
  <2>2. ASSUME NEW k \in DOMAIN Definitions(file), NEW i \in Nat,
               Passed(k, i)', <<Definitions(file)[k], i>> \in AllRefs
        PROVE  Passed(k, i)
    <3>0. \A j \in Nat : <<InHand, j>> \in AllRefs => j < at[2]
      BY <2>1, MemberAt DEF IndInv
    <3>1. k \in Nat \ {0} /\ at[1] \in Nat \ {0}
      <4>1. world \in Worlds /\ file \in 1 .. Len(world.files) /\ at[1] \in Nat \ {0}
        BY <2>1, MemberAt DEF IndInv, ScopesTypeOK
      <4> QED
        BY <4>1, DefinitionFacts
    <3>2. i \in Nat \ {0}
      BY <2>1, <2>2, RefFacts, WorldFacts DEF IndInv, ScopesTypeOK
    <3>3. k < at[1] + 1 \/ (k = at[1] + 1 /\ i < 1)
      BY <2>1, <2>2 DEF Passed
    <3>4. k < at[1] \/ k = at[1]
      BY <3>1, <3>2, <3>3
    <3> QED
      BY <2>2, <3>0, <3>4 DEF Passed, InHand
  <2>3. Definitions(file)' = Definitions(file) /\ AllRefs' = AllRefs
    BY <2>1, SameWorld
  <2> QED
    BY <2>1, <2>2, <2>3, SameWorld DEF IndInv, ResolvedSoFar
<1>3. CASE SkipMember
  <2>1. /\ world' = world /\ file' = file /\ phase' = phase /\ resolved' = resolved
        /\ at' = <<at[1], at[2] + 1>> /\ Looking /\ phase = "resolving" /\ AtMember(FALSE)
    BY <1>3 DEF SkipMember, AtMember, PassMember, Looking
  <2>2. ASSUME NEW k \in DOMAIN Definitions(file), NEW i \in Nat,
               Passed(k, i)', <<Definitions(file)[k], i>> \in AllRefs
        PROVE  Passed(k, i)
    <3>1. k < at[1] \/ (k = at[1] /\ i < at[2] + 1)
      BY <2>1, <2>2 DEF Passed
    <3>2. at[2] \in Nat /\ <<InHand, at[2]>> \notin AllRefs
      BY <2>1, MemberAt DEF IndInv, ScopesTypeOK, Ref
    <3>3. k = at[1] => i # at[2]
      BY <2>2, <3>2 DEF InHand
    <3>4. i < at[2] + 1 /\ i # at[2] => i < at[2]
      BY <3>2
    <3> QED
      BY <3>1, <3>3, <3>4 DEF Passed
  <2>3. Definitions(file)' = Definitions(file) /\ AllRefs' = AllRefs
    BY <2>1, SameWorld
  <2> QED
    BY <2>1, <2>2, <2>3, SameWorld DEF IndInv, ResolvedSoFar
<1>4. CASE ResolveMember
  <2>1. /\ world' = world /\ file' = file /\ phase' = phase
        /\ resolved' = [resolved EXCEPT ![Ref] = Target]
        /\ at' = <<at[1], at[2] + 1>> /\ Looking /\ phase = "resolving" /\ AtMember(TRUE)
        /\ Target # 0
    BY <1>4 DEF ResolveMember, AtMember, PassMember, SetResolved, Looking
  <2>2. /\ Ref \in AllRefs /\ world \in Worlds /\ file \in 1 .. Len(world.files)
        /\ at[2] \in Nat
    BY <2>1, MemberAt DEF IndInv, ScopesTypeOK
  <2>3. Denotes(file, Ref, Target)
    BY <2>1, <2>2, TargetDenotes DEF Target, Ref
  <2>4. resolved' = [r \in AllRefs |-> IF r = Ref THEN Target ELSE resolved[r]]
    BY <2>1 DEF IndInv, ScopesTypeOK
  <2>5. ASSUME NEW k \in DOMAIN Definitions(file), NEW i \in Nat,
               Passed(k, i)', <<Definitions(file)[k], i>> \in AllRefs
        PROVE  /\ resolved'[<<Definitions(file)[k], i>>] # 0
               /\ Denotes(file, <<Definitions(file)[k], i>>,
                          resolved'[<<Definitions(file)[k], i>>])
    <3>1. CASE <<Definitions(file)[k], i>> = Ref
      BY <2>1, <2>3, <2>4, <2>5, <3>1
    <3>2. CASE <<Definitions(file)[k], i>> # Ref
      <4>1. k < at[1] \/ (k = at[1] /\ i < at[2] + 1)
        BY <2>1, <2>5 DEF Passed
      <4>2. k = at[1] => i # at[2]
        BY <3>2 DEF Ref, InHand
      <4>3. i < at[2] + 1 /\ i # at[2] => i < at[2]
        BY <2>2
      <4>4. Passed(k, i)
        BY <4>1, <4>2, <4>3 DEF Passed
      <4> QED
        BY <2>1, <2>4, <2>5, <3>2, <4>4 DEF IndInv, ResolvedSoFar
    <3> QED
      BY <3>1, <3>2
  <2>6. Definitions(file)' = Definitions(file) /\ AllRefs' = AllRefs
    BY <2>1, SameWorld
  <2> QED
    BY <2>1, <2>5, <2>6, SameWorld DEF ResolvedSoFar
<1>5. CASE Unresolved \/ CollectUnits
  BY <1>5 DEF Unresolved, CollectUnits, ResolvedSoFar
<1>6. ASSUME NEW rel \in units, RenderUnit(rel)
      PROVE  ResolvedSoFar'
  BY <1>6 DEF RenderUnit, ResolvedSoFar
<1>7. CASE UNCHANGED scopeVars
  <2>1. /\ world' = world /\ file' = file /\ phase' = phase /\ resolved' = resolved
        /\ at' = at
    BY <1>7 DEF scopeVars
  <2>2. Definitions(file)' = Definitions(file) /\ AllRefs' = AllRefs
    BY <2>1, SameWorld
  <2>3. \A k, i : Passed(k, i)' <=> Passed(k, i)
    BY <2>1 DEF Passed
  <2> QED
    BY <2>1, <2>2, <2>3, SameWorld DEF IndInv, ResolvedSoFar
<1> QED
  BY <1>1, <1>2, <1>3, <1>4, <1>5, <1>6, <1>7 DEF ScopesNext, ResolveNext, Ended

LEMMA InScopeStep ==
  ASSUME IndInv, [ScopesNext]_scopeVars
  PROVE  ResolvedInScope'
<1>1. CASE StartFile \/ NextDefinition \/ SkipMember \/ ResolveMember
  BY <1>1 DEF StartFile, NextDefinition, SkipMember, ResolveMember, AtMember, Looking,
              ResolvedInScope
<1>2. CASE Unresolved
  <2>1. /\ world' = world /\ file' = file /\ phase' = "failed"
        /\ Looking /\ AtMember(TRUE) /\ Target = 0
    BY <1>2 DEF Unresolved, AtMember
  <2>2. Ref \in RefsIn(file) /\ \A d \in Defs : ~Denotes(file, Ref, d)
    BY <2>1, MemberAt, TargetDenotes DEF IndInv, Target, Ref
  <2>3. RefsIn(file)' = RefsIn(file) /\ Defs' = Defs
    BY <2>1, SameWorld
  <2> QED
    BY <2>1, <2>2, <2>3, SameWorld DEF ResolvedInScope
<1>3. CASE CollectUnits
  <2>1. /\ world' = world /\ file' = file /\ phase = "resolving" /\ phase' = "rendering"
        /\ resolved' = resolved /\ at[1] > Len(Definitions(file))
    BY <1>3 DEF CollectUnits
  <2>2. \A r \in RefsIn(file) : resolved[r] # 0 /\ Denotes(file, r, resolved[r])
    BY <2>1, AllPassed
  <2>3. RefsIn(file)' = RefsIn(file)
    BY <2>1, SameWorld
  <2> QED
    BY <2>1, <2>2, <2>3, SameWorld DEF ResolvedInScope
<1>4. ASSUME /\ world' = world /\ file' = file /\ phase' = phase /\ resolved' = resolved
      PROVE  ResolvedInScope'
  <2>1. RefsIn(file)' = RefsIn(file) /\ Defs' = Defs
    BY <1>4, SameWorld
  <2> QED
    BY <1>4, <2>1, SameWorld DEF IndInv, ResolvedInScope
<1>5. CASE (\E rel \in units : RenderUnit(rel)) \/ UNCHANGED scopeVars
  BY <1>4, <1>5 DEF RenderUnit, scopeVars
<1> QED
  BY <1>1, <1>2, <1>3, <1>5 DEF ScopesNext, ResolveNext, Ended

-----------------------------------------------------------------------------
(***************************************************************************)
(* Packages                                                                *)
(***************************************************************************)
\* The path of a package ends in the lower-case name of its module.
LEMMA LastOfRelPath ==
  ASSUME NEW path \in Seq(STRING), path # <<>>
  PROVE  /\ FlattenModPath(path) \in Seq(STRING) /\ FlattenModPath(path) # <<>>
         /\ RelPath(path) # <<>>
         /\ Last(RelPath(path)) = LowerCase[Last(FlattenModPath(path))]
<1> DEFINE flat == FlattenModPath(path)
           S == {LowerCase[m] : m \in STRING}
<1>1. Len(path) \in Nat \ {0}
  BY EmptySeq
<1>2. flat \in Seq(STRING) /\ Len(flat) \in Nat \ {0}
  <2>1. CASE Len(path) >= 3
    <3>1. Front(path) \in Seq(STRING) /\ Len(Front(path)) = Len(path) - 1
      BY <1>1, <2>1, SubSeqProperties DEF Front
    <3> QED
      BY <1>1, <2>1, <3>1 DEF FlattenModPath
  <2>2. CASE ~(Len(path) >= 3)
    BY <1>1, <2>2 DEF FlattenModPath
  <2> QED
    BY <2>1, <2>2
<1>3. RelPath(path) = [i \in 1 .. Len(flat) |-> LowerCase[flat[i]]]
  BY <1>2, LenProperties DEF RelPath
<1> HIDE DEF flat
<1>4. \A i \in 1 .. Len(flat) : flat[i] \in STRING
  BY <1>2
<1>5. RelPath(path) \in [1 .. Len(flat) -> S]
  BY <1>3, <1>4
<1>6. RelPath(path) \in Seq(S) /\ Len(RelPath(path)) = Len(flat)
  <2> HIDE DEF S
  <2>1. RelPath(path) \in Seq(S)
    BY <1>2, <1>5, SeqDef
  <2>2. DOMAIN RelPath(path) = 1 .. Len(flat)
    BY <1>5
  <2> QED
    BY <1>2, <2>1, <2>2, LenProperties
<1>7. Last(RelPath(path)) = LowerCase[Last(flat)]
  BY <1>2, <1>3, <1>6 DEF Last
<1>8. RelPath(path) # <<>> /\ flat # <<>>
  BY <1>2, <1>6, EmptySeq
<1> QED
  BY <1>2, <1>7, <1>8 DEF flat

\* The files' own definitions.
LEMMA OwnFacts ==
  ASSUME world \in Worlds, NEW f \in 1 .. Len(world.files)
  PROVE  /\ Own(f) \in Seq(Defs) /\ Len(Own(f)) \in Nat
         /\ DOMAIN Own(f) = 1 .. Len(Own(f))
         /\ \A k \in DOMAIN Own(f) : Own(f)[k] \in Defs
         /\ ToSet(Own(f)) \subseteq ToSet(Definitions(f))
<1>1. world.files \in Seq([included : Seq(Defs), own : Seq(Defs)])
  BY WorldAssumption DEF Defs
<1>2. world.files[f] \in [included : Seq(Defs), own : Seq(Defs)]
  BY <1>1, ElementOf
<1> DEFINE inc == world.files[f].included
           own == world.files[f].own
<1>3. inc \in Seq(Defs) /\ own \in Seq(Defs)
  BY <1>2
<1>4. Own(f) = own /\ Definitions(f) = inc \o own
  BY DEF Own, Definitions
<1> HIDE DEF inc, own
<1>5. \A k \in DOMAIN own : /\ Len(inc) + k \in DOMAIN (inc \o own)
                            /\ (inc \o own)[Len(inc) + k] = own[k]
  BY <1>3, ConcatProperties, LenProperties
<1>6. ToSet(own) \subseteq ToSet(inc \o own)
  BY <1>5 DEF ToSet
<1> QED
  BY <1>3, <1>4, <1>6, LenProperties

\* What is walked for a unit is a named reference of the file, in a definition
\* of that unit.
LEMMA UnitFacts ==
  ASSUME world \in Worlds, NEW f \in 1 .. Len(world.files), NEW rel,
         NEW p \in UnitPlaces(f, rel)
  PROVE  /\ p[1] \in 1 .. 3 /\ p[2] \in Places(f, rel) /\ p[2] \in DOMAIN Own(f)
         /\ p[3] \in 1 .. Len(Decl(Own(f)[p[2]]).members)
         /\ RefAt(f, p) \in RefsIn(f) /\ RefAt(f, p) \in AllRefs
         /\ RelPath(Decl(Own(f)[p[2]]).path) = rel
<1>1. PICK k \in Places(f, rel) :
        /\ p \in (DOMAIN Walked) \X {k} \X (DOMAIN Decl(Own(f)[k]).members)
        /\ IsNamed(RefAt(f, p))
  BY DEF UnitPlaces
<1>2. p[1] \in DOMAIN Walked /\ p[2] = k /\ p[3] \in DOMAIN Decl(Own(f)[k]).members
  BY <1>1
<1>3. k \in DOMAIN Own(f) /\ Own(f)[k] \in Defs /\ RelPath(Decl(Own(f)[k]).path) = rel
  BY OwnFacts DEF Places, InUnit
<1>4. RefAt(f, p) = <<Own(f)[k], p[3]>>
  BY <1>2 DEF RefAt
<1>5. RefAt(f, p) \in AllRefs
  BY <1>1, <1>2, <1>3, <1>4 DEF AllRefs
<1>6. Own(f)[k] \in ToSet(Definitions(f))
  BY <1>3, OwnFacts DEF ToSet
<1>7. RefAt(f, p) \in RefsIn(f)
  BY <1>4, <1>5, <1>6 DEF RefsIn
<1>8. p[1] \in 1 .. 3
  BY <1>2 DEF Walked
<1> QED
  BY <1>1, <1>2, <1>3, <1>5, <1>7, <1>8, WorldFacts

\* The module path a unit keeps is one of its package.
LEMMA ModulePathIs ==
  ASSUME world \in Worlds, NEW f \in 1 .. Len(world.files), NEW rel,
         Places(f, rel) # {}
  PROVE  \E d \in Defs : ModulePath(f, rel) = FlattenModPath(Decl(d).path)
                         /\ RelPath(Decl(d).path) = rel
<1>1. Places(f, rel) \subseteq Nat
  BY OwnFacts DEF Places
<1>2. PICK x \in Places(f, rel) : \A y \in Places(f, rel) :
        <<y, x>> \notin {p \in Nat \X Nat : p[1] < p[2]}
  BY <1>1, LessIsWellFounded, WFMin
<1>3. ASSUME NEW y \in Places(f, rel)
      PROVE  x <= y
  <2>1. x \in Nat /\ y \in Nat /\ <<y, x>> \notin {p \in Nat \X Nat : p[1] < p[2]}
    BY <1>1, <1>2
  <2> QED
    BY <2>1
<1>4. PICK k \in Places(f, rel) : ModulePath(f, rel) = FlattenModPath(Decl(Own(f)[k]).path)
  BY <1>3 DEF ModulePath
<1>5. k \in DOMAIN Own(f) /\ RelPath(Decl(Own(f)[k]).path) = rel
  BY <1>4 DEF Places, InUnit
<1> QED
  BY <1>4, <1>5, OwnFacts

LEMMA BetweenNumbers ==
  ASSUME NEW x \in Nat, NEW y \in Nat, NEW z \in Nat, x <= y, y <= z
  PROVE  y = z \/ x = y \/ (x < y /\ y < z)
OBVIOUS

\* Between a module and one that shares its package there is no third.
LEMMA BetweenIsSame ==
  ASSUME NEW a \in Seq(STRING), NEW b \in Seq(STRING), NEW c \in Seq(STRING),
         IsPrefix(a, c), IsPrefix(b, c), Len(a) <= Len(b), RelPath(a) = RelPath(c)
  PROVE  RelPath(b) = RelPath(c)
<1>1. /\ Len(a) \in Nat /\ Len(b) \in 0 .. Len(c) /\ Len(c) \in Nat
      /\ a = SubSeq(c, 1, Len(a)) /\ b = SubSeq(c, 1, Len(b))
  BY PrefixIs
<1>2. CASE Len(b) = Len(c)
  BY <1>1, <1>2, SubSeqFull
<1>3. CASE Len(b) # Len(c) /\ Len(a) = Len(b)
  BY <1>1, <1>3
<1>4. CASE Len(a) < Len(b) /\ Len(b) < Len(c)
  <2>1. \A s \in Seq(STRING) : DOMAIN RelPath(s) = 1 .. (IF Len(s) >= 3 THEN Len(s) - 1 ELSE Len(s))
    <3> TAKE s \in Seq(STRING)
    <3>1. Len(s) \in Nat
      OBVIOUS
    <3>2. CASE Len(s) >= 3
      <4>1. Front(s) \in Seq(STRING) /\ Len(Front(s)) = Len(s) - 1
        BY <3>1, <3>2, SubSeqProperties DEF Front
      <4> QED
        BY <3>2, <4>1, LenProperties DEF RelPath, FlattenModPath
    <3>3. CASE ~(Len(s) >= 3)
      BY <3>3, LenProperties DEF RelPath, FlattenModPath
    <3> QED
      BY <3>2, <3>3
  <2> DEFINE n(k) == IF k >= 3 THEN k - 1 ELSE k
  <2>2. 1 .. n(Len(a)) = 1 .. n(Len(c))
    BY <2>1
  <2>3. n(Len(a)) = n(Len(c))
    BY <1>1, <2>2
  <2> QED
    BY <1>1, <1>4, <2>3
<1>5. Len(b) = Len(c) \/ Len(a) = Len(b) \/ (Len(a) < Len(b) /\ Len(b) < Len(c))
  <2>1. Len(b) \in Nat /\ Len(b) <= Len(c)
    BY <1>1
  <2> QED
    BY <1>1, <2>1, BetweenNumbers
<1> QED
  BY <1>2, <1>3, <1>4, <1>5

\* Of the references that agree in something, preprocessUnit walks one last.
LEMMA LatestPlace ==
  ASSUME world \in Worlds, NEW f \in 1 .. Len(world.files), NEW rel,
         NEW T, T \subseteq UnitPlaces(f, rel), T # {}
  PROVE  \E p \in T : \A q \in T : ~Before(p, q)
<1> DEFINE A == {p[1] : p \in T}
<1>1. A \subseteq 0 .. 3 /\ A # {}
  BY UnitFacts
<1>2. PICK a \in A : \A x \in A : x <= a
  <2> HIDE DEF A
  <2> QED
    BY <1>1, GreatestExists
<1> DEFINE TB == {p \in T : p[1] = a}
           B == {p[2] : p \in TB}
<1>3. B \subseteq 0 .. Len(Own(f)) /\ B # {}
  BY UnitFacts, OwnFacts
<1>4. PICK b \in B : \A x \in B : x <= b
  <2> HIDE DEF B
  <2> QED
    BY <1>3, OwnFacts, GreatestExists
<1> DEFINE TC == {p \in TB : p[2] = b}
           C == {p[3] : p \in TC}
           m == Len(Decl(Own(f)[b]).members)
<1>5. C \subseteq 0 .. m /\ C # {} /\ m \in Nat
  <2>1. PICK p \in TB : p[2] = b
    BY <1>4
  <2>2. Own(f)[b] \in Defs
    BY <2>1, UnitFacts, OwnFacts
  <2>3. m \in Nat
    BY <2>2, WorldFacts
  <2> QED
    BY <2>1, <2>3, UnitFacts
<1>6. PICK c \in C : \A x \in C : x <= c
  <2> HIDE DEF C, m
  <2> QED
    BY <1>5, GreatestExists
<1>7. PICK p \in T : p[1] = a /\ p[2] = b /\ p[3] = c
  BY <1>6
<1>8. ASSUME NEW q \in T
      PROVE  ~Before(p, q)
  <2>1. q[1] <= a /\ (q[1] = a => q[2] <= b) /\ (q[1] = a /\ q[2] = b => q[3] <= c)
    BY <1>2, <1>4, <1>6
  <2>2. /\ p[1] \in Nat /\ p[2] \in Nat /\ p[3] \in Nat
        /\ q[1] \in Nat /\ q[2] \in Nat /\ q[3] \in Nat
    <3>1. \A t \in T : t[1] \in 1 .. 3 /\ t[2] \in 1 .. Len(Own(f)) /\ t[3] \in Nat
      <4> TAKE t \in T
      <4>1. /\ t[1] \in 1 .. 3 /\ t[2] \in 1 .. Len(Own(f))
            /\ t[3] \in 1 .. Len(Decl(Own(f)[t[2]]).members)
        BY UnitFacts, OwnFacts
      <4> QED
        BY <4>1
    <3>2. p \in T /\ q \in T
      OBVIOUS
    <3> QED
      BY <3>1, <3>2, OwnFacts
  <2> QED
    BY <1>7, <2>1, <2>2 DEF Before
<1> QED
  BY <1>8

\* How a name is written.
LEMMA WrittenFacts ==
  ASSUME NEW parts \in Seq(STRING), parts # <<>>, NEW path,
         NEW w, w = WrittenName(path, parts)
  PROVE  /\ Len(parts) = 1 => w = parts
         /\ Len(parts) # 1 =>
              /\ Front(parts) \in Seq(STRING) /\ Front(parts) # <<>>
              /\ FlattenModPath(Front(parts)) = path => w = <<Last(parts)>> /\ Len(w) = 1
              /\ FlattenModPath(Front(parts)) # path =>
                   /\ w = <<LowerCase[Last(FlattenModPath(Front(parts)))], Last(parts)>>
                   /\ Len(w) = 2
<1>1. Len(parts) = 1 => w = parts
  BY DEF WrittenName
<1>2. ASSUME Len(parts) # 1
      PROVE  Front(parts) \in Seq(STRING) /\ Front(parts) # <<>>
  <2>1. Len(parts) \in Nat \ {0}
    BY EmptySeq
  <2>2. /\ 1 <= Len(parts) - 1 /\ Len(parts) - 1 \in Int
        /\ \A i \in 1 .. Len(parts) - 1 : parts[i] \in STRING
    <3>1. 1 <= Len(parts) - 1 /\ Len(parts) - 1 \in Int
      <4>1. Len(parts) \in Nat /\ Len(parts) # 0
        BY <2>1
      <4>2. Len(parts) > 1
        BY <1>2, <4>1, Several
      <4> QED
        BY <4>1, <4>2
    <3>2. \A i \in 1 .. Len(parts) - 1 : i \in 1 .. Len(parts)
      BY <2>1
    <3> QED
      BY <3>1, <3>2, ElementOfSeq
  <2>3. Front(parts) \in Seq(STRING) /\ Len(Front(parts)) = Len(parts) - 1
    BY <2>1, <2>2, SubSeqProperties DEF Front
  <2> QED
    BY <2>1, <2>2, <2>3, EmptySeq
<1>3. Len(parts) # 1 =>
        /\ FlattenModPath(Front(parts)) = path => w = <<Last(parts)>>
        /\ FlattenModPath(Front(parts)) # path =>
             w = <<LowerCase[Last(FlattenModPath(Front(parts)))], Last(parts)>>
  BY DEF WrittenName
<1>4. /\ \A a : Len(<<a>>) = 1
      /\ \A a, b : Len(<<a, b>>) = 2
  OBVIOUS
<1> QED
  BY <1>1, <1>2, <1>3, <1>4

\* A declaration that a scoped name denotes is of the package in front.
LEMMA ScopedIsOf ==
  ASSUME world \in Worlds, NEW f \in 1 .. Len(world.files), NEW r \in AllRefs,
         Len(Parts(r)) # 1, NEW d \in Defs, Denotes(f, r, d)
  PROVE  Decl(d).path = Front(Parts(r)) /\ Decl(d).name = Last(Parts(r))
<1>1. Parts(r) \in Seq(STRING) /\ Parts(r) # <<>>
  BY RefFacts
<1>2. Len(Parts(r)) > 1
  BY <1>1, EmptySeq, Several
<1>3. Declares(f, d, Front(Parts(r)), Last(Parts(r)))
  BY <1>2 DEF Denotes
<1> QED
  BY <1>3, DeclaredFacts

\* A simple name of the package it is used in denotes a declaration of that
\* package: an inner one would be between the two in nesting.
LEMMA SimpleIsLocal ==
  ASSUME world \in Worlds, SimpleNamesLocal(world),
         NEW f \in 1 .. Len(world.files), NEW r \in AllRefs,
         r[1] \in ToSet(Own(f)), Len(Parts(r)) = 1,
         NEW d \in Defs, Denotes(f, r, d)
  PROVE  /\ RelPath(Decl(d).path) = RelPath(Decl(r[1]).path)
         /\ Decl(d).name = Parts(r)[1]
<1> DEFINE from == Decl(r[1]).path
           name == Parts(r)[1]
<1>1. /\ IsPrefix(Decl(d).path, from) /\ Decl(d).name = name
      /\ \A e \in ToSet(Definitions(f)) :
           Registered(e) /\ IsPrefix(Decl(e).path, from) /\ Decl(e).name = name
             => Len(Decl(e).path) <= Len(Decl(d).path)
  <2>1. Len(Parts(r)) > 1 <=> FALSE
    OBVIOUS
  <2> QED
    BY <2>1, DeclaredFacts DEF Denotes
<1>2. PICK e \in ToSet(Definitions(f)) :
        /\ Decl(e).kind # "const" /\ Decl(e).name = name
        /\ IsPrefix(Decl(e).path, from) /\ RelPath(Decl(e).path) = RelPath(from)
  <2>1. PICK k \in DOMAIN Own(f) : Own(f)[k] = r[1]
    BY DEF ToSet
  <2>2. f \in DOMAIN world.files
    BY WorldAssumption, WorldFacts, LenProperties
  <2>3. r[2] \in DOMAIN Decl(r[1]).members /\ IsNamed(r)
    BY DEF AllRefs
  <2> DEFINE t == Decl(Own(f)[k]).members[r[2]].type.core
  <2>4. t[1] = "named" /\ t[2] = Parts(r)
    BY <2>1, <2>3 DEF IsNamed, TypeOf, Parts
  <2>5. k \in DOMAIN world.files[f].own /\ world.files[f].own[k] = r[1]
    BY <2>1 DEF Own
  <2>6. world.decls[r[1]].members[r[2]].type.core[1] = "named"
        /\ world.decls[r[1]].members[r[2]].type.core[2] = Parts(r)
    BY <2>1, <2>4 DEF Decl
  <2>7. \E e \in ToSet(world.files[f].included \o world.files[f].own) :
          /\ world.decls[e].kind # "const" /\ world.decls[e].name = Parts(r)[1]
          /\ IsPrefix(world.decls[e].path, world.decls[r[1]].path)
          /\ RelPath(world.decls[e].path) = RelPath(world.decls[r[1]].path)
    <3>1. r[2] \in DOMAIN world.decls[r[1]].members
      BY <2>3 DEF Decl
    <3> DEFINE D == world.decls[world.files[f].own[k]]
               T == D.members[r[2]].type.core
    <3>2. /\ r[2] \in DOMAIN D.members /\ T[1] = "named" /\ T[2] = Parts(r)
          /\ D = world.decls[r[1]]
      BY <2>5, <2>6, <3>1
    <3>3. T[1] = "named" /\ Len(T[2]) = 1 =>
            \E e \in ToSet(world.files[f].included \o world.files[f].own) :
              /\ world.decls[e].kind # "const" /\ world.decls[e].name = T[2][1]
              /\ IsPrefix(world.decls[e].path, D.path)
              /\ RelPath(world.decls[e].path) = RelPath(D.path)
      BY <2>2, <2>5, <3>2, Zenon DEF SimpleNamesLocal
    <3> HIDE DEF D, T
    <3>4. Len(T[2]) = 1
      BY <3>2
    <3> QED
      BY <3>2, <3>3, <3>4, Zenon
  <2> QED
    BY <2>7 DEF Decl, Definitions
<1>3. Declares(f, d, Decl(d).path, name)
  BY DEF Denotes
<1>4. Registered(e)
  <2>1. Registered(d) /\ Decl(d).name = name
    BY <1>3, DeclaredFacts
  <2> QED
    BY <1>2, <2>1 DEF Registered
<1>5. Len(Decl(e).path) <= Len(Decl(d).path)
  BY <1>1, <1>2, <1>4
<1>6. /\ from \in Seq(STRING) /\ Decl(d).path \in Seq(STRING) /\ Decl(e).path \in Seq(STRING)
  <2>1. e \in Defs /\ r[1] \in Defs
    BY DefinitionFacts, RefFacts DEF ToSet
  <2> QED
    BY <2>1, WorldFacts
<1> QED
  BY <1>1, <1>2, <1>5, <1>6, BetweenIsSame

\* What a unit imports are packages of declarations, under their own names.
Foreign(f, rel) ==
  {p \in UnitPlaces(f, rel) : Len(WrittenName(ModulePath(f, rel), Parts(RefAt(f, p)))) = 2}
Alias(f, rel, p) == WrittenName(ModulePath(f, rel), Parts(RefAt(f, p)))[1]
AllDenote(f) == \A r \in RefsIn(f) : \E d \in Defs : Denotes(f, r, d)

LEMMA ImportsAre ==
  ASSUME NEW f, NEW rel
  PROVE  Imports(f, rel) =
           {RelPath(Front(Parts(RefAt(f, p)))) :
              p \in {q \in Foreign(f, rel) :
                       \A s \in Foreign(f, rel) : Before(q, s) => Alias(f, rel, s) # Alias(f, rel, q)}}
BY DEF Imports, Foreign, Alias

LEMMA ForeignFacts ==
  ASSUME world \in Worlds, NEW f \in 1 .. Len(world.files), NEW rel, AllDenote(f),
         NEW p \in Foreign(f, rel)
  PROVE  \E d \in Defs :
           /\ Decl(d).path = Front(Parts(RefAt(f, p)))
           /\ RelPath(Decl(d).path) # <<>>
           /\ Last(RelPath(Decl(d).path)) = Alias(f, rel, p)
<1> DEFINE r == RefAt(f, p)
           path == Front(Parts(r))
           w == WrittenName(ModulePath(f, rel), Parts(r))
<1>1. r \in RefsIn(f) /\ r \in AllRefs /\ Len(w) = 2
  BY UnitFacts DEF Foreign
<1> HIDE DEF r
<1>2. Parts(r) \in Seq(STRING) /\ Parts(r) # <<>>
  BY <1>1, RefFacts
<1>3. Len(Parts(r)) # 1
  BY <1>1, <1>2, WrittenFacts
<1>4. /\ path \in Seq(STRING) /\ path # <<>>
      /\ FlattenModPath(path) = ModulePath(f, rel) => Len(w) = 1
      /\ FlattenModPath(path) # ModulePath(f, rel) =>
           w = <<LowerCase[Last(FlattenModPath(path))], Last(Parts(r))>>
  BY <1>2, <1>3, WrittenFacts
<1>5. w[1] = LowerCase[Last(FlattenModPath(path))]
  BY <1>1, <1>4
<1>6. RelPath(path) # <<>> /\ Last(RelPath(path)) = w[1]
  BY <1>4, <1>5, LastOfRelPath
<1>7. PICK d \in Defs : Denotes(f, r, d)
  BY <1>1 DEF AllDenote
<1>8. Decl(d).path = path
  BY <1>1, <1>3, <1>7, ScopedIsOf
<1>9. Alias(f, rel, p) = w[1]
  BY DEF Alias, r
<1> QED
  BY <1>6, <1>8, <1>9 DEF r

\* A reference to another package finds it among the imports, and no other by
\* its name, if the names of packages tell them apart.
LEMMA ImportFound ==
  ASSUME world \in Worlds, AliasesUnique(world),
         NEW f \in 1 .. Len(world.files), NEW rel, AllDenote(f),
         NEW p \in Foreign(f, rel)
  PROVE  {RelPath(Front(Parts(RefAt(f, p))))}
           = {i \in Imports(f, rel) : Last(i) = Alias(f, rel, p)}
<1> DEFINE Path(q) == RelPath(Front(Parts(RefAt(f, q))))
           T == {q \in Foreign(f, rel) : Alias(f, rel, q) = Alias(f, rel, p)}
<1>1. ASSUME NEW q \in Foreign(f, rel), NEW s \in Foreign(f, rel),
             Last(Path(q)) = Last(Path(s))
      PROVE  Path(q) = Path(s)
  <2>1. PICK d \in Defs : RelPath(Decl(d).path) = Path(q) /\ RelPath(Decl(d).path) # <<>>
    BY ForeignFacts
  <2>2. PICK e \in Defs : RelPath(Decl(e).path) = Path(s) /\ RelPath(Decl(e).path) # <<>>
    BY ForeignFacts
  <2> HIDE DEF Path
  <2> QED
    BY <1>1, <2>1, <2>2 DEF AliasesUnique, Decl, Defs
<1>2. \A q \in Foreign(f, rel) : Last(Path(q)) = Alias(f, rel, q)
  BY ForeignFacts
<1>3. PICK q \in T : \A s \in T : ~Before(q, s)
  BY LatestPlace DEF Foreign
<1> HIDE DEF Path
<1>4. \A s \in Foreign(f, rel) : Before(q, s) => Alias(f, rel, s) # Alias(f, rel, q)
  BY <1>3
<1>5. Path(q) \in Imports(f, rel) /\ Path(q) = Path(p)
  <2>1. Path(q) \in Imports(f, rel)
    BY <1>3, <1>4, ImportsAre DEF Path
  <2>2. Path(q) = Path(p)
    BY <1>1, <1>2, <1>3
  <2> QED
    BY <2>1, <2>2
<1>6. ASSUME NEW i \in Imports(f, rel), Last(i) = Alias(f, rel, p)
      PROVE  i = Path(p)
  <2>1. PICK s \in Foreign(f, rel) : i = Path(s)
    BY ImportsAre DEF Path
  <2> QED
    BY <1>1, <1>2, <1>6, <2>1
<1>7. {Path(p)} = {i \in Imports(f, rel) : Last(i) = Alias(f, rel, p)}
  BY <1>2, <1>5, <1>6
<1> QED
  BY <1>7 DEF Path

\* The name r is written with in a unit means d there.
MeansThere(w, r, d) ==
  /\ Last(w.refs[r]) = Decl(d).name
  /\ {RelPath(Decl(d).path)} =
       IF Len(w.refs[r]) = 1 THEN {w.package}
       ELSE {p \in w.imports : Last(p) = w.refs[r][1]}

LEMMA RenderedDenotes ==
  ASSUME world \in Worlds, AliasesUnique(world), SimpleNamesLocal(world),
         NEW f \in 1 .. Len(world.files), NEW rel, AllDenote(f),
         NEW r \in UnitRefs(f, rel), NEW d \in Defs, Denotes(f, r, d)
  PROVE  MeansThere(Rendered(f, rel), r, d)
<1> DEFINE M == ModulePath(f, rel)
           w == WrittenName(M, Parts(r))
           parts == Parts(r)
<1>1. PICK p \in UnitPlaces(f, rel) : r = RefAt(f, p)
  BY DEF UnitRefs
<1>2. /\ p[2] \in Places(f, rel) /\ r \in AllRefs
      /\ r[1] = Own(f)[p[2]] /\ r[1] \in ToSet(Own(f))
      /\ RelPath(Decl(r[1]).path) = rel
  <2>1. /\ p[2] \in Places(f, rel) /\ p[2] \in DOMAIN Own(f) /\ r \in AllRefs
        /\ RelPath(Decl(Own(f)[p[2]]).path) = rel
    BY <1>1, UnitFacts
  <2>2. r[1] = Own(f)[p[2]]
    BY <1>1 DEF RefAt
  <2> QED
    BY <2>1, <2>2 DEF ToSet
<1>3. parts \in Seq(STRING) /\ parts # <<>>
  BY <1>2, RefFacts
<1>4. /\ Rendered(f, rel).refs[r] = w
      /\ Rendered(f, rel).package = rel
      /\ Rendered(f, rel).imports = Imports(f, rel)
  BY DEF Rendered
<1> SUFFICES /\ Last(w) = Decl(d).name
             /\ {RelPath(Decl(d).path)} =
                  IF Len(w) = 1 THEN {rel} ELSE {i \in Imports(f, rel) : Last(i) = w[1]}
  BY <1>4 DEF MeansThere
<1>5. CASE Len(parts) = 1
  <2>1. w = parts
    BY <1>3, <1>5, WrittenFacts
  <2>2. RelPath(Decl(d).path) = rel /\ Decl(d).name = parts[1]
    BY <1>2, <1>5, SimpleIsLocal
  <2> QED
    BY <1>5, <2>1, <2>2 DEF Last
<1>6. ASSUME Len(parts) # 1
      PROVE  /\ Decl(d).path = Front(parts) /\ Decl(d).name = Last(parts)
             /\ FlattenModPath(Front(parts)) = M => w = <<Last(parts)>> /\ Len(w) = 1
             /\ FlattenModPath(Front(parts)) # M =>
                  /\ w = <<LowerCase[Last(FlattenModPath(Front(parts)))], Last(parts)>>
                  /\ Len(w) = 2
  <2>1. Decl(d).path = Front(parts) /\ Decl(d).name = Last(parts)
    BY <1>2, <1>6, ScopedIsOf
  <2> QED
    BY <1>3, <1>6, <2>1, WrittenFacts
<1>9. (\A a : Last(<<a>>) = a) /\ (\A a, b : Last(<<a, b>>) = b)
  BY DEF Last
<1>7. CASE Len(parts) # 1 /\ FlattenModPath(Front(parts)) = M
  <2>1. PICK e \in Defs : M = FlattenModPath(Decl(e).path) /\ RelPath(Decl(e).path) = rel
    BY <1>2, ModulePathIs
  <2>2. RelPath(Decl(d).path) = rel
    BY <1>6, <1>7, <2>1 DEF RelPath
  <2>3. Last(w) = Last(parts) /\ Len(w) = 1
    BY <1>6, <1>7, <1>9
  <2> QED
    BY <1>6, <1>7, <2>2, <2>3
<1>8. CASE Len(parts) # 1 /\ FlattenModPath(Front(parts)) # M
  <2>1. p \in Foreign(f, rel) /\ Alias(f, rel, p) = w[1]
    BY <1>1, <1>6, <1>8 DEF Foreign, Alias
  <2>2. {RelPath(Decl(d).path)} = {i \in Imports(f, rel) : Last(i) = w[1]}
    BY <1>1, <1>6, <1>8, <2>1, ImportFound
  <2>3. Last(w) = Last(parts) /\ Len(w) # 1
    BY <1>6, <1>8, <1>9
  <2> QED
    BY <1>6, <1>8, <2>2, <2>3
<1> QED
  BY <1>5, <1>7, <1>8

\* Everything written so far means what it should.
ReferencesInv ==
  /\ AliasesUnique(world) /\ SimpleNamesLocal(world)
  /\ \A w \in written : \A r \in DOMAIN w.refs : \A d \in Defs :
       Denotes(w.file, r, d) => MeansThere(w, r, d)

LEMMA ReferencesInit ==
  ScopesInit /\ AliasesUnique(world) /\ SimpleNamesLocal(world) => ReferencesInv
BY DEF ScopesInit, ReferencesInv

LEMMA ReferencesStep == IndInv /\ ReferencesInv /\ [ScopesNext]_scopeVars => ReferencesInv'
<1> SUFFICES ASSUME IndInv, ReferencesInv, [ScopesNext]_scopeVars
             PROVE  ReferencesInv'
  OBVIOUS
<1>1. world' = world
  BY DEF ScopesNext, ResolveNext, StartFile, NextDefinition, SkipMember, ResolveMember,
         Unresolved, CollectUnits, RenderUnit, Ended, scopeVars
<1>2. /\ Defs' = Defs
      /\ \A f, r, d : Denotes(f, r, d)' = Denotes(f, r, d)
      /\ \A w, r, d : MeansThere(w, r, d)' = MeansThere(w, r, d)
  BY <1>1, SameWorld DEF MeansThere
<1>3. AliasesUnique(world') /\ SimpleNamesLocal(world')
  BY <1>1 DEF ReferencesInv
<1>4. CASE written' = written
  BY <1>1, <1>2, <1>3, <1>4 DEF ReferencesInv
<1>5. ASSUME NEW rel \in units, RenderUnit(rel)
      PROVE  ReferencesInv'
  <2>1. /\ phase = "rendering"
        /\ written' = written \cup {Rendered(file, rel)}
    BY <1>5 DEF RenderUnit
  <2>2. world \in Worlds /\ file \in 1 .. Len(world.files)
    BY <2>1, WorldFacts DEF IndInv, ScopesTypeOK
  <2>3. AllDenote(file)
    <3>1. \A r \in RefsIn(file) : resolved[r] # 0 /\ Denotes(file, r, resolved[r])
      BY <2>1 DEF IndInv, ResolvedInScope
    <3>2. \A r \in RefsIn(file) : resolved[r] \in Defs \cup {0}
      BY DEF IndInv, ScopesTypeOK, RefsIn
    <3> QED
      BY <3>1, <3>2 DEF AllDenote
  <2>4. /\ Rendered(file, rel).file = file
        /\ DOMAIN Rendered(file, rel).refs = UnitRefs(file, rel)
    BY DEF Rendered
  <2>5. \A r \in UnitRefs(file, rel) : \A d \in Defs :
          Denotes(file, r, d) => MeansThere(Rendered(file, rel), r, d)
    BY <2>2, <2>3, RenderedDenotes DEF ReferencesInv
  <2>6. \A w \in written' : \A r \in DOMAIN w.refs : \A d \in Defs :
          Denotes(w.file, r, d) => MeansThere(w, r, d)
    BY <2>1, <2>4, <2>5 DEF ReferencesInv
  <2> QED
    BY <1>2, <1>3, <2>6 DEF ReferencesInv
<1>6. (\E rel \in units : RenderUnit(rel)) \/ written' = written
  BY DEF ScopesNext, ResolveNext, StartFile, NextDefinition, SkipMember, ResolveMember,
         Unresolved, CollectUnits, Ended, scopeVars
<1> QED
  BY <1>4, <1>5, <1>6

-----------------------------------------------------------------------------
(***************************************************************************)
(* Theorems                                                                *)
(***************************************************************************)
LEMMA InductiveInit == ScopesInit => IndInv
BY TypeInit DEF IndInv, ScopesInit, ResolvedSoFar, ResolvedInScope

LEMMA InductiveStep == IndInv /\ [ScopesNext]_scopeVars => IndInv'
BY TypeStep, ResolvedStep, InScopeStep DEF IndInv

LEMMA Inductive == ScopesSpec => []IndInv
BY InductiveInit, InductiveStep, PTL DEF ScopesSpec

\* The resolver's and the generator's state stays in its types: references
\* point to declarations and the place looked at is one of the file in hand.
THEOREM ScopesTypes == ScopesSpec => []ScopesTypeOK
<1>1. IndInv => ScopesTypeOK
  BY DEF IndInv
<1> QED
  BY <1>1, Inductive, PTL

\* For any declarations and any files that share them, while a file is written
\* every name in it stands for the innermost declaration that this file has,
\* and only a name no declaration has ends the program (types.go:127-184).
THEOREM NamesResolved == ScopesSpec => []ResolvedInScope
<1>1. IndInv => ResolvedInScope
  BY DEF IndInv
<1> QED
  BY <1>1, Inductive, PTL

\* In worlds whose packages have names of their own, and which use simple names
\* for what is in the same package, every reference that is written means in Go
\* what the name means in IDL: it is the type's own name, in this package or in
\* the only import that has the qualifier's name (generator.go:369-440).
THEOREM ReferencesMean ==
  ScopesSpec /\ AliasesUnique(world) /\ SimpleNamesLocal(world) => []ReferencesDenote
<1>1. ReferencesInv => ReferencesDenote
  BY DEF ReferencesInv, ReferencesDenote, MeansThere
<1> QED
  BY <1>1, ReferencesInit, ReferencesStep, Inductive, PTL DEF ScopesSpec

-----------------------------------------------------------------------------
(***************************************************************************)
(* Computing types does not touch what resolving and writing work on.      *)
(***************************************************************************)
LEMMA StepsOfScopes ==
  [TypesStep \/ TypesEnded]_vars => [ScopesNext]_scopeVars
<1> SUFFICES ASSUME [TypesStep \/ TypesEnded]_vars
             PROVE  [ScopesNext]_scopeVars
  OBVIOUS
<1>1. CASE ScopesStep
  BY <1>1 DEF ScopesStep, ScopesNext
<1>2. ASSUME NEW rel \in units, RenderTypes(rel)
      PROVE  ScopesNext
  BY <1>2 DEF RenderTypes, ScopesNext
<1>3. CASE BeginInfo \/ Descend \/ TakeMember \/ FinishType \/ EndInfo
  <2>1. UNCHANGED scopeVars
    BY <1>3 DEF BeginInfo, Descend, TakeMember, FinishType, EndInfo
  <2> QED
    BY <2>1
<1>4. CASE TypesEnded
  BY <1>4 DEF TypesEnded, ScopesNext
<1>5. CASE UNCHANGED vars
  BY <1>5 DEF vars
<1> QED
  BY <1>1, <1>2, <1>3, <1>4, <1>5 DEF TypesStep

\* Whatever is computed in between, names are resolved and references are
\* written as TypeScopes says: its theorems hold of the whole.
THEOREM TypesImplementScopes == TypesSpec => ScopesSpec
<1>1. TypesInit => ScopesInit
  BY DEF TypesInit
<1> QED
  BY <1>1, StepsOfScopes, PTL DEF TypesSpec, ScopesSpec

\* So every name is resolved to the innermost declaration of the file in hand
\* while the types of its packages are computed (types.go:127-184).
THEOREM NamesResolvedForTypes == TypesSpec => []ResolvedInScope
BY TypesImplementScopes, NamesResolved, PTL

\* And every reference that is written means in Go what it means in the IDL, in
\* worlds whose packages have names of their own and which use simple names for
\* what is in the same package (generator.go:369-440).
THEOREM ReferencesMeanForTypes ==
  TypesSpec /\ AliasesUnique(world) /\ SimpleNamesLocal(world) => []ReferencesDenote
BY TypesImplementScopes, ReferencesMean, PTL

-----------------------------------------------------------------------------
(***************************************************************************)
(* The values of enums: the two counts agree, whatever the declaration     *)
(* says of them.  The counter that is passed on from literal to literal is *)
(* the distance from the last explicit value.                              *)
(***************************************************************************)
\* A set of naturals has a least element.
LEMMA LeastExists ==
  ASSUME NEW T, T \subseteq Nat, T # {}
  PROVE  \E x \in T : \A y \in T : x <= y
<1>1. PICK x \in T : \A y \in T : <<y, x>> \notin {p \in Nat \X Nat : p[1] < p[2]}
  BY LessIsWellFounded, WFMin
<1>2. ASSUME NEW y \in T
      PROVE  x <= y
  <2>1. x \in Nat /\ y \in Nat /\ <<y, x>> \notin {p \in Nat \X Nat : p[1] < p[2]}
    BY <1>1
  <2> QED
    BY <2>1
<1> QED
  BY <1>2

Declared == Seq([name : STRING, value : Seq(Int)])

\* One round of the counter's loop, and what it leaves: nextVal is a function
\* that the loop takes to itself.
Round(values, next) ==
  [i \in DOMAIN values |->
     IF Explicit(values[i]) THEN values[i].value[1]
     ELSE IF i = 1 THEN 0 ELSE next[i - 1] + 1]
Counter(values) == CHOOSE next : next = Round(values, next)
Computed(values) == [i \in DOMAIN values |-> EnumComputedValue(values, i)]

LEMMA LiteralsHoldCounter ==
  ASSUME NEW values, NEW i \in DOMAIN values
  PROVE  EnumLiterals(values)[i].value = Counter(values)[i]
BY DEF EnumLiterals, Counter, Round

\* The explicit values up to a place have a last one, if there are any.
ExplicitUpTo(values, n) == {i \in 1 .. n : Explicit(values[i])}
LastExplicit(values, n) ==
  CHOOSE i \in ExplicitUpTo(values, n) : \A j \in ExplicitUpTo(values, n) : j <= i

LEMMA LastExists ==
  ASSUME NEW values \in Declared, NEW n \in Nat, ExplicitUpTo(values, n) # {}
  PROVE  /\ LastExplicit(values, n) \in ExplicitUpTo(values, n)
         /\ \A j \in ExplicitUpTo(values, n) : j <= LastExplicit(values, n)
<1> DEFINE E == ExplicitUpTo(values, n)
           T == {n - i : i \in E}
<1>1. E \subseteq 1 .. n
  BY DEF ExplicitUpTo
<1>2. T \subseteq Nat /\ T # {}
  <2>1. \A i \in E : n - i \in Nat
    BY <1>1
  <2>2. E # {}
    OBVIOUS
  <2> HIDE DEF E
  <2> QED
    BY <2>1, <2>2
<1>3. PICK x \in T : \A y \in T : x <= y
  <2> HIDE DEF T
  <2> QED
    BY <1>2, LeastExists
<1>4. PICK i \in E : x = n - i
  BY <1>3
<1>5. ASSUME NEW j \in E
      PROVE  j <= i
  <2>1. n - i <= n - j
    BY <1>3, <1>4
  <2>2. i \in Nat /\ j \in Nat
    BY <1>1
  <2> QED
    BY <2>1, <2>2
<1> QED
  BY <1>5 DEF LastExplicit

LEMMA ComputedIs ==
  ASSUME NEW values, NEW n
  PROVE  EnumComputedValue(values, n) =
           IF ExplicitUpTo(values, n) = {} THEN n - 1
           ELSE values[LastExplicit(values, n)].value[1] + (n - LastExplicit(values, n))
BY DEF EnumComputedValue, ExplicitUpTo, LastExplicit

\* The closed form is what a round of the loop makes of it.
LEMMA ComputedIsFixed ==
  ASSUME NEW values \in Declared
  PROVE  Computed(values) = Round(values, Computed(values))
<1> DEFINE C(n) == EnumComputedValue(values, n)
           Last1(n) == LastExplicit(values, n)
<1>1. DOMAIN values = 1 .. Len(values) /\ Len(values) \in Nat
  BY LenProperties DEF Declared
<1>2. ASSUME NEW i \in DOMAIN values
      PROVE  C(i) = IF Explicit(values[i]) THEN values[i].value[1]
                    ELSE IF i = 1 THEN 0 ELSE C(i - 1) + 1
  <2>1. i \in Nat /\ i >= 1 /\ i - 1 \in Nat
    BY <1>1
  <2>2. CASE Explicit(values[i])
    <3>1. i \in ExplicitUpTo(values, i)
      BY <2>1, <2>2 DEF ExplicitUpTo
    <3>2. Last1(i) \in 1 .. i /\ i <= Last1(i)
      BY <2>1, <3>1, LastExists DEF ExplicitUpTo
    <3>3. Last1(i) = i
      BY <2>1, <3>2
    <3>4. values[i].value[1] \in Int
      <4>1. values[i] \in [name : STRING, value : Seq(Int)]
        BY <1>1, ElementOfSeq DEF Declared
      <4>2. values[i].value \in Seq(Int) /\ values[i].value # <<>>
        BY <2>2, <4>1 DEF Explicit
      <4>3. 1 \in 1 .. Len(values[i].value)
        BY <4>2, EmptySeq
      <4> QED
        BY <4>2, <4>3, ElementOfSeq
    <3>5. C(i) = values[i].value[1] + (i - i)
      BY <3>1, <3>3, ComputedIs
    <3> QED
      BY <2>1, <2>2, <3>4, <3>5
  <2>3. CASE ~Explicit(values[i])
    <3>1. ExplicitUpTo(values, i) = ExplicitUpTo(values, i - 1)
      BY <2>1, <2>3 DEF ExplicitUpTo
    <3>2. CASE i = 1
      <4>1. ExplicitUpTo(values, i) = {}
        BY <3>1, <3>2 DEF ExplicitUpTo
      <4> QED
        BY <2>3, <3>2, <4>1, ComputedIs
    <3>3. CASE i # 1 /\ ExplicitUpTo(values, i) = {}
      BY <2>1, <2>3, <3>1, <3>3, ComputedIs
    <3>4. CASE i # 1 /\ ExplicitUpTo(values, i) # {}
      <4>1. Last1(i) = Last1(i - 1)
        BY <3>1 DEF LastExplicit
      <4>2. Last1(i) \in 1 .. i - 1 /\ Explicit(values[Last1(i)])
        BY <2>1, <3>1, <3>4, <4>1, LastExists DEF ExplicitUpTo
      <4> DEFINE v == values[Last1(i)].value
                 l == Last1(i)
      <4>3. v[1] \in Int
        <5>1. Last1(i) \in 1 .. Len(values)
          BY <1>1, <2>1, <4>2
        <5>2. values[Last1(i)] \in [name : STRING, value : Seq(Int)]
          BY <5>1, ElementOfSeq DEF Declared
        <5>3. v \in Seq(Int) /\ v # <<>>
          BY <4>2, <5>2 DEF Explicit
        <5>4. 1 \in 1 .. Len(v)
          BY <5>3, EmptySeq
        <5> HIDE DEF v
        <5> QED
          BY <5>3, <5>4, ElementOfSeq
      <4>4. C(i) = v[1] + (i - l) /\ C(i - 1) = v[1] + ((i - 1) - l)
        BY <3>1, <3>4, <4>1, ComputedIs
      <4>5. l \in Int
        BY <4>2
      <4> HIDE DEF v, l, C
      <4>6. C(i) = C(i - 1) + 1
        BY <2>1, <4>3, <4>4, <4>5
      <4> QED
        BY <2>3, <3>4, <4>6
    <3> QED
      BY <3>2, <3>3, <3>4
  <2> QED
    BY <2>2, <2>3
<1>3. ASSUME NEW i \in DOMAIN values
      PROVE  C(i) = IF Explicit(values[i]) THEN values[i].value[1]
                    ELSE IF i = 1 THEN 0 ELSE Computed(values)[i - 1] + 1
  <2>1. CASE Explicit(values[i]) \/ i = 1
    BY <1>2, <2>1
  <2>2. CASE i # 1
    <3>1. i - 1 \in DOMAIN values
      BY <1>1, <2>2
    <3> QED
      BY <1>2, <3>1 DEF Computed
  <2> QED
    BY <2>1, <2>2
<1> HIDE DEF C
<1>4. Computed(values) = [i \in DOMAIN values |-> C(i)]
  BY DEF Computed, C
<1> QED
  BY <1>3, <1>4 DEF Round

\* No other function is: the first difference would have to come from an
\* earlier one.
LEMMA RoundsAgree ==
  ASSUME NEW values \in Declared,
         NEW f, f = Round(values, f), NEW g, g = Round(values, g)
  PROVE  f = g
<1>1. DOMAIN values = 1 .. Len(values) /\ Len(values) \in Nat
  BY LenProperties DEF Declared
<1> DEFINE T == {i \in DOMAIN values : f[i] # g[i]}
<1>2. T = {}
  <2> SUFFICES ASSUME T # {}
               PROVE  FALSE
    OBVIOUS
  <2>1. T \subseteq Nat
    BY <1>1
  <2>2. PICK x \in T : \A y \in T : x <= y
    <3> HIDE DEF T
    <3> QED
      BY <2>1, LeastExists
  <2>3. x \in DOMAIN values /\ f[x] # g[x] /\ x \in Nat
    BY <2>1, <2>2
  <2>4. /\ f[x] = IF Explicit(values[x]) THEN values[x].value[1]
                  ELSE IF x = 1 THEN 0 ELSE f[x - 1] + 1
        /\ g[x] = IF Explicit(values[x]) THEN values[x].value[1]
                  ELSE IF x = 1 THEN 0 ELSE g[x - 1] + 1
    BY <2>3 DEF Round
  <2>5. x # 1 /\ f[x - 1] # g[x - 1]
    BY <2>3, <2>4
  <2>6. x - 1 \in DOMAIN values
    BY <1>1, <2>3, <2>5
  <2>7. x - 1 \in T /\ ~(x <= x - 1)
    BY <2>3, <2>5, <2>6
  <2> QED
    BY <2>2, <2>7
<1>3. DOMAIN f = DOMAIN values /\ DOMAIN g = DOMAIN values
  BY DEF Round
<1>4. f = [i \in DOMAIN values |-> f[i]] /\ g = [i \in DOMAIN values |-> g[i]]
  BY DEF Round
<1>5. \A i \in DOMAIN values : f[i] = g[i]
  BY <1>2
<1> QED
  BY <1>4, <1>5

\* For every enum, the values in its type object are those that its generated
\* constants have and that go on the wire (compute.go:385, helpers.go:436).
THEOREM CountsAgree ==
  ASSUME NEW values \in Declared, NEW i \in DOMAIN values
  PROVE  EnumLiterals(values)[i].value = EnumComputedValue(values, i)
<1>1. Counter(values) = Round(values, Counter(values))
  BY ComputedIsFixed DEF Counter
<1>2. Counter(values) = Computed(values)
  BY <1>1, ComputedIsFixed, RoundsAgree
<1> QED
  BY <1>2, LiteralsHoldCounter DEF Computed

-----------------------------------------------------------------------------
(***************************************************************************)
(* Writing items                                                           *)
(***************************************************************************)

\* f holds the writers from w to the one after the first m items.
Rounds(w, items, m, f) ==
  f = [i \in 0 .. m |-> IF i = 0 THEN w ELSE WriteItem(f[i - 1], items[i])]

LEMMA RoundsExist ==
  ASSUME NEW w, NEW items, NEW n \in Nat
  PROVE  \E f : Rounds(w, items, n, f)
<1> DEFINE T == {m \in Nat : ~\E f : Rounds(w, items, m, f)}
<1>1. T = {}
  <2> SUFFICES ASSUME T # {}
               PROVE  FALSE
    OBVIOUS
  <2>1. PICK m \in T : \A k \in T : m <= k
    <3> HIDE DEF T
    <3>1. T \subseteq Nat
      BY DEF T
    <3> QED
      BY <3>1, LeastExists
  <2>2. CASE m = 0
    <3> DEFINE f == [i \in 0 .. 0 |-> w]
    <3>1. f = [i \in 0 .. 0 |-> IF i = 0 THEN w ELSE WriteItem(f[i - 1], items[i])]
      OBVIOUS
    <3> QED
      BY <2>1, <2>2, <3>1 DEF Rounds
  <2>3. CASE m # 0
    <3>1. m \in Nat /\ m - 1 \in Nat /\ ~(m <= m - 1)
      BY <2>1, <2>3
    <3>2. m - 1 \notin T
      BY <2>1, <3>1
    <3>3. PICK f : Rounds(w, items, m - 1, f)
      BY <3>1, <3>2
    <3> DEFINE g == [i \in 0 .. m |-> IF i = m THEN WriteItem(f[m - 1], items[m]) ELSE f[i]]
    <3>4. \A i \in 0 .. m - 1 : f[i] = IF i = 0 THEN w ELSE WriteItem(f[i - 1], items[i])
      BY <3>3 DEF Rounds
    <3>5. ASSUME NEW i \in 0 .. m
          PROVE  g[i] = IF i = 0 THEN w ELSE WriteItem(g[i - 1], items[i])
      <4>1. CASE i = m
        BY <3>1, <4>1, <2>3
      <4>2. CASE i # m
        <5>1. i \in 0 .. m - 1 /\ (i # 0 => i - 1 \in 0 .. m - 1 /\ i - 1 # m)
          BY <3>1, <4>2
        <5>2. g[i] = f[i] /\ (i # 0 => g[i - 1] = f[i - 1])
          BY <5>1, <4>2
        <5> QED
          BY <3>4, <5>1, <5>2
      <4> QED
        BY <4>1, <4>2
    <3>6. g = [i \in 0 .. m |-> g[i]]
      OBVIOUS
    <3> HIDE DEF g
    <3>7. Rounds(w, items, m, g)
      BY <3>5, <3>6 DEF Rounds
    <3> QED
      BY <2>1, <3>7
  <2> QED
    BY <2>2, <2>3
<1> QED
  BY <1>1

\* There is no other such f, and so what WriteItems chooses is what any has.
LEMMA RoundsAre ==
  ASSUME NEW w, NEW items, Len(items) \in Nat, NEW f, Rounds(w, items, Len(items), f)
  PROVE  WriteItems(w, items) = f[Len(items)]
<1> DEFINE n == Len(items)
           g == CHOOSE h : Rounds(w, items, n, h)
           T == {i \in 0 .. n : f[i] # g[i]}
<1>1. Rounds(w, items, n, g)
  BY RoundsExist
<1>2. WriteItems(w, items) = g[n]
  BY DEF WriteItems, Rounds
<1> HIDE DEF g
<1>3. T = {}
  <2> SUFFICES ASSUME T # {}
               PROVE  FALSE
    OBVIOUS
  <2>1. PICK i \in T : \A k \in T : i <= k
    <3> HIDE DEF T
    <3>1. T \subseteq Nat
      BY DEF T
    <3> QED
      BY <3>1, LeastExists
  <2>2. i \in 0 .. n /\ f[i] # g[i]
    BY <2>1
  <2>3. /\ f[i] = IF i = 0 THEN w ELSE WriteItem(f[i - 1], items[i])
        /\ g[i] = IF i = 0 THEN w ELSE WriteItem(g[i - 1], items[i])
    BY <1>1, <2>2 DEF Rounds
  <2>4. i # 0 /\ f[i - 1] # g[i - 1]
    BY <2>2, <2>3
  <2>5. i - 1 \in T /\ ~(i <= i - 1)
    BY <2>2, <2>4
  <2> QED
    BY <2>1, <2>5
<1>4. n \in 0 .. n
  OBVIOUS
<1> QED
  BY <1>2, <1>3, <1>4

\* Nothing is written for no items.
LEMMA NoItems ==
  ASSUME NEW w
  PROVE  WriteItems(w, <<>>) = w
<1>1. PICK f : Rounds(w, <<>>, 0, f)
  BY RoundsExist
<1>2. Len(<<>>) = 0 /\ f[0] = w
  BY <1>1 DEF Rounds
<1> QED
  BY <1>1, <1>2, RoundsAre

\* An item behind others is written by what these leave behind.
LEMMA OneItemMore ==
  ASSUME NEW S, NEW w, NEW items \in Seq(S), NEW item \in S
  PROVE  WriteItems(w, Append(items, item)) = WriteItem(WriteItems(w, items), item)
<1> DEFINE n == Len(items)
           all == Append(items, item)
<1>1. n \in Nat /\ n + 1 \in Nat /\ Len(all) = n + 1 /\ all[n + 1] = item
      /\ \A i \in 1 .. n : all[i] = items[i]
  OBVIOUS
<1> HIDE DEF all
<1>2. PICK f : Rounds(w, all, n + 1, f)
  BY <1>1, RoundsExist
<1> DEFINE g == [i \in 0 .. n |-> f[i]]
<1>3. \A i \in 0 .. n + 1 : f[i] = IF i = 0 THEN w ELSE WriteItem(f[i - 1], all[i])
  BY <1>2 DEF Rounds
<1>4. ASSUME NEW i \in 0 .. n
      PROVE  g[i] = IF i = 0 THEN w ELSE WriteItem(g[i - 1], items[i])
  <2>1. i \in 0 .. n + 1 /\ (i # 0 => i - 1 \in 0 .. n /\ i \in 1 .. n)
    BY <1>1
  <2>2. g[i] = f[i] /\ (i # 0 => g[i - 1] = f[i - 1] /\ all[i] = items[i])
    BY <1>1, <2>1
  <2> QED
    BY <1>3, <2>1, <2>2
<1>5. g = [i \in 0 .. n |-> g[i]] /\ g[n] = f[n]
  BY <1>1
<1> HIDE DEF g
<1>6. Rounds(w, items, n, g)
  BY <1>4, <1>5 DEF Rounds
<1>7. WriteItems(w, items) = f[n]
  BY <1>1, <1>5, <1>6, RoundsAre
<1>8. WriteItems(w, all) = f[n + 1]
  BY <1>1, <1>2, RoundsAre
<1>9. f[n + 1] = WriteItem(f[n], item)
  <2>1. n + 1 \in 0 .. n + 1 /\ n + 1 # 0 /\ (n + 1) - 1 = n
    BY <1>1
  <2> QED
    BY <1>1, <1>3, <2>1
<1> QED
  BY <1>7, <1>8, <1>9 DEF all

\* Items in two parts are written one part after the other.
LEMMA TwoParts ==
  ASSUME NEW S, NEW w, NEW a \in Seq(S), NEW b \in Seq(S)
  PROVE  WriteItems(w, a \o b) = WriteItems(WriteItems(w, a), b)
<1> DEFINE m == Len(a)
           n == Len(b)
           all == a \o b
<1>1. /\ m \in Nat /\ n \in Nat /\ Len(all) = m + n
      /\ \A i \in 1 .. m : all[i] = a[i]
      /\ \A i \in 1 .. n : all[m + i] = b[i]
  OBVIOUS
<1> HIDE DEF all
<1>2. PICK f : Rounds(w, a, m, f)
  BY <1>1, RoundsExist
<1>3. WriteItems(w, a) = f[m]
  BY <1>1, <1>2, RoundsAre
<1>4. PICK g : Rounds(f[m], b, n, g)
  BY <1>1, RoundsExist
<1>5. WriteItems(f[m], b) = g[n]
  BY <1>1, <1>4, RoundsAre
<1>6. /\ \A i \in 0 .. m : f[i] = IF i = 0 THEN w ELSE WriteItem(f[i - 1], a[i])
      /\ \A i \in 0 .. n : g[i] = IF i = 0 THEN f[m] ELSE WriteItem(g[i - 1], b[i])
  BY <1>2, <1>4 DEF Rounds
<1> DEFINE h == [i \in 0 .. m + n |-> IF i <= m THEN f[i] ELSE g[i - m]]
<1>7. ASSUME NEW i \in 0 .. m + n
      PROVE  h[i] = IF i = 0 THEN w ELSE WriteItem(h[i - 1], all[i])
  <2>1. CASE i <= m
    <3>1. i \in 0 .. m /\ (i # 0 => i - 1 \in 0 .. m + n /\ i - 1 <= m /\ i \in 1 .. m)
      BY <1>1, <2>1
    <3>2. h[i] = f[i] /\ (i # 0 => h[i - 1] = f[i - 1] /\ all[i] = a[i])
      BY <1>1, <2>1, <3>1
    <3> QED
      BY <1>6, <3>1, <3>2
  <2>2. CASE ~(i <= m)
    <3>1. /\ i - m \in 1 .. n /\ i - m \in 0 .. n /\ m + (i - m) = i /\ i # 0 /\ i - m # 0
          /\ i - 1 \in 0 .. m + n /\ (i - m) - 1 \in 0 .. n /\ (i - 1) - m = (i - m) - 1
      BY <1>1, <2>2
    <3>2. h[i] = g[i - m] /\ all[i] = b[i - m]
      BY <1>1, <2>2, <3>1
    <3>3. h[i - 1] = g[(i - m) - 1]
      <4>1. CASE i - 1 <= m
        <5>1. i - 1 = m /\ (i - m) - 1 = 0
          BY <1>1, <2>2, <3>1, <4>1
        <5>2. g[0] = f[m]
          BY <1>1, <1>6
        <5> QED
          BY <3>1, <4>1, <5>1, <5>2
      <4>2. CASE ~(i - 1 <= m)
        BY <3>1, <4>2
      <4> QED
        BY <4>1, <4>2
    <3>4. g[i - m] = WriteItem(g[(i - m) - 1], b[i - m])
      BY <1>6, <3>1
    <3> QED
      BY <3>1, <3>2, <3>3, <3>4
  <2> QED
    BY <2>1, <2>2
<1>8. h = [i \in 0 .. m + n |-> h[i]]
  OBVIOUS
<1>9. h[m + n] = g[n]
  <2>1. CASE n = 0
    <3>1. g[0] = f[m]
      BY <1>1, <1>6
    <3> QED
      BY <1>1, <2>1, <3>1
  <2>2. CASE n # 0
    BY <1>1, <2>2
  <2> QED
    BY <2>1, <2>2
<1> HIDE DEF h
<1>10. Rounds(w, all, m + n, h)
  BY <1>7, <1>8 DEF Rounds
<1>11. WriteItems(w, all) = h[m + n]
  BY <1>1, <1>10, RoundsAre
<1> QED
  BY <1>3, <1>5, <1>9, <1>11 DEF all

\* Writers whose encoders keep count of what they wrote.
Writers == [enc : {e \in Encoders : e.pos = Len(e.buf)}, starts : Seq(Nat)]

Flat == ({"scalar"} \X {v \in Seq(Byte) : Len(v) \in {1, 2, 4}})
          \cup ({"raw"} \X Seq(Byte)) \cup ({"string"} \X Seq(Byte))
Items == Flat \cup {Begin, Finish}

\* Items that finish every DHEADER they begin, and no other: they leave what
\* was written before alone.
Closed(items) ==
  /\ items \in Seq(Items)
  /\ \A w \in Writers :
       /\ WriteItems(w, items) \in Writers
       /\ WriteItems(w, items).starts = w.starts
       /\ Extends(w.enc, WriteItems(w, items).enc)

LEMMA FlatItem ==
  ASSUME NEW w \in Writers, NEW item \in Flat
  PROVE  /\ WriteItem(w, item) \in Writers
         /\ WriteItem(w, item).starts = w.starts
         /\ Extends(w.enc, WriteItem(w, item).enc)
<1> DEFINE r == WriteItem(w, item)
<1>1. w.enc \in Encoders /\ w.enc.pos = Len(w.enc.buf) /\ w.starts \in Seq(Nat)
  BY DEF Writers
<1>2. CASE item[1] = "scalar" /\ item[2] \in Seq(Byte) /\ Len(item[2]) > 0
  <2>1. Extends(w.enc, WriteScalar(w.enc, item[2]))
    BY <1>1, <1>2, ScalarExtends
  <2>2. r = Writer(WriteScalar(w.enc, item[2]), w.starts)
    BY <1>1, <1>2 DEF WriteItem, Writer, Writers
  <2> QED
    BY <1>1, <2>1, <2>2 DEF Writer, Writers, Extends
<1>3. CASE item[1] = "raw" /\ item[2] \in Seq(Byte)
  <2>1. Extends(w.enc, WriteRaw(w.enc, item[2]))
    BY <1>1, <1>3, AdvanceExtends DEF WriteRaw
  <2>2. r = Writer(WriteRaw(w.enc, item[2]), w.starts)
    BY <1>1, <1>3 DEF WriteItem, Writer, Writers
  <2> QED
    BY <1>1, <2>1, <2>2 DEF Writer, Writers, Extends
<1>4. CASE item[1] = "string" /\ item[2] \in Seq(Byte)
  <2>1. Extends(w.enc, WriteString(w.enc, item[2]))
    BY <1>1, <1>4, StringExtends
  <2>2. r = Writer(WriteString(w.enc, item[2]), w.starts)
    BY <1>1, <1>4 DEF WriteItem, Writer, Writers
  <2> QED
    BY <1>1, <2>1, <2>2 DEF Writer, Writers, Extends
<1>5. CASE item \in {"scalar"} \X {v \in Seq(Byte) : Len(v) \in {1, 2, 4}}
  <2>1. item[1] = "scalar" /\ item[2] \in Seq(Byte) /\ Len(item[2]) \in {1, 2, 4}
    BY <1>5
  <2>2. \A n \in {1, 2, 4} : n > 0
    OBVIOUS
  <2>3. Len(item[2]) > 0
    BY <2>1, <2>2, Zenon
  <2> QED
    BY <1>2, <2>1, <2>3
<1>6. CASE item \in {"raw"} \X Seq(Byte)
  BY <1>3, <1>6
<1>7. CASE item \in {"string"} \X Seq(Byte)
  BY <1>4, <1>7
<1> QED
  BY <1>5, <1>6, <1>7 DEF Flat

LEMMA WriterExtends ==
  ASSUME NEW w \in Writers
  PROVE  Extends(w.enc, w.enc)
BY DEF Writers, Extends, Encoders

LEMMA FlatClosed ==
  ASSUME NEW items \in Seq(Flat)
  PROVE  Closed(items)
<1>1. items \in Seq(Items) /\ Len(items) \in Nat
  BY DEF Items
<1>2. ASSUME NEW w \in Writers
      PROVE  /\ WriteItems(w, items) \in Writers
             /\ WriteItems(w, items).starts = w.starts
             /\ Extends(w.enc, WriteItems(w, items).enc)
  <2> DEFINE n == Len(items)
  <2>1. PICK f : Rounds(w, items, n, f)
    BY <1>1, RoundsExist
  <2> DEFINE Good(i) == f[i] \in Writers /\ f[i].starts = w.starts /\ Extends(w.enc, f[i].enc)
             T == {i \in 0 .. n : ~Good(i)}
  <2>2. \A i \in 0 .. n : f[i] = IF i = 0 THEN w ELSE WriteItem(f[i - 1], items[i])
    BY <2>1 DEF Rounds
  <2>3. T = {}
    <3> SUFFICES ASSUME T # {}
                 PROVE  FALSE
      OBVIOUS
    <3>1. PICK i \in T : \A k \in T : i <= k
      <4> HIDE DEF T
      <4>1. T \subseteq Nat
        BY <1>1 DEF T
      <4> QED
        BY <4>1, LeastExists
    <3>2. i \in 0 .. n /\ ~Good(i)
      BY <3>1
    <3>3. Good(0)
      <4>1. f[0] = w
        BY <1>1, <2>2
      <4> QED
        BY <4>1, WriterExtends
    <3>4. i # 0 /\ i - 1 \in 0 .. n /\ ~(i <= i - 1) /\ i \in 1 .. n
      BY <1>1, <3>2, <3>3
    <3>5. Good(i - 1)
      BY <3>1, <3>4
    <3>6. f[i] = WriteItem(f[i - 1], items[i]) /\ items[i] \in Flat
      BY <2>2, <3>2, <3>4
    <3>7. /\ f[i] \in Writers /\ f[i].starts = f[i - 1].starts
          /\ Extends(f[i - 1].enc, f[i].enc)
      BY <3>5, <3>6, FlatItem
    <3>8. w.enc \in Encoders
      BY DEF Writers
    <3>9. Extends(w.enc, f[i].enc)
      BY <3>5, <3>7, <3>8, ExtendsTransitive
    <3> QED
      BY <3>2, <3>5, <3>7, <3>9
  <2>4. Good(n)
    BY <1>1, <2>3
  <2>5. WriteItems(w, items) = f[n]
    BY <1>1, <2>1, RoundsAre
  <2> QED
    BY <2>4, <2>5
<1> QED
  BY <1>1, <1>2 DEF Closed

LEMMA BothClosed ==
  ASSUME NEW a, NEW b, Closed(a), Closed(b)
  PROVE  Closed(a \o b)
<1>1. a \in Seq(Items) /\ b \in Seq(Items) /\ a \o b \in Seq(Items)
  BY DEF Closed
<1>2. ASSUME NEW w \in Writers
      PROVE  /\ WriteItems(w, a \o b) \in Writers
             /\ WriteItems(w, a \o b).starts = w.starts
             /\ Extends(w.enc, WriteItems(w, a \o b).enc)
  <2> DEFINE v == WriteItems(w, a)
             r == WriteItems(v, b)
  <2>1. v \in Writers /\ v.starts = w.starts /\ Extends(w.enc, v.enc)
    BY DEF Closed
  <2>2. r \in Writers /\ r.starts = v.starts /\ Extends(v.enc, r.enc)
    BY <2>1 DEF Closed
  <2>3. WriteItems(w, a \o b) = r
    BY <1>1, TwoParts
  <2>4. w.enc \in Encoders
    BY DEF Writers
  <2>5. Extends(w.enc, r.enc)
    BY <2>1, <2>2, <2>4, ExtendsTransitive
  <2> QED
    BY <2>1, <2>2, <2>3, <2>5
<1> QED
  BY <1>1, <1>2 DEF Closed

\* An item by itself.
LEMMA SingleItem ==
  ASSUME NEW w, NEW S, NEW item \in S
  PROVE  WriteItems(w, <<item>>) = WriteItem(w, item)
<1>1. <<item>> = Append(<<>>, item) /\ <<>> \in Seq(S)
  OBVIOUS
<1> DEFINE none == <<>>
<1>0. none \in Seq(S)
  OBVIOUS
<1> HIDE DEF none
<1>2. WriteItems(w, Append(none, item)) = WriteItem(WriteItems(w, none), item)
  BY <1>0, OneItemMore
<1> QED
  BY <1>1, <1>2, NoItems, Zenon DEF none

\* The stack without what was pushed onto it.
LEMMA PushedIsPopped ==
  ASSUME NEW S, NEW s \in Seq(S), NEW x \in S
  PROVE  Last(Append(s, x)) = x /\ Front(Append(s, x)) = s
<1> DEFINE t == Append(s, x)
           u == Front(t)
<1>1. t \in Seq(S) /\ Len(t) = Len(s) + 1 /\ t[Len(s) + 1] = x /\ \A i \in 1 .. Len(s) : t[i] = s[i]
  OBVIOUS
<1>2. t # <<>> /\ Len(s) \in Nat
  BY <1>1
<1> HIDE DEF t
<1>3. u \in Seq(S) /\ Len(u) = Len(s) /\ \A i \in 1 .. Len(s) : u[i] = t[i]
  BY <1>1, <1>2, FrontType DEF Front
<1> HIDE DEF u
<1>4. u = s
  BY <1>1, <1>3, SeqEqual
<1>5. Last(t) = x
  BY <1>1 DEF Last
<1> QED
  BY <1>4, <1>5 DEF t, u

\* A DHEADER around closed items is closed: its placeholder is behind all that
\* was there.
LEMMA DelimitedClosed ==
  ASSUME NEW items, Closed(items)
  PROVE  Closed(Delimited(items))
<1>1. items \in Seq(Items) /\ Begin \in Items /\ Finish \in Items
  BY DEF Closed, Items
<1>2. <<Begin>> \in Seq(Items) /\ <<Finish>> \in Seq(Items) /\ <<Begin>> \o items \in Seq(Items)
  BY <1>1
<1>3. Delimited(items) \in Seq(Items)
  BY <1>1, <1>2 DEF Delimited
<1>4. ASSUME NEW w \in Writers
      PROVE  /\ WriteItems(w, Delimited(items)) \in Writers
             /\ WriteItems(w, Delimited(items)).starts = w.starts
             /\ Extends(w.enc, WriteItems(w, Delimited(items)).enc)
  <2> DEFINE start == DHeaderStart(w.enc)
             u == WriteItem(w, Begin)
             v == WriteItems(u, items)
             r == WriteItem(v, Finish)
  <2>1. w.enc \in Encoders /\ w.enc.pos = Len(w.enc.buf) /\ w.starts \in Seq(Nat)
    BY DEF Writers
  <2>2. /\ Extends(w.enc, BeginDHeader(w.enc)) /\ start \in Nat
        /\ start >= Len(w.enc.buf) /\ start + 4 = Len(BeginDHeader(w.enc).buf)
    BY <2>1, BeginExtends
  <2>3. u = Writer(BeginDHeader(w.enc), Append(w.starts, start))
    BY DEF WriteItem, Begin
  <2>4. u.enc = BeginDHeader(w.enc) /\ u.starts = Append(w.starts, start) /\ u \in Writers
    BY <2>1, <2>2, <2>3 DEF Writer, Writers, Extends
  <2> HIDE DEF u, start
  <2>5. v \in Writers /\ v.starts = u.starts /\ Extends(u.enc, v.enc)
    BY <2>4 DEF Closed
  <2> HIDE DEF v
  <2>6. Last(v.starts) = start /\ Front(v.starts) = w.starts
    BY <2>1, <2>2, <2>4, <2>5, PushedIsPopped
  <2>7. r = Writer(FinishDHeader(v.enc, start), w.starts)
    BY <2>6 DEF WriteItem, Finish
  <2>8. /\ v.enc \in Encoders /\ v.enc.pos = Len(v.enc.buf) /\ start + 4 <= Len(v.enc.buf)
        /\ Extends(w.enc, v.enc)
    <3>1. v.enc \in Encoders /\ v.enc.pos = Len(v.enc.buf)
      BY <2>5 DEF Writers
    <3>2. Len(u.enc.buf) <= Len(v.enc.buf)
      BY <2>5 DEF Extends
    <3>3. Extends(w.enc, v.enc)
      BY <2>1, <2>2, <2>4, <2>5, ExtendsTransitive
    <3> QED
      BY <2>2, <2>4, <3>1, <3>2, <3>3
  <2> DEFINE e == FinishDHeader(v.enc, start)
  <2>9. /\ e \in Encoders /\ e.order = v.enc.order /\ e.pos = v.enc.pos
        /\ Len(e.buf) = Len(v.enc.buf)
        /\ \A i \in 1 .. Len(v.enc.buf) : i \notin start + 1 .. start + 4 => e.buf[i] = v.enc.buf[i]
    BY <2>2, <2>8, FinishPatches
  <2> HIDE DEF e
  <2>10. Extends(w.enc, e)
    <3>1. Len(w.enc.buf) \in Nat /\ Len(v.enc.buf) \in Nat
      BY <2>1, <2>8 DEF Encoders
    <3>2. ASSUME NEW i \in 1 .. Len(w.enc.buf)
          PROVE  e.buf[i] = w.enc.buf[i]
      <4>1. i \in 1 .. Len(v.enc.buf) /\ v.enc.buf[i] = w.enc.buf[i]
        BY <2>8, <3>1 DEF Extends
      <4>2. i \notin start + 1 .. start + 4
        BY <2>2, <3>1
      <4> QED
        BY <2>9, <4>1, <4>2
    <3> QED
      BY <2>8, <2>9, <3>2 DEF Extends
  <2>11. r \in Writers /\ r.starts = w.starts /\ r.enc = e
    BY <2>1, <2>7, <2>8, <2>9 DEF Writer, Writers, e
  <2> HIDE DEF r
  <2>12. WriteItems(w, Delimited(items)) = r
    <3>1. WriteItems(w, <<Begin>>) = u
      BY <1>1, SingleItem DEF u
    <3>2. WriteItems(v, <<Finish>>) = r
      BY <1>1, SingleItem DEF r
    <3> DEFINE front == <<Begin>>
               back == <<Finish>>
    <3>3. front \in Seq(Items) /\ back \in Seq(Items) /\ front \o items \in Seq(Items)
      BY <1>2
    <3> HIDE DEF front, back
    <3>4. WriteItems(w, front \o items) = WriteItems(WriteItems(w, front), items)
      BY <1>1, <3>3, TwoParts
    <3> DEFINE most == front \o items
    <3>5. WriteItems(w, most \o back) = WriteItems(WriteItems(w, most), back)
      <4>1. most \in Seq(Items)
        BY <3>3
      <4> HIDE DEF most
      <4> QED
        BY <3>3, <4>1, TwoParts
    <3> QED
      BY <3>1, <3>2, <3>4, <3>5, Zenon DEF Delimited, front, back, v
  <2> QED
    BY <2>10, <2>11, <2>12
<1> QED
  BY <1>3, <1>4 DEF Closed

\* f holds what the first elements are when they are put together.
Flattening(elems, m, f) ==
  f = [i \in 1 .. m |-> IF i = 1 THEN elems[i] ELSE f[i - 1] \o elems[i]]

LEMMA FlatteningExists ==
  ASSUME NEW elems, NEW n \in Nat
  PROVE  \E f : Flattening(elems, n, f)
<1> DEFINE T == {m \in Nat : ~\E f : Flattening(elems, m, f)}
<1>1. T = {}
  <2> SUFFICES ASSUME T # {}
               PROVE  FALSE
    OBVIOUS
  <2>1. PICK m \in T : \A k \in T : m <= k
    <3> HIDE DEF T
    <3>1. T \subseteq Nat
      BY DEF T
    <3> QED
      BY <3>1, LeastExists
  <2>2. CASE m = 0
    <3> DEFINE f == [i \in 1 .. 0 |-> 0]
    <3>1. f = [i \in 1 .. 0 |-> IF i = 1 THEN elems[i] ELSE f[i - 1] \o elems[i]]
      OBVIOUS
    <3> QED
      BY <2>1, <2>2, <3>1 DEF Flattening
  <2>3. CASE m # 0
    <3>1. m \in Nat /\ m - 1 \in Nat /\ ~(m <= m - 1)
      BY <2>1, <2>3
    <3>2. m - 1 \notin T
      BY <2>1, <3>1
    <3>3. PICK f : Flattening(elems, m - 1, f)
      BY <3>1, <3>2
    <3> DEFINE last == IF m = 1 THEN elems[m] ELSE f[m - 1] \o elems[m]
               g == [i \in 1 .. m |-> IF i = m THEN last ELSE f[i]]
    <3>4. \A i \in 1 .. m - 1 : f[i] = IF i = 1 THEN elems[i] ELSE f[i - 1] \o elems[i]
      BY <3>3 DEF Flattening
    <3>5. ASSUME NEW i \in 1 .. m
          PROVE  g[i] = IF i = 1 THEN elems[i] ELSE g[i - 1] \o elems[i]
      <4>1. CASE i = m
        <5>1. i # 1 => i - 1 \in 1 .. m /\ i - 1 # m
          BY <3>1, <4>1
        <5>2. g[i] = last /\ (i # 1 => g[i - 1] = f[i - 1])
          BY <4>1, <5>1
        <5> QED
          BY <4>1, <5>2
      <4>2. CASE i # m
        <5>1. i \in 1 .. m - 1 /\ (i # 1 => i - 1 \in 1 .. m /\ i - 1 # m)
          BY <3>1, <4>2
        <5>2. g[i] = f[i] /\ (i # 1 => g[i - 1] = f[i - 1])
          BY <4>2, <5>1
        <5> QED
          BY <3>4, <5>1, <5>2
      <4> QED
        BY <4>1, <4>2
    <3>6. g = [i \in 1 .. m |-> g[i]]
      OBVIOUS
    <3> HIDE DEF g
    <3>7. Flattening(elems, m, g)
      BY <3>5, <3>6 DEF Flattening
    <3> QED
      BY <2>1, <3>7
  <2> QED
    BY <2>2, <2>3
<1> QED
  BY <1>1

\* Elements of a set that is closed under concatenation stay there when they
\* are put together.
LEMMA FlattenedStays ==
  ASSUME NEW P, <<>> \in P, \A a, b \in P : a \o b \in P, NEW elems \in Seq(P)
  PROVE  FlattenSeq(elems) \in P
<1> DEFINE n == Len(elems)
           g == CHOOSE f : Flattening(elems, n, f)
<1>1. n \in Nat /\ \A i \in 1 .. n : elems[i] \in P
  OBVIOUS
<1>2. CASE n = 0
  <2>1. elems = <<>>
    BY <1>2
  <2> QED
    BY <1>2, <2>1 DEF FlattenSeq
<1>3. CASE n # 0
  <2>1. Flattening(elems, n, g)
    BY <1>1, FlatteningExists
  <2>2. FlattenSeq(elems) = g[n]
    BY <1>3 DEF FlattenSeq, Flattening
  <2> HIDE DEF g
  <2>3. \A i \in 1 .. n : g[i] = IF i = 1 THEN elems[i] ELSE g[i - 1] \o elems[i]
    BY <2>1 DEF Flattening
  <2> DEFINE T == {i \in 1 .. n : g[i] \notin P}
  <2>4. T = {}
    <3> SUFFICES ASSUME T # {}
                 PROVE  FALSE
      OBVIOUS
    <3>1. PICK i \in T : \A k \in T : i <= k
      <4> HIDE DEF T
      <4>1. T \subseteq Nat
        BY <1>1 DEF T
      <4> QED
        BY <4>1, LeastExists
    <3>2. i \in 1 .. n /\ g[i] \notin P
      BY <3>1
    <3>3. i # 1 /\ i - 1 \in 1 .. n /\ ~(i <= i - 1)
      BY <1>1, <2>3, <3>2
    <3>4. g[i - 1] \in P /\ elems[i] \in P
      BY <1>1, <3>1, <3>2, <3>3
    <3> QED
      BY <2>3, <3>2, <3>3, <3>4
  <2>5. n \in 1 .. n
    BY <1>1, <1>3
  <2> QED
    BY <2>2, <2>4, <2>5
<1> QED
  BY <1>2, <1>3

ClosedItems == {items \in Seq(Items) : Closed(items)}

LEMMA NoneClosed == Closed(<<>>)
<1>1. <<>> \in Seq(Flat)
  OBVIOUS
<1> QED
  BY <1>1, FlatClosed

LEMMA DelimitedSeqClosed ==
  ASSUME NEW elems \in Seq(ClosedItems)
  PROVE  Closed(DelimitedSeq(elems))
<1>1. Closed(FlattenSeq(elems))
  <2>1. <<>> \in ClosedItems
    BY NoneClosed DEF ClosedItems
  <2>2. \A a, b \in ClosedItems : a \o b \in ClosedItems
    BY BothClosed DEF ClosedItems, Closed
  <2> HIDE DEF ClosedItems
  <2>3. FlattenSeq(elems) \in ClosedItems
    BY <2>1, <2>2, FlattenedStays
  <2> QED
    BY <2>3 DEF ClosedItems
<1>2. Closed(<<U32(Len(elems))>>)
  <2>1. Len(elems) \in Int
    OBVIOUS
  <2>2. U32(Len(elems)) \in Flat
    BY <2>1, WordType DEF U32, Flat
  <2>3. <<U32(Len(elems))>> \in Seq(Flat)
    BY <2>2
  <2> QED
    BY <2>3, FlatClosed
<1> QED
  BY <1>1, <1>2, BothClosed, DelimitedClosed DEF DelimitedSeq

\* A single byte goes right behind what was written, in either order.
LEMMA ByteWritten ==
  ASSUME NEW e \in Encoders, e.pos = Len(e.buf), NEW b \in Byte
  PROVE  WriteScalar(e, <<b>>).buf = e.buf \o <<b>>
<1>1. e.buf \in Seq(Byte) /\ e.pos \in Nat /\ e.order \in ByteOrders
  BY DEF Encoders
<1>2. Pad(e.pos, 1) = 0
  <2>1. Cap(1) = 1 /\ \A n \in Nat : n % 1 = 0
    BY DEF Cap
  <2> QED
    BY <1>1, <2>1 DEF Pad
<1>3. Zeros(0) = <<>>
  BY DEF Zeros
<1>4. Swap(<<b>>) = <<b>>
  BY DEF Swap
<1>5. Put(e.order, <<b>>) = <<b>>
  BY <1>4 DEF Put
<1>6. Len(<<b>>) = 1 /\ e.buf \o <<>> = e.buf
  BY <1>1
<1>7. EncAlign(e, 1) = [buf |-> e.buf \o Zeros(0), pos |-> e.pos + 0, order |-> e.order]
  BY <1>2 DEF EncAlign, Advance
<1>8. EncAlign(e, 1).buf = e.buf /\ EncAlign(e, 1).order = e.order
  <2>1. e.buf \o Zeros(0) = e.buf
    BY <1>3, <1>6, Zenon
  <2> QED
    BY <1>7, <2>1
<1> QED
  BY <1>5, <1>6, <1>8 DEF WriteScalar, WriteRaw, Advance

LEMMA FifthByte ==
  ASSUME NEW s \in Seq(Byte), Len(s) = 4, NEW b \in Byte
  PROVE  Len(s \o <<b>>) = 5 /\ (s \o <<b>>)[5] = b
<1>1. <<b>> \in Seq(Byte) /\ Len(<<b>>) = 1 /\ <<b>>[1] = b
  OBVIOUS
<1>2. ASSUME NEW t \in Seq(Byte), Len(t) = 1
      PROVE  Len(s \o t) = 5 /\ (s \o t)[5] = t[1]
  <2>1. Len(s \o t) = Len(s) + Len(t)
    BY SliceBehind
  <2>2. 1 \in 1 .. Len(t)
    BY <1>2
  <2>3. (s \o t)[Len(s) + 1] = t[1]
    BY <2>2, ConcatElements
  <2>4. Len(s) + 1 = 5 /\ Len(s) + Len(t) = 5
    BY <1>2
  <2> QED
    BY <2>1, <2>3, <2>4, Zenon
<1> QED
  BY <1>1, <1>2

\* The fifth byte of a type object is its kind: the size in front of it is
\* patched, and nothing else is written over.
LEMMA KindWritten ==
  ASSUME NEW kind \in Byte, NEW content, Closed(content)
  PROVE  /\ SerializeTypeObject(kind, content) \in Seq(Byte)
         /\ SerializeTypeObject(kind, content)[5] = kind
<1> DEFINE e == NewRawEncoder(LE)
           w == Writer(e, <<>>)
           start == DHeaderStart(e)
           u == WriteItem(w, Begin)
           k == WriteItem(u, U8(kind))
           v == WriteItems(k, content)
           r == WriteItem(v, Finish)
<1>1. /\ e \in Encoders /\ e.pos = Len(e.buf) /\ e.pos = 0 /\ e.buf = <<>>
      /\ w.enc = e /\ w.starts = <<>>
  BY DEF NewRawEncoder, Encoders, ByteOrders, Writer
<1> HIDE DEF e
<1>2. start = 0
  BY <1>1 DEF DHeaderStart, Pad, Cap
<1>3. Extends(e, BeginDHeader(e)) /\ Len(BeginDHeader(e).buf) = 4
  <2>1. Extends(e, BeginDHeader(e)) /\ start + 4 = Len(BeginDHeader(e).buf)
    BY <1>1, BeginExtends
  <2> QED
    BY <1>2, <2>1
<1>4. u = Writer(BeginDHeader(e), Append(<<>>, 0))
  BY <1>1, <1>2 DEF WriteItem, Begin
<1>5. Append(<<>>, 0) = <<0>> /\ <<0>> \in Seq(Nat)
  OBVIOUS
<1>6. /\ u.enc = BeginDHeader(e) /\ u.starts = <<0>> /\ u \in Writers
      /\ Len(u.enc.buf) = 4 /\ u.enc \in Encoders /\ u.enc.pos = Len(u.enc.buf)
  <2>1. u.enc = BeginDHeader(e) /\ u.starts = <<0>>
    BY <1>4, <1>5 DEF Writer
  <2>2. u.enc \in Encoders /\ u.enc.pos = Len(u.enc.buf) /\ Len(u.enc.buf) = 4
    BY <1>3, <2>1 DEF Extends
  <2>3. u = [enc |-> u.enc, starts |-> u.starts]
    BY <1>4, <2>1 DEF Writer
  <2> QED
    BY <1>5, <2>1, <2>2, <2>3 DEF Writers
<1> HIDE DEF u
<1>7. U8(kind) = <<"scalar", <<kind>>>>
  BY DEF U8, Byte
<1>8. U8(kind) \in Flat /\ <<kind>> \in Seq(Byte)
  <2>1. <<kind>> \in Seq(Byte) /\ Len(<<kind>>) \in {1, 2, 4}
    OBVIOUS
  <2> DEFINE b == <<kind>>
  <2> HIDE DEF b
  <2>2. <<"scalar", b>> \in Flat
    BY <2>1 DEF Flat, b
  <2> QED
    BY <1>7, <2>1, <2>2 DEF b
<1>9. k \in Writers /\ k.starts = <<0>>
  BY <1>6, <1>8, FlatItem
<1>10. k.enc = WriteScalar(u.enc, <<kind>>)
  BY <1>6, <1>7 DEF WriteItem, Writers
<1>11. k.enc.buf = u.enc.buf \o <<kind>>
  BY <1>6, <1>10, ByteWritten
<1>12. Len(k.enc.buf) = 5 /\ k.enc.buf[5] = kind
  <2>1. u.enc.buf \in Seq(Byte) /\ Len(u.enc.buf) = 4
    BY <1>6 DEF Encoders
  <2> QED
    BY <1>11, <2>1, FifthByte
<1> HIDE DEF k
<1>13. v \in Writers /\ v.starts = <<0>> /\ Extends(k.enc, v.enc)
  BY <1>9 DEF Closed
<1>14. 5 <= Len(v.enc.buf) /\ v.enc.buf[5] = kind
  BY <1>12, <1>13 DEF Extends
<1> HIDE DEF v
<1>15. r = Writer(FinishDHeader(v.enc, 0), Front(v.starts))
  BY <1>13 DEF WriteItem, Finish, Last
<1>16. v.enc \in Encoders /\ v.enc.pos = Len(v.enc.buf) /\ Len(v.enc.buf) \in Nat
  BY <1>13 DEF Writers, Encoders
<1>17. \A i \in 1 .. Len(v.enc.buf) :
         i \notin 0 + 1 .. 0 + 4 => FinishDHeader(v.enc, 0).buf[i] = v.enc.buf[i]
  BY <1>14, <1>16, FinishPatches
<1>18. r.enc.buf[5] = kind /\ r.enc.buf \in Seq(Byte)
  <2>1. 0 + 4 <= Len(v.enc.buf)
    BY <1>14, <1>16
  <2>2. FinishDHeader(v.enc, 0) \in Encoders
    BY <1>16, <2>1, FinishPatches
  <2>3. r.enc = FinishDHeader(v.enc, 0)
    BY <1>15 DEF Writer
  <2>4. FinishDHeader(v.enc, 0).buf[5] = kind
    BY <1>14, <1>16, <1>17
  <2> QED
    BY <2>2, <2>3, <2>4 DEF Encoders
<1> HIDE DEF r
<1>19. WriteItems(w, Delimited(<<U8(kind)>> \o content)) = r
  <2> DEFINE front == <<Begin>>
             back == <<Finish>>
             head == <<U8(kind)>>
             inner == head \o content
             most == front \o inner
  <2>1. /\ Begin \in Items /\ Finish \in Items /\ U8(kind) \in Items /\ content \in Seq(Items)
    BY <1>8 DEF Closed, Items
  <2>2. front \in Seq(Items) /\ back \in Seq(Items) /\ head \in Seq(Items)
    BY <2>1
  <2>3. WriteItems(w, front) = u /\ WriteItems(u, head) = k /\ WriteItems(v, back) = r
    BY <2>1, SingleItem DEF u, k, r
  <2> HIDE DEF front, back, head
  <2>4. WriteItems(u, inner) = v
    BY <2>1, <2>2, <2>3, TwoParts DEF v
  <2>5. inner \in Seq(Items)
    BY <2>1, <2>2
  <2> HIDE DEF inner
  <2>6. WriteItems(w, most) = v /\ most \in Seq(Items)
    BY <2>2, <2>3, <2>4, <2>5, TwoParts
  <2> HIDE DEF most
  <2>7. WriteItems(w, most \o back) = r
    BY <2>2, <2>3, <2>6, TwoParts
  <2> QED
    BY <2>7, Zenon DEF Delimited, most, inner, front, back, head
<1> QED
  BY <1>18, <1>19 DEF SerializeTypeObject, Serialize, e

-----------------------------------------------------------------------------
(***************************************************************************)
(* Layouts                                                                 *)
(***************************************************************************)
\* Names that have bytes and a hash.
Known == {n \in STRING : Text[n] \in Seq(Byte) /\ NameHash[n] \in Seq(Byte)}

LEMMA U8Flat ==
  ASSUME NEW n \in Int
  PROVE  U8(n) \in Flat
<1>1. n % 256 \in Byte
  BY DEF Byte
<1>2. <<n % 256>> \in Seq(Byte) /\ Len(<<n % 256>>) = 1
  BY <1>1
<1> QED
  BY <1>2 DEF U8, Flat

LEMMA U32Flat ==
  ASSUME NEW n \in Int
  PROVE  U32(n) \in Flat
<1>1. Word(n) \in Seq(Byte) /\ Len(Word(n)) = 4
  BY WordType
<1> QED
  BY <1>1 DEF U32, Flat

LEMMA PairFlat ==
  ASSUME NEW p \in Byte, NEW q \in Byte
  PROVE  <<"scalar", <<p, q>>>> \in Flat
<1>1. <<p, q>> \in Seq(Byte) /\ Len(<<p, q>>) = 2
  OBVIOUS
<1>2. ASSUME NEW b \in Seq(Byte), Len(b) = 2
      PROVE  <<"scalar", b>> \in Flat
  BY <1>2 DEF Flat
<1> QED
  BY <1>1, <1>2

\* Flags.
Uint16 == {n \in Nat : n < 65536}

LEMMA U16Flat ==
  ASSUME NEW n \in Uint16
  PROVE  U16(n) \in Flat
<1>1. n \in Nat /\ n < 65536
  BY DEF Uint16
<1>2. n \div 256 \in Nat /\ n \div 256 < 256 /\ n % 256 \in Nat /\ n % 256 < 256
  BY <1>1, SMT
<1>3. n \div 256 \in Byte /\ n % 256 \in Byte
  BY <1>2 DEF Byte
<1> QED
  BY <1>3, PairFlat DEF U16

LEMMA BytesFlat ==
  ASSUME NEW bytes \in Seq(Byte)
  PROVE  Raw(bytes) \in Flat /\ String(bytes) \in Flat
BY DEF Raw, String, Flat

\* Identifiers.
LEMMA EquivInt ==
  ASSUME NEW elem, NEW kind \in Byte
  PROVE  EquivKind(elem, kind) \in Int
BY DEF EquivKind, BOTH, Byte

LEMMA CollectionFlat ==
  ASSUME NEW w \in {"seq", "arr"} \X Nat, NEW elem \in Seq(Flat), NEW kind \in Byte
  PROVE  CollectionTID(w, elem, kind) \in Seq(Flat)
<1>1. w[2] \in Int
  OBVIOUS
<1> DEFINE a == Header(elem, kind)
           n == w[2]
<1>2. a \in Seq(Flat)
  <2>1. U8(EquivKind(elem, kind)) \in Flat
    BY EquivInt, U8Flat
  <2>2. U16(1) \in Flat
    BY U16Flat DEF Uint16
  <2> QED
    BY <2>1, <2>2 DEF Header
<1>3. /\ <<U8(128)>> \in Seq(Flat) /\ <<U8(129)>> \in Seq(Flat)
      /\ <<U8(144)>> \in Seq(Flat) /\ <<U8(145)>> \in Seq(Flat)
      /\ <<U8(n)>> \in Seq(Flat) /\ <<U32(n)>> \in Seq(Flat)
      /\ <<U32(1), U8(n)>> \in Seq(Flat) /\ <<U32(1), U32(n)>> \in Seq(Flat)
  <2>1. /\ U8(128) \in Flat /\ U8(129) \in Flat /\ U8(144) \in Flat /\ U8(145) \in Flat
        /\ U32(1) \in Flat /\ U8(n) \in Flat /\ U32(n) \in Flat
    BY <1>1, U8Flat, U32Flat
  <2> QED
    BY <2>1
<1> HIDE DEF a, n
<1>4. \A s, t \in Seq(Flat) : s \o t \in Seq(Flat)
  OBVIOUS
<1>5. SequenceTID(n, elem, kind) \in Seq(Flat)
  <2>1. /\ <<U8(128)>> \o a \o <<U8(n)>> \in Seq(Flat)
        /\ <<U8(129)>> \o a \o <<U32(n)>> \in Seq(Flat)
    BY <1>2, <1>3, <1>4
  <2> QED
    BY <1>4, <2>1 DEF SequenceTID, a
<1>6. ArrayTID(n, elem, kind) \in Seq(Flat)
  <2>1. /\ <<U8(144)>> \o a \o <<U32(1), U8(n)>> \in Seq(Flat)
        /\ <<U8(145)>> \o a \o <<U32(1), U32(n)>> \in Seq(Flat)
    BY <1>2, <1>3, <1>4
  <2> QED
    BY <1>4, <2>1 DEF ArrayTID, a
<1> QED
  BY <1>5, <1>6 DEF CollectionTID, n

LEMMA FlatTwice ==
  ASSUME NEW s \in Seq(Flat), NEW t \in Seq(Flat)
  PROVE  s \o t \in Seq(Flat)
OBVIOUS

\* Members and literals as the layouts take them.
Built == [id : Int, flags : Uint16, labels : Seq(Int), name : Known, tid : Seq(Flat)]
Literals == [name : Known, flags : Uint16, value : Int]

\* The details behind a name.
LEMMA DetailsFlat ==
  ASSUME NEW n \in Known
  PROVE  MinimalMemberDetail(n) \in Seq(Flat) /\ CompleteMemberDetail(n) \in Seq(Flat)
<1>1. Text[n] \in Seq(Byte) /\ NameHash[n] \in Seq(Byte)
  BY DEF Known
<1>2. Raw(NameHash[n]) \in Flat /\ String(Text[n]) \in Flat /\ U8(0) \in Flat
  BY <1>1, BytesFlat, U8Flat
<1>3. <<Raw(NameHash[n])>> \in Seq(Flat) /\ <<String(Text[n])>> \in Seq(Flat)
      /\ Absent \in Seq(Flat)
  BY <1>2 DEF Absent
<1> QED
  BY <1>3, FlatTwice DEF MinimalMemberDetail, CompleteMemberDetail

LEMMA TypeDetailFlat ==
  ASSUME NEW name \in Seq(Byte)
  PROVE  CompleteTypeDetail(name) \in Seq(Flat) /\ Absent \in Seq(Flat)
<1>1. String(name) \in Flat /\ U8(0) \in Flat
  BY BytesFlat, U8Flat
<1>2. <<String(name)>> \in Seq(Flat) /\ Absent \in Seq(Flat)
  BY <1>1 DEF Absent
<1> QED
  BY <1>2, FlatTwice DEF CompleteTypeDetail

LEMMA PairsFlat ==
  ASSUME NEW n \in Int, NEW m \in Uint16
  PROVE  /\ <<U8(n), U16(m)>> \in Seq(Flat) /\ <<U32(n), U16(m)>> \in Seq(Flat)
         /\ <<U16(m)>> \in Seq(Flat) /\ <<U8(n)>> \in Seq(Flat) /\ <<U32(n)>> \in Seq(Flat)
<1>1. U8(n) \in Flat /\ U16(m) \in Flat /\ U32(n) \in Flat
  BY U8Flat, U16Flat, U32Flat
<1> QED
  BY <1>1

LEMMA StructMemberClosed ==
  ASSUME NEW m \in Built
  PROVE  Closed(MinimalStructMember(m)) /\ Closed(CompleteStructMember(m))
<1>1. m.id \in Int /\ m.flags \in Uint16 /\ m.name \in Known /\ m.tid \in Seq(Flat)
  BY DEF Built
<1>2. <<U32(m.id), U16(m.flags)>> \in Seq(Flat)
  BY <1>1, PairsFlat
<1>3. <<U32(m.id), U16(m.flags)>> \o m.tid \in Seq(Flat)
  BY <1>1, <1>2, FlatTwice
<1>4. /\ <<U32(m.id), U16(m.flags)>> \o m.tid \o MinimalMemberDetail(m.name) \in Seq(Flat)
      /\ <<U32(m.id), U16(m.flags)>> \o m.tid \o CompleteMemberDetail(m.name) \in Seq(Flat)
  BY <1>1, <1>3, FlatTwice, DetailsFlat
<1> QED
  BY <1>4, FlatClosed, DelimitedClosed DEF MinimalStructMember, CompleteStructMember

LEMMA UnionMemberClosed ==
  ASSUME NEW m \in Built
  PROVE  Closed(MinimalUnionMember(m)) /\ Closed(CompleteUnionMember(m))
<1>1. /\ m.id \in Int /\ m.flags \in Uint16 /\ m.name \in Known /\ m.tid \in Seq(Flat)
      /\ m.labels \in Seq(Int)
  BY DEF Built
<1> DEFINE labels == [i \in DOMAIN m.labels |-> U32(m.labels[i])]
<1>2. labels \in Seq(Flat)
  <2>1. DOMAIN m.labels = 1 .. Len(m.labels) /\ Len(m.labels) \in Nat
    BY <1>1
  <2>2. \A i \in DOMAIN m.labels : U32(m.labels[i]) \in Flat
    BY <1>1, U32Flat
  <2> QED
    BY <2>1, <2>2
<1> HIDE DEF labels
<1>3. <<U32(m.id), U16(m.flags)>> \in Seq(Flat) /\ <<U32(Len(m.labels))>> \in Seq(Flat)
  <2>1. Len(m.labels) \in Int
    BY <1>1
  <2> QED
    BY <1>1, <2>1, PairsFlat
<1>4. CommonUnionMember(m) \in Seq(Flat)
  <2>1. <<U32(m.id), U16(m.flags)>> \o m.tid \in Seq(Flat)
    BY <1>1, <1>3, FlatTwice
  <2>2. <<U32(m.id), U16(m.flags)>> \o m.tid \o <<U32(Len(m.labels))>> \in Seq(Flat)
    BY <1>3, <2>1, FlatTwice
  <2>3. <<U32(m.id), U16(m.flags)>> \o m.tid \o <<U32(Len(m.labels))>> \o labels \in Seq(Flat)
    BY <1>2, <2>2, FlatTwice
  <2> QED
    BY <2>3 DEF CommonUnionMember, labels
<1>5. /\ CommonUnionMember(m) \o MinimalMemberDetail(m.name) \in Seq(Flat)
      /\ CommonUnionMember(m) \o CompleteMemberDetail(m.name) \in Seq(Flat)
  BY <1>1, <1>4, FlatTwice, DetailsFlat
<1> QED
  BY <1>5, FlatClosed, DelimitedClosed DEF MinimalUnionMember, CompleteUnionMember

LEMMA EnumLiteralClosed ==
  ASSUME NEW l \in Literals
  PROVE  Closed(MinimalEnumLiteral(l)) /\ Closed(CompleteEnumLiteral(l))
<1>1. l.value \in Int /\ l.flags \in Uint16 /\ l.name \in Known
  BY DEF Literals
<1>2. Closed(CommonEnumLiteral(l))
  BY <1>1, PairsFlat, FlatClosed, DelimitedClosed DEF CommonEnumLiteral
<1>3. Closed(MinimalMemberDetail(l.name)) /\ Closed(CompleteMemberDetail(l.name))
  BY <1>1, DetailsFlat, FlatClosed
<1> QED
  BY <1>2, <1>3, BothClosed, DelimitedClosed DEF MinimalEnumLiteral, CompleteEnumLiteral

\* A sequence of closed elements.
LEMMA ElementsClosed ==
  ASSUME NEW n \in Nat, NEW elems, elems = [i \in 1 .. n |-> elems[i]],
         \A i \in 1 .. n : Closed(elems[i])
  PROVE  Closed(DelimitedSeq(elems))
<1>1. \A i \in 1 .. n : elems[i] \in ClosedItems
  BY DEF ClosedItems, Closed
<1>2. elems \in [1 .. n -> ClosedItems]
  BY <1>1
<1>3. elems \in Seq(ClosedItems)
  BY <1>2
<1> QED
  BY <1>3, DelimitedSeqClosed

LEMMA SequenceDomain ==
  ASSUME NEW S, NEW s \in Seq(S)
  PROVE  DOMAIN s = 1 .. Len(s) /\ Len(s) \in Nat /\ \A i \in 1 .. Len(s) : s[i] \in S
OBVIOUS

LEMMA StructMembersClosed ==
  ASSUME NEW ms \in Seq(Built)
  PROVE  Closed(Members(ms, MinimalStructMember)) /\ Closed(Members(ms, CompleteStructMember))
<1>1. DOMAIN ms = 1 .. Len(ms) /\ Len(ms) \in Nat /\ \A i \in 1 .. Len(ms) : ms[i] \in Built
  BY SequenceDomain
<1> DEFINE a == [i \in DOMAIN ms |-> MinimalStructMember(ms[i])]
           b == [i \in DOMAIN ms |-> CompleteStructMember(ms[i])]
<1>2. \A i \in 1 .. Len(ms) : Closed(a[i]) /\ Closed(b[i])
  BY <1>1, StructMemberClosed
<1>3. a = [i \in 1 .. Len(ms) |-> a[i]] /\ b = [i \in 1 .. Len(ms) |-> b[i]]
  BY <1>1
<1> HIDE DEF a, b
<1>4. Closed(DelimitedSeq(a)) /\ Closed(DelimitedSeq(b))
  BY <1>1, <1>2, <1>3, ElementsClosed
<1> QED
  BY <1>4 DEF Members, a, b

LEMMA UnionMembersClosed ==
  ASSUME NEW ms \in Seq(Built)
  PROVE  Closed(Members(ms, MinimalUnionMember)) /\ Closed(Members(ms, CompleteUnionMember))
<1>1. DOMAIN ms = 1 .. Len(ms) /\ Len(ms) \in Nat /\ \A i \in 1 .. Len(ms) : ms[i] \in Built
  BY SequenceDomain
<1> DEFINE a == [i \in DOMAIN ms |-> MinimalUnionMember(ms[i])]
           b == [i \in DOMAIN ms |-> CompleteUnionMember(ms[i])]
<1>2. \A i \in 1 .. Len(ms) : Closed(a[i]) /\ Closed(b[i])
  BY <1>1, UnionMemberClosed
<1>3. a = [i \in 1 .. Len(ms) |-> a[i]] /\ b = [i \in 1 .. Len(ms) |-> b[i]]
  BY <1>1
<1> HIDE DEF a, b
<1>4. Closed(DelimitedSeq(a)) /\ Closed(DelimitedSeq(b))
  BY <1>1, <1>2, <1>3, ElementsClosed
<1> QED
  BY <1>4 DEF Members, a, b

LEMMA EnumMembersClosed ==
  ASSUME NEW ls \in Seq(Literals)
  PROVE  Closed(Members(ls, MinimalEnumLiteral)) /\ Closed(Members(ls, CompleteEnumLiteral))
<1>1. DOMAIN ls = 1 .. Len(ls) /\ Len(ls) \in Nat /\ \A i \in 1 .. Len(ls) : ls[i] \in Literals
  BY SequenceDomain
<1> DEFINE a == [i \in DOMAIN ls |-> MinimalEnumLiteral(ls[i])]
           b == [i \in DOMAIN ls |-> CompleteEnumLiteral(ls[i])]
<1>2. \A i \in 1 .. Len(ls) : Closed(a[i]) /\ Closed(b[i])
  BY <1>1, EnumLiteralClosed
<1>3. a = [i \in 1 .. Len(ls) |-> a[i]] /\ b = [i \in 1 .. Len(ls) |-> b[i]]
  BY <1>1
<1> HIDE DEF a, b
<1>4. Closed(DelimitedSeq(a)) /\ Closed(DelimitedSeq(b))
  BY <1>1, <1>2, <1>3, ElementsClosed
<1> QED
  BY <1>4 DEF Members, a, b

LEMMA StructTypeClosed ==
  ASSUME NEW flags \in Uint16, NEW name \in Seq(Byte), NEW ms \in Seq(Built)
  PROVE  Closed(MinimalStructType(flags, ms)) /\ Closed(CompleteStructType(flags, name, ms))
<1>1. Closed(<<U8(81), U16(flags)>>) /\ PrimitiveTID(0) \in Seq(Flat)
  <2>1. 81 \in Int /\ 0 \in Int
    OBVIOUS
  <2>2. <<U8(81), U16(flags)>> \in Seq(Flat) /\ <<U8(0)>> \in Seq(Flat)
    BY <2>1, PairsFlat, Zenon
  <2> QED
    BY <2>2, FlatClosed DEF PrimitiveTID
<1>2. Closed(Delimited(PrimitiveTID(0)))
  BY <1>1, FlatClosed, DelimitedClosed
<1>3. Closed(Delimited(PrimitiveTID(0) \o CompleteTypeDetail(name)))
  BY <1>1, TypeDetailFlat, FlatTwice, FlatClosed, DelimitedClosed
<1>4. Closed(Members(ms, MinimalStructMember)) /\ Closed(Members(ms, CompleteStructMember))
  BY StructMembersClosed
<1>5. /\ Closed(<<U8(81), U16(flags)>> \o Delimited(PrimitiveTID(0)))
      /\ Closed(<<U8(81), U16(flags)>> \o Delimited(PrimitiveTID(0) \o CompleteTypeDetail(name)))
  BY <1>1, <1>2, <1>3, BothClosed
<1> QED
  BY <1>4, <1>5, BothClosed DEF MinimalStructType, CompleteStructType

LEMMA UnionTypeClosed ==
  ASSUME NEW flags \in Uint16, NEW name \in Seq(Byte), NEW ms \in Seq(Built), ms # <<>>
  PROVE  Closed(MinimalUnionType(flags, ms)) /\ Closed(CompleteUnionType(flags, name, ms))
<1>1. Closed(<<U8(82), U16(flags)>>)
  <2>1. 82 \in Int
    OBVIOUS
  <2>2. <<U8(82), U16(flags)>> \in Seq(Flat)
    BY <2>1, PairsFlat, Zenon
  <2> QED
    BY <2>2, FlatClosed
<1>2. Closed(Delimited(<<>>)) /\ Closed(Delimited(CompleteTypeDetail(name)))
  BY NoneClosed, TypeDetailFlat, FlatClosed, DelimitedClosed
<1>3. ms[1].tid \in Seq(Flat) /\ <<U16(1)>> \in Seq(Flat)
  <2>1. ms[1] \in Built
    OBVIOUS
  <2> QED
    BY <2>1, PairsFlat DEF Built, Uint16
<1>4. <<U16(1)>> \o ms[1].tid \in Seq(Flat)
  BY <1>3, FlatTwice
<1>5. <<U16(1)>> \o ms[1].tid \o Absent \in Seq(Flat)
  BY <1>4, TypeDetailFlat, FlatTwice
<1>6. /\ Closed(Delimited(<<U16(1)>> \o ms[1].tid))
      /\ Closed(Delimited(<<U16(1)>> \o ms[1].tid \o Absent))
  BY <1>4, <1>5, FlatClosed, DelimitedClosed
<1>7. Tail(ms) \in Seq(Built)
  OBVIOUS
<1>8. Closed(Members(Tail(ms), MinimalUnionMember))
      /\ Closed(Members(Tail(ms), CompleteUnionMember))
  BY <1>7, UnionMembersClosed
<1>9. /\ Closed(<<U8(82), U16(flags)>> \o Delimited(<<>>))
      /\ Closed(<<U8(82), U16(flags)>> \o Delimited(CompleteTypeDetail(name)))
  BY <1>1, <1>2, BothClosed
<1>10. /\ Closed(<<U8(82), U16(flags)>> \o Delimited(<<>>) \o Delimited(<<U16(1)>> \o ms[1].tid))
       /\ Closed(<<U8(82), U16(flags)>> \o Delimited(CompleteTypeDetail(name))
                   \o Delimited(<<U16(1)>> \o ms[1].tid \o Absent))
  BY <1>6, <1>9, BothClosed
<1> QED
  BY <1>8, <1>10, BothClosed DEF MinimalUnionType, CompleteUnionType

LEMMA EnumTypeClosed ==
  ASSUME NEW name \in Seq(Byte), NEW ls \in Seq(Literals)
  PROVE  Closed(MinimalEnumType(ls)) /\ Closed(CompleteEnumType(name, ls))
<1>1. Closed(<<U8(64), U16(1)>>) /\ <<U16(32)>> \in Seq(Flat)
  <2>1. 64 \in Int /\ 1 \in Uint16 /\ 32 \in Uint16
    BY DEF Uint16
  <2>2. <<U8(64), U16(1)>> \in Seq(Flat) /\ <<U16(32)>> \in Seq(Flat)
    BY <2>1, PairsFlat, Zenon
  <2> QED
    BY <2>2, FlatClosed
<1>2. Closed(Delimited(<<U16(32)>>)) /\ Closed(Delimited(<<U16(32)>> \o CompleteTypeDetail(name)))
  BY <1>1, TypeDetailFlat, FlatTwice, FlatClosed, DelimitedClosed
<1>3. /\ Closed(<<U8(64), U16(1)>> \o Delimited(<<U16(32)>>))
      /\ Closed(<<U8(64), U16(1)>> \o Delimited(<<U16(32)>> \o CompleteTypeDetail(name)))
  BY <1>1, <1>2, BothClosed
<1>4. Closed(Members(ls, MinimalEnumLiteral)) /\ Closed(Members(ls, CompleteEnumLiteral))
  BY EnumMembersClosed
<1> QED
  BY <1>3, <1>4, BothClosed DEF MinimalEnumType, CompleteEnumType

-----------------------------------------------------------------------------
(***************************************************************************)
(* The names of a world                                                    *)
(***************************************************************************)
Texted == {n \in STRING : Text[n] \in Seq(Byte)}

LEMMA DeclaredTypes ==
  ASSUME world \in Worlds, NEW d \in Defs
  PROVE  /\ Decl(d) \in Declarations
         /\ Decl(d).kind = "typedef" => Len(Decl(d).members) = 1
         /\ Decl(d).kind = "union" => Decl(d).members # <<>>
<1>1. /\ world.decls \in Seq(Declarations)
      /\ Decl(d).kind = "typedef" => Len(Decl(d).members) = 1
      /\ Decl(d).kind = "union" => Decl(d).members # <<>>
  BY WorldAssumption DEF Defs, Decl
<1>2. d \in 1 .. Len(world.decls)
  BY WorldFacts
<1> QED
  BY <1>1, <1>2, ElementOf DEF Decl

LEMMA FourBytes ==
  ASSUME NEW h \in [1 .. 4 -> Byte]
  PROVE  h \in Seq(Byte) /\ Len(h) = 4
<1>1. 4 \in Nat /\ h \in [1 .. 4 -> Byte]
  OBVIOUS
<1>2. h \in Seq(Byte)
  BY <1>1, SeqDef
<1>3. DOMAIN h = 1 .. Len(h) /\ Len(h) \in Nat
  BY <1>2, LenProperties
<1>4. DOMAIN h = 1 .. 4
  OBVIOUS
<1> QED
  BY <1>2, <1>3, <1>4

Values == [name : STRING, value : Seq(Int)]

LEMMA NamesAreKnown ==
  ASSUME world \in Worlds, NEW d \in Defs
  PROVE  /\ Decl(d).name \in Known
         /\ Decl(d).path \in Seq(Known)
         /\ \A i \in DOMAIN Decl(d).members : Decl(d).members[i].name \in Known
         /\ \A i \in DOMAIN Decl(d).values : Decl(d).values[i].name \in Known
<1>1. /\ Decl(d).name \in STRING /\ Decl(d).path \in Seq(STRING)
      /\ Decl(d).members \in Seq(MemberDecls)
      /\ Decl(d).values \in Seq(Values)
  BY DeclaredTypes DEF Declarations, Values
<1>2. /\ \A i \in DOMAIN Decl(d).members : Decl(d).members[i].name \in STRING
      /\ \A i \in DOMAIN Decl(d).values : Decl(d).values[i].name \in STRING
  <2>1. \A i \in DOMAIN Decl(d).members : Decl(d).members[i] \in MemberDecls
    BY <1>1, ElementOf
  <2>2. \A i \in DOMAIN Decl(d).values : Decl(d).values[i] \in Values
    BY <1>1, ElementOf
  <2> QED
    BY <2>1, <2>2 DEF MemberDecls, Values
<1>3. Decl(d) \in ToSet(world.decls)
  BY DEF Decl, Defs, ToSet
<1>4. \A n \in SpeltIn(Decl(d)) : Text[n] \in Seq(Byte) /\ NameHash[n] \in [1 .. 4 -> Byte]
  BY <1>3, TextAssumption
<1>5. [1 .. 4 -> Byte] \subseteq Seq(Byte)
  BY FourBytes
<1>6. \A n \in SpeltIn(Decl(d)) : n \in STRING => n \in Known
  BY <1>4, <1>5 DEF Known
<1>7. /\ Decl(d).name \in SpeltIn(Decl(d))
      /\ \A i \in DOMAIN Decl(d).path : Decl(d).path[i] \in SpeltIn(Decl(d))
      /\ \A i \in DOMAIN Decl(d).members : Decl(d).members[i].name \in SpeltIn(Decl(d))
      /\ \A i \in DOMAIN Decl(d).values : Decl(d).values[i].name \in SpeltIn(Decl(d))
  BY DEF SpeltIn, ToSet
<1>8. Decl(d).path \in Seq(Known)
  <2>1. \A i \in 1 .. Len(Decl(d).path) : Decl(d).path[i] \in Known
    BY <1>1, <1>6, <1>7
  <2> QED
    BY <1>1, <2>1
<1> QED
  BY <1>1, <1>2, <1>6, <1>7, <1>8

LEMMA PartsAreKnown ==
  ASSUME world \in Worlds, NEW r \in AllRefs
  PROVE  /\ Parts(r) \in Seq(Known) /\ Parts(r) # <<>>
         /\ \A n \in ToSet(Front(Parts(r))) : LowerCase[n] \in Texted
<1>1. r[1] \in Defs /\ IsNamed(r) /\ Parts(r) \in Seq(STRING) /\ Parts(r) # <<>>
      /\ r[2] \in DOMAIN Decl(r[1]).members
  BY RefFacts DEF AllRefs
<1>2. Decl(r[1]) \in ToSet(world.decls)
  BY <1>1 DEF Decl, Defs, ToSet
<1>3. Parts(r) \in PartsIn(Decl(r[1]))
  BY <1>1 DEF PartsIn, Parts, TypeOf, IsNamed
<1>4. \A n \in ToSet(Parts(r)) : Text[n] \in Seq(Byte) /\ NameHash[n] \in [1 .. 4 -> Byte]
  BY <1>2, <1>3, TextAssumption
<1>5. \A n \in ToSet(Front(Parts(r))) : LowerCase[n] \in Texted
  BY <1>2, <1>3, TextAssumption DEF Texted
<1>6. [1 .. 4 -> Byte] \subseteq Seq(Byte)
  BY FourBytes
<1>7. \A i \in 1 .. Len(Parts(r)) : Parts(r)[i] \in Known
  BY <1>1, <1>4, <1>6 DEF Known, ToSet
<1> QED
  BY <1>1, <1>5, <1>7

LEMMA KnownTexted == Known \subseteq Texted /\ \A s \in Seq(Known) : s \in Seq(Texted)
<1>1. Known \subseteq Texted
  BY DEF Known, Texted
<1> QED
  BY <1>1, SeqMonotonic

\* What names are made into keeps to names that have bytes.
LEMMA FlattenTexted ==
  ASSUME NEW path \in Seq(Known)
  PROVE  FlattenModPath(path) \in Seq(Texted)
<1>1. path \in Seq(Texted)
  BY KnownTexted
<1>2. Len(path) >= 3 => path # <<>>
  OBVIOUS
<1>3. CASE Len(path) >= 3
  <2>1. Front(path) \in Seq(Texted)
    BY <1>1, <1>2, <1>3, FrontType DEF Front
  <2> QED
    BY <1>3, <2>1 DEF FlattenModPath
<1> QED
  BY <1>1, <1>3 DEF FlattenModPath

LEMMA ScopeTexted ==
  ASSUME world \in Worlds, NEW f \in 1 .. Len(world.files), NEW rel, Places(f, rel) # {}
  PROVE  ModulePath(f, rel) \in Seq(Texted)
<1>1. PICK d \in Defs : ModulePath(f, rel) = FlattenModPath(Decl(d).path)
  BY ModulePathIs
<1> QED
  BY <1>1, NamesAreKnown, FlattenTexted

LEMMA LastOfSeq ==
  ASSUME NEW S, NEW s \in Seq(S), s # <<>>
  PROVE  Last(s) \in S /\ Last(s) \in ToSet(s)
<1>1. Len(s) \in 1 .. Len(s) /\ DOMAIN s = 1 .. Len(s)
  OBVIOUS
<1> QED
  BY <1>1 DEF Last, ToSet

LEMMA FlattenLast ==
  ASSUME NEW path \in Seq(STRING), path # <<>>
  PROVE  Last(FlattenModPath(path)) \in ToSet(path)
<1>1. Len(path) \in Nat \ {0} /\ DOMAIN path = 1 .. Len(path)
  OBVIOUS
<1>2. CASE Len(path) >= 3
  <2>1. /\ Len(Front(path)) = Len(path) - 1 /\ Len(path) - 1 \in 1 .. Len(path) - 1
        /\ \A i \in 1 .. Len(path) - 1 : Front(path)[i] = path[i]
    BY <1>1, <1>2, FrontType DEF Front
  <2>2. Last(Front(path)) = path[Len(path) - 1]
    BY <2>1 DEF Last
  <2>3. Len(path) - 1 \in DOMAIN path
    BY <1>1, <1>2
  <2> QED
    BY <1>2, <2>2, <2>3 DEF FlattenModPath, ToSet
<1>3. CASE ~(Len(path) >= 3)
  <2>1. Last(path) \in ToSet(path)
    BY LastOfSeq
  <2> QED
    BY <1>3, <2>1 DEF FlattenModPath
<1> QED
  BY <1>2, <1>3

LEMMA WrittenTexted ==
  ASSUME world \in Worlds, NEW r \in AllRefs, NEW path
  PROVE  WrittenName(path, Parts(r)) \in Seq(Texted)
<1> DEFINE parts == Parts(r)
           w == WrittenName(path, parts)
<1>1. parts \in Seq(Known) /\ parts # <<>> /\ parts \in Seq(STRING)
  BY PartsAreKnown, RefFacts
<1>2. parts \in Seq(Texted) /\ Last(parts) \in Texted
  BY <1>1, KnownTexted, LastOfSeq
<1>3. CASE Len(parts) = 1
  BY <1>2, <1>3 DEF WrittenName
<1>4. CASE Len(parts) # 1
  <2>1. /\ Front(parts) \in Seq(STRING) /\ Front(parts) # <<>>
        /\ FlattenModPath(Front(parts)) = path => w = <<Last(parts)>>
        /\ FlattenModPath(Front(parts)) # path =>
             w = <<LowerCase[Last(FlattenModPath(Front(parts)))], Last(parts)>>
    BY <1>1, <1>4, WrittenFacts
  <2>2. Last(FlattenModPath(Front(parts))) \in ToSet(Front(parts))
    BY <2>1, FlattenLast
  <2>3. LowerCase[Last(FlattenModPath(Front(parts)))] \in Texted
    BY <2>2, PartsAreKnown
  <2>4. \A a, b \in Texted : <<a>> \in Seq(Texted) /\ <<a, b>> \in Seq(Texted)
    OBVIOUS
  <2> QED
    BY <1>2, <2>1, <2>3, <2>4
<1> QED
  BY <1>3, <1>4

LEMMA KeyTexted ==
  ASSUME scope \in Seq(Texted), NEW parts \in Seq(Texted)
  PROVE  FullyQualifiedName(parts) \in Seq(Texted)
BY DEF FullyQualifiedName

LEMMA JoinedBytes ==
  ASSUME NEW parts \in Seq(Texted)
  PROVE  Joined(parts) \in Seq(Byte)
<1> DEFINE elem(i) == (IF i = 1 THEN <<>> ELSE <<58, 58>>) \o Text[parts[i]]
           elems == [i \in DOMAIN parts |-> elem(i)]
<1>1. DOMAIN parts = 1 .. Len(parts) /\ Len(parts) \in Nat
      /\ \A i \in 1 .. Len(parts) : parts[i] \in Texted
  OBVIOUS
<1>2. 58 \in Byte
  BY DEF Byte
<1>3. <<58, 58>> \in Seq(Byte) /\ <<>> \in Seq(Byte)
  BY <1>2
<1>4. \A a, b \in Seq(Byte) : a \o b \in Seq(Byte)
  OBVIOUS
<1>5. ASSUME NEW i \in 1 .. Len(parts)
      PROVE  elem(i) \in Seq(Byte)
  <2>1. Text[parts[i]] \in Seq(Byte)
    BY <1>1 DEF Texted
  <2> QED
    BY <1>3, <1>4, <2>1
<1> HIDE DEF elem
<1>6. elems \in [1 .. Len(parts) -> Seq(Byte)]
  BY <1>1, <1>5
<1>7. elems \in Seq(Seq(Byte))
  BY <1>1, <1>6, SeqDef
<1> HIDE DEF elems
<1>8. FlattenSeq(elems) \in Seq(Byte)
  BY <1>3, <1>4, <1>7, FlattenedStays
<1> QED
  BY <1>8 DEF Joined, elems, elem

-----------------------------------------------------------------------------
(***************************************************************************)
(* What types hold                                                         *)
(***************************************************************************)
Holds(d, e) == MayHold(world, d, e)

\* Types that hold only one another.
HoldWithin(S) == \A x \in S : \A e \in Defs : Holds(x, e) => e \in S

\* Those that d holds at any depth.
Under(d) ==
  {e \in Defs : \A S \in SUBSET Defs :
     HoldWithin(S) /\ (\A x \in Defs : Holds(d, x) => x \in S) => e \in S}

LEMMA HeldUnder ==
  ASSUME NEW d, NEW e \in Defs, Holds(d, e)
  PROVE  e \in Under(d)
BY DEF Under

LEMMA UnderUnder ==
  ASSUME NEW d, NEW e \in Under(d), NEW f \in Under(e)
  PROVE  f \in Under(d)
<1>1. e \in Defs /\ f \in Defs
  BY DEF Under
<1>2. ASSUME NEW S \in SUBSET Defs, HoldWithin(S), \A x \in Defs : Holds(d, x) => x \in S
      PROVE  f \in S
  <2>1. e \in S
    BY <1>2 DEF Under
  <2>2. \A x \in Defs : Holds(e, x) => x \in S
    BY <1>2, <2>1 DEF HoldWithin
  <2> QED
    BY <1>2, <2>2 DEF Under
<1> QED
  BY <1>1, <1>2 DEF Under

LEMMA UnderFirst ==
  ASSUME NEW d, NEW f \in Under(d)
  PROVE  \E e \in Defs : Holds(d, e) /\ (f = e \/ f \in Under(e))
<1> DEFINE S == {y \in Defs : \E e \in Defs : Holds(d, e) /\ (y = e \/ y \in Under(e))}
<1>1. ASSUME NEW y \in S, NEW z \in Defs, Holds(y, z)
      PROVE  z \in S
  <2>1. PICK e \in Defs : Holds(d, e) /\ (y = e \/ y \in Under(e))
    BY <1>1
  <2>2. z \in Under(y)
    BY <1>1, HeldUnder
  <2>3. z \in Under(e)
    BY <2>1, <2>2, UnderUnder
  <2> QED
    BY <2>1, <2>3
<1>2. \A x \in Defs : Holds(d, x) => x \in S
  OBVIOUS
<1>3. S \in SUBSET Defs
  OBVIOUS
<1> HIDE DEF S
<1>4. HoldWithin(S)
  BY <1>1 DEF HoldWithin
<1>5. f \in S
  BY <1>2, <1>3, <1>4 DEF Under
<1> QED
  BY <1>5 DEF S

\* No type is under itself: the types that have it under them would each hold
\* one of them.
LEMMA NotUnderItself ==
  ASSUME NoneHoldsItself(world), NEW d
  PROVE  d \notin Under(d)
<1> SUFFICES ASSUME d \in Under(d)
             PROVE  FALSE
  OBVIOUS
<1> DEFINE D == {x \in Defs : d \in Under(x)}
<1>1. d \in D /\ D \in SUBSET DOMAIN world.decls
  BY DEF Under, Defs
<1>2. PICK x \in D : \A e \in D : ~Holds(x, e)
  <2> HIDE DEF D
  <2> QED
    BY <1>1 DEF NoneHoldsItself, Holds
<1>3. PICK e \in Defs : Holds(x, e) /\ (d = e \/ d \in Under(e))
  BY <1>2, UnderFirst
<1>4. e \in D
  BY <1>1, <1>3
<1> QED
  BY <1>2, <1>3, <1>4

\* What a name stands for may be held by the type the name is in.
LEMMA DenotedHeld ==
  ASSUME world \in Worlds, NEW f \in 1 .. Len(world.files), NEW r \in AllRefs,
         NEW d, Denotes(f, r, d)
  PROVE  Holds(r[1], d)
<1>1. /\ r[1] \in Defs /\ IsNamed(r) /\ r[2] \in DOMAIN Decl(r[1]).members
      /\ Parts(r) \in Seq(STRING) /\ Parts(r) # <<>>
  BY RefFacts DEF AllRefs
<1>2. /\ Decl(d).name = Last(Parts(r))
      /\ IF Len(Parts(r)) > 1 THEN Decl(d).path = Front(Parts(r))
         ELSE IsPrefix(Decl(d).path, Decl(r[1]).path)
  <2>1. CASE Len(Parts(r)) > 1
    <3>1. Declares(f, d, Front(Parts(r)), Last(Parts(r)))
      BY <2>1 DEF Denotes
    <3> QED
      BY <2>1, <3>1, DeclaredFacts
  <2>2. CASE ~(Len(Parts(r)) > 1)
    <3>1. IsPrefix(Decl(d).path, Decl(r[1]).path) /\ Declares(f, d, Decl(d).path, Parts(r)[1])
      BY <2>2 DEF Denotes
    <3>2. Decl(d).name = Parts(r)[1]
      BY <3>1, DeclaredFacts
    <3>3. Len(Parts(r)) = 1
      <4>1. Len(Parts(r)) \in Nat /\ Len(Parts(r)) # 0
        BY <1>1
      <4> QED
        BY <2>2, <4>1, Several
    <3> QED
      BY <2>2, <3>1, <3>2, <3>3 DEF Last
  <2> QED
    BY <2>1, <2>2
<1>3. /\ TypeOf(r).core[1] = "named" /\ TypeOf(r).core[2] = Parts(r)
      /\ TypeOf(r) = world.decls[r[1]].members[r[2]].type
  BY <1>1 DEF IsNamed, Parts, TypeOf, Decl
<1> QED
  BY <1>1, <1>2, <1>3 DEF Holds, MayHold, Decl

\* Every reference that is resolved, in any file, is to a type that may be held.
ResolvedHeld == \A r \in AllRefs : resolved[r] # 0 => Holds(r[1], resolved[r])

LEMMA HeldInit == ScopesInit => ResolvedHeld
BY DEF ScopesInit, ResolvedHeld

LEMMA HeldStep ==
  ASSUME ScopesTypeOK, ResolvedHeld, [ScopesNext]_scopeVars
  PROVE  ResolvedHeld'
<1>1. CASE ResolveMember
  <2>1. /\ world' = world /\ resolved' = [resolved EXCEPT ![Ref] = Target]
        /\ Looking /\ Target # 0 /\ AtMember(TRUE)
    BY <1>1 DEF ResolveMember, SetResolved, AtMember
  <2>2. world \in Worlds /\ file \in 1 .. Len(world.files) /\ Ref \in AllRefs /\ Ref[1] = InHand
    BY <2>1, MemberAt DEF Ref
  <2>3. Denotes(file, Ref, Target)
    BY <2>1, <2>2, TargetDenotes DEF Target
  <2>4. Holds(Ref[1], Target)
    BY <2>2, <2>3, DenotedHeld
  <2>5. AllRefs' = AllRefs
    BY <2>1, SameWorld
  <2>6. \A r \in AllRefs : resolved'[r] = IF r = Ref THEN Target ELSE resolved[r]
    BY <2>1, <2>2 DEF ScopesTypeOK
  <2>7. \A r \in AllRefs : resolved'[r] # 0 => Holds(r[1], resolved'[r])
    BY <2>4, <2>6 DEF ResolvedHeld
  <2> QED
    BY <2>1, <2>5, <2>7 DEF ResolvedHeld, Holds
<1>2. CASE world' = world /\ resolved' = resolved
  BY <1>2, SameWorld DEF ResolvedHeld, Holds, MayHold
<1>3. StartFile \/ NextDefinition \/ SkipMember \/ Unresolved \/ CollectUnits
        \/ (\E rel \in units : RenderUnit(rel)) \/ Ended \/ UNCHANGED scopeVars
        => world' = world /\ resolved' = resolved
  BY DEF StartFile, NextDefinition, SkipMember, Unresolved, CollectUnits, RenderUnit, Ended,
     scopeVars
<1> QED
  BY <1>1, <1>2, <1>3 DEF ScopesNext, ResolveNext

-----------------------------------------------------------------------------
(***************************************************************************)
(* Where names lead to                                                     *)
(***************************************************************************)
Wraps == {"seq", "arr"} \X Nat

\* A member of d, or of a type under it, by a name that has bytes.
GoodPlace(d, p) ==
  /\ p.at[1] \in Defs /\ p.at[2] \in DOMAIN Decl(p.at[1]).members
  /\ p.at = <<p.at[1], p.at[2]>>
  /\ p.at[1] = d \/ p.at[1] \in Under(d)
  /\ IsNamed(p.at) => p.parts \in Seq(Texted)
  /\ p.wraps \in Seq(Wraps)

LEMMA MemberTypes ==
  ASSUME world \in Worlds, NEW d \in Defs, NEW i \in DOMAIN Decl(d).members
  PROVE  /\ TypeOf(<<d, i>>).wraps \in Seq(Wraps)
         /\ IsNamed(<<d, i>>) => <<d, i>> \in AllRefs
         /\ ~IsNamed(<<d, i>>) => TypeOf(<<d, i>>).core \in {"prim", "string"} \X Nat
<1>1. Decl(d).members[i] \in MemberDecls
  BY WorldFacts
<1>2. TypeOf(<<d, i>>) \in TypeRefs
  BY <1>1 DEF TypeOf, MemberDecls
<1>3. TypeOf(<<d, i>>).wraps \in Seq(Wraps)
  BY <1>2 DEF TypeRefs, Wraps
<1>4. TypeOf(<<d, i>>).core \in ({"prim", "string"} \X Nat) \cup ({"named"} \X (Seq(STRING) \ {<<>>}))
  BY <1>2 DEF TypeRefs
<1>5. IsNamed(<<d, i>>) => <<d, i>> \in AllRefs
  BY DEF AllRefs
<1>6. ~IsNamed(<<d, i>>) => TypeOf(<<d, i>>).core \in {"prim", "string"} \X Nat
  BY <1>4 DEF IsNamed
<1> QED
  BY <1>3, <1>5, <1>6

\* A named place leads on to a type under d, or nowhere.
LEMMA PlaceLeads ==
  ASSUME ScopesTypeOK, ResolvedHeld, NEW d, NEW p, GoodPlace(d, p), IsNamed(p.at)
  PROVE  /\ p.at \in AllRefs /\ resolved[p.at] \in Defs \cup {0}
         /\ resolved[p.at] # 0 => resolved[p.at] \in Under(d)
<1>1. world \in Worlds
  BY DEF ScopesTypeOK
<1>2. p.at \in AllRefs
  BY <1>1, MemberTypes DEF GoodPlace
<1>3. resolved[p.at] \in Defs \cup {0}
  BY <1>2 DEF ScopesTypeOK
<1>4. ASSUME resolved[p.at] # 0
      PROVE  resolved[p.at] \in Under(d)
  <2>1. Holds(p.at[1], resolved[p.at]) /\ resolved[p.at] \in Defs
    BY <1>2, <1>3, <1>4 DEF ResolvedHeld
  <2>2. resolved[p.at] \in Under(p.at[1])
    BY <2>1, HeldUnder
  <2> QED
    BY <2>2, UnderUnder DEF GoodPlace
<1> QED
  BY <1>2, <1>3, <1>4

LEMMA PassedPlace ==
  ASSUME ScopesTypeOK, ResolvedHeld, NEW d, NEW p, GoodPlace(d, p), NEW computing, Passes(p, computing)
  PROVE  GoodPlace(d, PassTypedef(p))
<1> DEFINE e == resolved[p.at]
           r == TypeOfTypedef(p.at)
           q == PassTypedef(p)
<1>1. world \in Worlds /\ IsNamed(p.at) /\ e # 0 /\ Decl(e).kind = "typedef"
  BY DEF ScopesTypeOK, Passes, IsTypedef
<1>2. e \in Defs /\ e \in Under(d)
  BY <1>1, PlaceLeads
<1>3. r = <<e, 1>> /\ r[1] = e /\ r[2] = 1
  BY DEF TypeOfTypedef
<1> HIDE DEF e, r
<1>4. 1 \in DOMAIN Decl(e).members
  <2>1. Len(Decl(e).members) = 1
    BY <1>1, <1>2, DeclaredTypes
  <2>2. DOMAIN Decl(e).members = 1 .. Len(Decl(e).members)
    BY <1>1, <1>2, WorldFacts
  <2> QED
    BY <2>1, <2>2
<1>5. TypeOf(r).wraps \in Seq(Wraps) /\ (IsNamed(r) => r \in AllRefs)
  BY <1>1, <1>2, <1>3, <1>4, MemberTypes
<1>6. IsNamed(r) => Parts(r) \in Seq(Texted)
  BY <1>1, <1>5, PartsAreKnown, KnownTexted
<1>7. q.at = r /\ q.parts = Parts(r) /\ q.wraps = p.wraps \o TypeOf(r).wraps
  BY DEF PassTypedef, Place, r
<1> HIDE DEF q
<1>8. p.wraps \o TypeOf(r).wraps \in Seq(Wraps)
  BY <1>5 DEF GoodPlace
<1> QED
  BY <1>2, <1>3, <1>4, <1>6, <1>7, <1>8 DEF GoodPlace, q

\* f holds the places of a chain of typedefs, as far as the m-th.
NextPlace(q, computing) == IF Passes(q, computing) THEN PassTypedef(q) ELSE q
Chain(p, computing, m, f) ==
  f = [n \in 0 .. m |-> IF n = 0 THEN p ELSE NextPlace(f[n - 1], computing)]

LEMMA ChainExists ==
  ASSUME NEW p, NEW computing, NEW n \in Nat
  PROVE  \E f : Chain(p, computing, n, f)
<1> DEFINE T == {m \in Nat : ~\E f : Chain(p, computing, m, f)}
<1>1. T = {}
  <2> SUFFICES ASSUME T # {}
               PROVE  FALSE
    OBVIOUS
  <2>1. PICK m \in T : \A k \in T : m <= k
    <3> HIDE DEF T
    <3>1. T \subseteq Nat
      BY DEF T
    <3> QED
      BY <3>1, LeastExists
  <2>2. CASE m = 0
    <3> DEFINE f == [i \in 0 .. 0 |-> p]
    <3>1. f = [i \in 0 .. 0 |-> IF i = 0 THEN p ELSE NextPlace(f[i - 1], computing)]
      OBVIOUS
    <3> QED
      BY <2>1, <2>2, <3>1 DEF Chain
  <2>3. CASE m # 0
    <3>1. m \in Nat /\ m - 1 \in Nat /\ ~(m <= m - 1)
      BY <2>1, <2>3
    <3>2. m - 1 \notin T
      BY <2>1, <3>1
    <3>3. PICK f : Chain(p, computing, m - 1, f)
      BY <3>1, <3>2
    <3> DEFINE g == [i \in 0 .. m |-> IF i = m THEN NextPlace(f[m - 1], computing) ELSE f[i]]
    <3>4. \A i \in 0 .. m - 1 : f[i] = IF i = 0 THEN p ELSE NextPlace(f[i - 1], computing)
      BY <3>3 DEF Chain
    <3>5. ASSUME NEW i \in 0 .. m
          PROVE  g[i] = IF i = 0 THEN p ELSE NextPlace(g[i - 1], computing)
      <4>1. CASE i = m
        BY <3>1, <4>1, <2>3
      <4>2. CASE i # m
        <5>1. i \in 0 .. m - 1 /\ (i # 0 => i - 1 \in 0 .. m - 1 /\ i - 1 # m)
          BY <3>1, <4>2
        <5>2. g[i] = f[i] /\ (i # 0 => g[i - 1] = f[i - 1])
          BY <5>1, <4>2
        <5> QED
          BY <3>4, <5>1, <5>2
      <4> QED
        BY <4>1, <4>2
    <3>6. g = [i \in 0 .. m |-> g[i]]
      OBVIOUS
    <3> HIDE DEF g
    <3>7. Chain(p, computing, m, g)
      BY <3>5, <3>6 DEF Chain
    <3> QED
      BY <2>1, <3>7
  <2> QED
    BY <2>2, <2>3
<1> QED
  BY <1>1

\* So typedefs lead from a member of d to one of d or of a type under it.
LEMMA TypedefsPassed ==
  ASSUME ScopesTypeOK, ResolvedHeld, NEW d, NEW p, GoodPlace(d, p), NEW computing
  PROVE  GoodPlace(d, PassTypedefs(p, computing))
<1> DEFINE n == Len(world.decls)
           g == CHOOSE f : Chain(p, computing, n, f)
<1>1. n \in Nat
  BY WorldFacts DEF ScopesTypeOK
<1>2. Chain(p, computing, n, g)
  BY <1>1, ChainExists
<1>3. PassTypedefs(p, computing) = g[n]
  BY DEF PassTypedefs, Chain, NextPlace
<1> HIDE DEF g
<1>4. \A i \in 0 .. n : g[i] = IF i = 0 THEN p ELSE NextPlace(g[i - 1], computing)
  BY <1>2 DEF Chain
<1> DEFINE T == {i \in 0 .. n : ~GoodPlace(d, g[i])}
<1>5. T = {}
  <2> SUFFICES ASSUME T # {}
               PROVE  FALSE
    OBVIOUS
  <2>1. PICK i \in T : \A k \in T : i <= k
    <3> HIDE DEF T
    <3>1. T \subseteq Nat
      BY <1>1 DEF T
    <3> QED
      BY <3>1, LeastExists
  <2>2. i \in 0 .. n /\ ~GoodPlace(d, g[i])
    BY <2>1
  <2>3. i # 0
    BY <1>4, <2>2
  <2>4. i - 1 \in 0 .. n /\ ~(i <= i - 1)
    BY <1>1, <2>2, <2>3
  <2>5. GoodPlace(d, g[i - 1])
    BY <2>1, <2>4
  <2>6. g[i] = NextPlace(g[i - 1], computing)
    BY <1>4, <2>2, <2>3
  <2>7. GoodPlace(d, NextPlace(g[i - 1], computing))
    BY <2>5, PassedPlace DEF NextPlace
  <2> QED
    BY <2>2, <2>6, <2>7
<1>6. n \in 0 .. n
  BY <1>1
<1> QED
  BY <1>3, <1>5, <1>6

\* The end of a member's type: a key that has bytes and a type under d, or a
\* primitive or string.
GoodEnd(d, x) ==
  /\ x.wraps \in Seq(Wraps)
  /\ x.end[1] \in {"type", "prim", "string"}
  /\ x.end[1] = "type" =>
       /\ x.end[2] \in Seq(Texted)
       /\ x.end[3] \in Defs \cup {0} /\ (x.end[3] # 0 => x.end[3] \in Under(d))
  /\ x.end[1] # "type" => x.end[2] \in Nat

LEMMA Expanded ==
  ASSUME ScopesTypeOK, ResolvedHeld, scope \in Seq(Texted),
         NEW d \in Defs, NEW i \in DOMAIN Decl(d).members, NEW parts,
         IsNamed(<<d, i>>) => parts \in Seq(Texted)
  PROVE  GoodEnd(d, Expand(<<d, i>>, parts))
<1> DEFINE r == <<d, i>>
           start == Place(r, parts, TypeOf(r).wraps)
           p == PassTypedefs(start, TRUE)
           x == Expand(r, parts)
<1>1. world \in Worlds
  BY DEF ScopesTypeOK
<1>2. TypeOf(r).wraps \in Seq(Wraps)
  BY <1>1, MemberTypes
<1>3. start.at = r /\ start.parts = parts /\ start.wraps = TypeOf(r).wraps /\ r[1] = d /\ r[2] = i
  BY DEF Place
<1> HIDE DEF start
<1>4. GoodPlace(d, start)
  BY <1>2, <1>3 DEF GoodPlace
<1>5. GoodPlace(d, p)
  BY <1>4, TypedefsPassed
<1>6. /\ x.wraps = p.wraps
      /\ x.end = IF IsNamed(p.at) THEN <<"type", FullyQualifiedName(p.parts), resolved[p.at]>>
                 ELSE TypeOf(p.at).core
  BY DEF Expand, start
<1> HIDE DEF p, x
<1>7. CASE IsNamed(p.at)
  <2>1. x.end[1] = "type" /\ x.end[2] = FullyQualifiedName(p.parts) /\ x.end[3] = resolved[p.at]
    BY <1>6, <1>7
  <2>2. FullyQualifiedName(p.parts) \in Seq(Texted)
    BY <1>5, <1>7, KeyTexted DEF GoodPlace
  <2>3. resolved[p.at] \in Defs \cup {0} /\ (resolved[p.at] # 0 => resolved[p.at] \in Under(d))
    BY <1>5, <1>7, PlaceLeads
  <2>4. x.wraps \in Seq(Wraps)
    BY <1>5, <1>6 DEF GoodPlace
  <2> QED
    BY <2>1, <2>2, <2>3, <2>4 DEF GoodEnd, x
<1>8. CASE ~IsNamed(p.at)
  <2>1. TypeOf(p.at).core \in {"prim", "string"} \X Nat
    BY <1>1, <1>5, <1>8, MemberTypes DEF GoodPlace
  <2>2. x.end \in {"prim", "string"} \X Nat
    BY <1>6, <1>8, <2>1
  <2>3. x.end[1] \in {"prim", "string"} /\ x.end[2] \in Nat
    BY <2>2
  <2>4. x.wraps \in Seq(Wraps)
    BY <1>5, <1>6 DEF GoodPlace
  <2>5. GoodEnd(d, x)
    BY <2>3, <2>4 DEF GoodEnd
  <2> QED
    BY <2>5 DEF x
<1> QED
  BY <1>7, <1>8

-----------------------------------------------------------------------------
(***************************************************************************)
(* Type identifiers                                                        *)
(***************************************************************************)
\* What the objects are numbered with.
CacheTypeOK == \A k \in DOMAIN cache : cache[k].min \in Nat /\ cache[k].comp \in Nat

LEMMA ZerosAreBytes ==
  ASSUME NEW n \in Nat
  PROVE  Zeros(n) \in Seq(Byte)
<1>1. 0 \in Byte
  BY DEF Byte
<1>2. Zeros(n) \in [1 .. n -> Byte]
  BY <1>1 DEF Zeros
<1> QED
  BY <1>2

LEMMA HashFlat ==
  ASSUME NEW i \in Nat, NEW kind \in Byte
  PROVE  HashTID(kind, Hash(i)) \in Seq(Flat)
<1>1. Word(i) \in Seq(Byte) /\ Zeros(10) \in Seq(Byte)
  <2>1. Word(i) \in Seq(Byte)
    BY WordType
  <2>2. 10 \in Nat
    OBVIOUS
  <2>3. Zeros(10) \in Seq(Byte)
    BY <2>2, ZerosAreBytes
  <2> QED
    BY <2>1, <2>3
<1>2. Hash(i) \in Seq(Byte)
  BY <1>1 DEF Hash
<1>3. Raw(Hash(i)) \in Flat /\ U8(kind) \in Flat
  <2>1. kind \in Int
    BY DEF Byte
  <2> QED
    BY <1>2, <2>1, BytesFlat, U8Flat
<1> QED
  BY <1>3 DEF HashTID

LEMMA EndFlat ==
  ASSUME CacheTypeOK, NEW d, NEW x, GoodEnd(d, x), NEW kind \in {MINIMAL, COMPLETE}
  PROVE  EndTID(x, kind) \in Seq(Flat)
<1>1. \A n \in Int : PrimitiveTID(n) \in Seq(Flat)
  BY PairsFlat, U8Flat DEF PrimitiveTID
<1>2. ASSUME NEW n \in Nat
      PROVE  StringTID(n) \in Seq(Flat)
  <2>1. /\ U8(112) \in Flat /\ U8(113) \in Flat /\ U8(n) \in Flat /\ U32(n) \in Flat
    BY U8Flat, U32Flat
  <2> QED
    BY <2>1 DEF StringTID
<1>3. kind \in Byte
  BY DEF MINIMAL, COMPLETE, Byte
<1>4. CASE x.end[1] = "prim"
  <2>1. x.end[2] \in Int
    BY <1>4 DEF GoodEnd
  <2> QED
    BY <1>1, <1>4, <2>1 DEF EndTID
<1>5. CASE x.end[1] = "string"
  <2>1. x.end[2] \in Nat
    BY <1>5 DEF GoodEnd
  <2> QED
    BY <1>2, <1>5, <2>1 DEF EndTID
<1>6. CASE x.end[1] = "type"
  <2> DEFINE key == x.end[2]
             i == IF kind = MINIMAL THEN cache[key].min ELSE cache[key].comp
  <2>1. 0 \in Int /\ PrimitiveTID(0) \in Seq(Flat)
    BY <1>1
  <2>2. key \in DOMAIN cache => HashTID(kind, Hash(i)) \in Seq(Flat)
    <3>1. key \in DOMAIN cache => i \in Nat
      BY DEF CacheTypeOK
    <3> HIDE DEF i
    <3> QED
      BY <1>3, <3>1, HashFlat
  <2>3. EndTID(x, kind) = IF key \notin DOMAIN cache THEN PrimitiveTID(0) ELSE HashTID(kind, Hash(i))
    BY <1>6 DEF EndTID
  <2> HIDE DEF key, i
  <2> QED
    BY <2>1, <2>2, <2>3
<1> QED
  BY <1>4, <1>5, <1>6 DEF GoodEnd

\* f holds the identifiers of the element of x and of what is around it, as far
\* as the m-th.
Around(x, kind, m, f) ==
  f = [n \in 0 .. m |-> IF n = 0 THEN EndTID(x, kind)
                        ELSE CollectionTID(x.wraps[Len(x.wraps) + 1 - n], f[n - 1], kind)]

LEMMA AroundExists ==
  ASSUME NEW x, NEW kind, NEW n \in Nat
  PROVE  \E f : Around(x, kind, n, f)
<1> DEFINE T == {m \in Nat : ~\E f : Around(x, kind, m, f)}
           Of(i, elem) == CollectionTID(x.wraps[Len(x.wraps) + 1 - i], elem, kind)
<1>1. T = {}
  <2> SUFFICES ASSUME T # {}
               PROVE  FALSE
    OBVIOUS
  <2>1. PICK m \in T : \A k \in T : m <= k
    <3> HIDE DEF T
    <3>1. T \subseteq Nat
      BY DEF T
    <3> QED
      BY <3>1, LeastExists
  <2>2. CASE m = 0
    <3> DEFINE f == [i \in 0 .. 0 |-> EndTID(x, kind)]
    <3>1. f = [i \in 0 .. 0 |-> IF i = 0 THEN EndTID(x, kind) ELSE Of(i, f[i - 1])]
      <4> HIDE DEF Of
      <4> QED
        OBVIOUS
    <3> QED
      BY <2>1, <2>2, <3>1 DEF Around
  <2>3. CASE m # 0
    <3>1. m \in Nat /\ m - 1 \in Nat /\ ~(m <= m - 1)
      BY <2>1, <2>3
    <3>2. m - 1 \notin T
      BY <2>1, <3>1
    <3>3. PICK f : Around(x, kind, m - 1, f)
      BY <3>1, <3>2
    <3> DEFINE g == [i \in 0 .. m |-> IF i = m THEN Of(m, f[m - 1]) ELSE f[i]]
    <3>4. \A i \in 0 .. m - 1 : f[i] = IF i = 0 THEN EndTID(x, kind) ELSE Of(i, f[i - 1])
      BY <3>3 DEF Around
    <3>5. ASSUME NEW i \in 0 .. m
          PROVE  g[i] = IF i = 0 THEN EndTID(x, kind) ELSE Of(i, g[i - 1])
      <4> HIDE DEF Of
      <4>1. CASE i = m
        BY <3>1, <4>1, <2>3
      <4>2. CASE i # m
        <5>1. i \in 0 .. m - 1 /\ (i # 0 => i - 1 \in 0 .. m - 1 /\ i - 1 # m)
          BY <3>1, <4>2
        <5>2. g[i] = f[i] /\ (i # 0 => g[i - 1] = f[i - 1])
          BY <5>1, <4>2
        <5> QED
          BY <3>4, <5>1, <5>2
      <4> QED
        BY <4>1, <4>2
    <3>6. g = [i \in 0 .. m |-> g[i]]
      OBVIOUS
    <3> HIDE DEF g
    <3>7. Around(x, kind, m, g)
      BY <3>5, <3>6 DEF Around
    <3> QED
      BY <2>1, <3>7
  <2> QED
    BY <2>2, <2>3
<1> QED
  BY <1>1

\* So the identifier of any member's type consists of plain items.
LEMMA IdentifierFlat ==
  ASSUME CacheTypeOK, NEW d, NEW x, GoodEnd(d, x), NEW kind \in {MINIMAL, COMPLETE}
  PROVE  TypeIdentifier(x, kind) \in Seq(Flat)
<1> DEFINE n == Len(x.wraps)
           g == CHOOSE f : Around(x, kind, n, f)
<1>1. n \in Nat /\ x.wraps \in Seq(Wraps)
  BY DEF GoodEnd
<1>2. Around(x, kind, n, g)
  BY <1>1, AroundExists
<1>3. TypeIdentifier(x, kind) = g[n]
  BY DEF TypeIdentifier, Around
<1> HIDE DEF g
<1>4. \A i \in 0 .. n : g[i] = IF i = 0 THEN EndTID(x, kind)
                              ELSE CollectionTID(x.wraps[n + 1 - i], g[i - 1], kind)
  BY <1>2 DEF Around
<1>5. kind \in Byte
  BY DEF MINIMAL, COMPLETE, Byte
<1> DEFINE T == {i \in 0 .. n : g[i] \notin Seq(Flat)}
<1>6. T = {}
  <2> SUFFICES ASSUME T # {}
               PROVE  FALSE
    OBVIOUS
  <2>1. PICK i \in T : \A k \in T : i <= k
    <3> HIDE DEF T
    <3>1. T \subseteq Nat
      BY <1>1 DEF T
    <3> QED
      BY <3>1, LeastExists
  <2>2. i \in 0 .. n /\ g[i] \notin Seq(Flat)
    BY <2>1
  <2>3. i # 0
    <3>1. 0 \in 0 .. n
      BY <1>1
    <3>2. g[0] = EndTID(x, kind)
      BY <1>4, <3>1
    <3> QED
      BY <2>2, <3>2, EndFlat
  <2>4. i - 1 \in 0 .. n /\ ~(i <= i - 1) /\ n + 1 - i \in 1 .. n
    BY <1>1, <2>2, <2>3
  <2>5. g[i - 1] \in Seq(Flat)
    BY <2>1, <2>4
  <2>6. x.wraps[n + 1 - i] \in {"seq", "arr"} \X Nat
    BY <1>1, <2>4, ElementOf DEF Wraps
  <2>7. g[i] = CollectionTID(x.wraps[n + 1 - i], g[i - 1], kind)
    BY <1>4, <2>2, <2>3
  <2>8. g[i] \in Seq(Flat)
    BY <1>5, <2>5, <2>6, <2>7, CollectionFlat
  <2> QED
    BY <2>2, <2>8
<1>7. n \in 0 .. n
  BY <1>1
<1> QED
  BY <1>3, <1>6, <1>7

-----------------------------------------------------------------------------
(***************************************************************************)
(* Type objects                                                            *)
(***************************************************************************)
LEMMA ExtensibilityIs ==
  ASSUME NEW annotations \in Seq(STRING \X STRING)
  PROVE  ResolveExtensibility(annotations) \in {"final", "appendable", "mutable"}
<1> DEFINE Says(a) == \/ a[1] \in {"final", "appendable", "mutable"}
                      \/ a[1] = "extensibility" /\ a[2] \in {"final", "appendable", "mutable"}
           said == {i \in DOMAIN annotations : Says(annotations[i])}
           least == CHOOSE i \in said : \A j \in said : i <= j
<1>1. CASE said = {}
  BY <1>1 DEF ResolveExtensibility
<1>2. CASE said # {}
  <2>1. said \subseteq Nat
    OBVIOUS
  <2>2. \E i \in said : \A j \in said : i <= j
    <3> HIDE DEF said
    <3> QED
      BY <1>2, <2>1, LeastExists
  <2>3. least \in said
    <3> HIDE DEF said
    <3> QED
      BY <2>2
  <2>4. Says(annotations[least])
    BY <2>3
  <2>5. ResolveExtensibility(annotations) =
          IF annotations[least][1] = "extensibility" THEN annotations[least][2]
          ELSE annotations[least][1]
    BY <1>2 DEF ResolveExtensibility
  <2> HIDE DEF least, said
  <2> QED
    BY <2>4, <2>5
<1> QED
  BY <1>1, <1>2

LEMMA FlagsAre ==
  ASSUME world \in Worlds, NEW d \in Defs
  PROVE  TypeFlags(d) \in Uint16
<1>1. Decl(d).annotations \in Seq(STRING \X STRING)
  BY DeclaredTypes DEF Declarations
<1>2. ResolveExtensibility(Decl(d).annotations) \in {"final", "appendable", "mutable"}
  BY <1>1, ExtensibilityIs
<1> QED
  BY <1>2 DEF TypeFlags, Uint16

LEMMA MemberNumbers ==
  ASSUME world \in Worlds, NEW d \in Defs, NEW i \in DOMAIN Decl(d).members
  PROVE  /\ MemberID(d, i) \in Int /\ MemberFlags(d, i) \in Uint16
         /\ [j \in DOMAIN Decl(d).members[i].labels |->
               ParseLabelValue(Decl(d).members[i].labels[j])] \in Seq(Int)
<1> DEFINE m == Decl(d).members[i]
           Labels == ({"int"} \X Int) \cup ({"name"} \X STRING)
<1>1. m \in MemberDecls /\ i \in Nat
  BY WorldFacts
<1>2. m.id \in Seq(Nat) /\ m.labels \in Seq(Labels)
  BY <1>1 DEF MemberDecls
<1> HIDE DEF m
<1>3. MemberID(d, i) \in Int
  <2>1. m.id # <<>> => m.id[1] \in Nat
    BY <1>2
  <2> QED
    BY <1>1, <2>1 DEF MemberID, m
<1>4. MemberFlags(d, i) \in Uint16
  BY DEF MemberFlags, Uint16
<1>5. [j \in DOMAIN m.labels |-> ParseLabelValue(m.labels[j])] \in Seq(Int)
  <2>1. \A l \in Labels : ParseLabelValue(l) \in Int
    BY DEF ParseLabelValue
  <2> HIDE DEF Labels
  <2>2. DOMAIN m.labels = 1 .. Len(m.labels) /\ Len(m.labels) \in Nat
        /\ \A j \in 1 .. Len(m.labels) : m.labels[j] \in Labels
    BY <1>2, SequenceDomain
  <2> DEFINE v == [j \in DOMAIN m.labels |-> ParseLabelValue(m.labels[j])]
  <2>3. v \in [1 .. Len(m.labels) -> Int]
    BY <2>1, <2>2
  <2> HIDE DEF v
  <2>4. v \in Seq(Int)
    BY <2>2, <2>3
  <2> QED
    BY <2>4 DEF v
<1> QED
  BY <1>3, <1>4, <1>5 DEF m

LEMMA LiteralsAre ==
  ASSUME world \in Worlds, NEW d \in Defs
  PROVE  EnumLiterals(Decl(d).values) \in Seq(Literals)
<1> DEFINE values == Decl(d).values
           ls == EnumLiterals(values)
<1>1. values \in Declared
  BY DeclaredTypes DEF Declarations, Declared
<1>2. /\ DOMAIN values = 1 .. Len(values) /\ Len(values) \in Nat
      /\ \A i \in 1 .. Len(values) : values[i] \in Values
  <2>1. values \in Seq(Values)
    BY <1>1 DEF Declared, Values
  <2> HIDE DEF values
  <2> QED
    BY <2>1, SequenceDomain
<1>3. \A i \in 1 .. Len(values) : values[i].name \in Known
  BY <1>2, NamesAreKnown
<1>4. ls = [i \in DOMAIN values |->
              [name |-> values[i].name, flags |-> IF i = 1 THEN 64 ELSE 0,
               value |-> Counter(values)[i]]]
  BY DEF EnumLiterals, Counter, Round
<1> HIDE DEF values, ls
<1>5. ASSUME NEW i \in 1 .. Len(values)
      PROVE  EnumComputedValue(values, i) \in Int
  <2>1. i \in Nat
    OBVIOUS
  <2>2. CASE ExplicitUpTo(values, i) = {}
    BY <2>1, <2>2, ComputedIs
  <2>3. CASE ExplicitUpTo(values, i) # {}
    <3> DEFINE n == LastExplicit(values, i)
    <3>1. n \in ExplicitUpTo(values, i)
      BY <1>1, <2>1, <2>3, LastExists
    <3>2. n \in 1 .. i /\ values[n].value # <<>>
      BY <3>1 DEF ExplicitUpTo, Explicit
    <3>3. EnumComputedValue(values, i) = values[n].value[1] + (i - n)
      BY <2>3, ComputedIs
    <3> HIDE DEF n
    <3>4. n \in 1 .. Len(values)
      BY <1>2, <3>2
    <3>5. values[n].value \in Seq(Int)
      BY <1>2, <3>4 DEF Values
    <3>6. values[n].value[1] \in Int
      BY <3>2, <3>5
    <3> QED
      BY <3>2, <3>3, <3>6
  <2> QED
    BY <2>2, <2>3
<1>6. ASSUME NEW i \in 1 .. Len(values)
      PROVE  ls[i] \in Literals
  <2>1. i \in DOMAIN values
    BY <1>2
  <2>2. Counter(values)[i] = EnumComputedValue(values, i)
    BY <1>1, <2>1, CountsAgree, LiteralsHoldCounter
  <2>3. Counter(values)[i] \in Int
    BY <1>5, <2>2
  <2>4. 64 \in Uint16 /\ 0 \in Uint16
    BY DEF Uint16
  <2> QED
    BY <1>3, <1>4, <2>1, <2>3, <2>4 DEF Literals
<1>7. ls \in [1 .. Len(values) -> Literals]
  <2>1. DOMAIN ls = 1 .. Len(values) /\ ls = [i \in DOMAIN ls |-> ls[i]]
    BY <1>2, <1>4
  <2> QED
    BY <1>6, <2>1
<1>8. ls \in Seq(Literals)
  BY <1>2, <1>7
<1> QED
  BY <1>8 DEF ls, values

\* A call as far as it has come.
TidPairs == Seq(Flat) \X Seq(Flat)
Calls == [decl : Defs, key : Seq(Texted), tids : Seq(TidPairs)]
Begun(call) == HasObject(call.decl) /\ Len(call.tids) <= Len(Decl(call.decl).members)

LEMMA MembersBuilt ==
  ASSUME world \in Worlds, Top \in Calls, Begun(Top), NEW k \in {1, 2}
  PROVE  BuiltMembers(k) \in Seq(Built) /\ Len(BuiltMembers(k)) = Len(Top.tids)
<1> DEFINE d == Top.decl
           n == Len(Top.tids)
           b == BuiltMembers(k)
<1>1. d \in Defs /\ Top.tids \in Seq(TidPairs) /\ Len(Top.tids) <= Len(Decl(d).members)
  BY DEF Calls, Begun
<1>2. /\ DOMAIN Top.tids = 1 .. n /\ n \in Nat
      /\ \A i \in 1 .. n : Top.tids[i] \in TidPairs
  BY <1>1, SequenceDomain
<1>3. \A i \in 1 .. n : i \in DOMAIN Decl(d).members
  BY <1>1, <1>2, WorldFacts
<1>4. \A i \in 1 .. n : Top.tids[i][k] \in Seq(Flat)
  BY <1>2 DEF TidPairs
<1>5. b = [i \in 1 .. n |->
             [id |-> MemberID(d, i), flags |-> MemberFlags(d, i),
              labels |-> [j \in DOMAIN Decl(d).members[i].labels |->
                            ParseLabelValue(Decl(d).members[i].labels[j])],
              name |-> Decl(d).members[i].name, tid |-> Top.tids[i][k]]]
  BY <1>2 DEF BuiltMembers
<1> HIDE DEF b, d, n
<1>6. ASSUME NEW i \in 1 .. n
      PROVE  b[i] \in Built
  <2>1. i \in DOMAIN Decl(d).members
    BY <1>3
  <2>2. Decl(d).members[i].name \in Known
    BY <1>1, <2>1, NamesAreKnown
  <2> DEFINE labels == [j \in DOMAIN Decl(d).members[i].labels |->
                          ParseLabelValue(Decl(d).members[i].labels[j])]
  <2>3. MemberID(d, i) \in Int /\ MemberFlags(d, i) \in Uint16 /\ labels \in Seq(Int)
    BY <1>1, <2>1, MemberNumbers
  <2>4. b[i] = [id |-> MemberID(d, i), flags |-> MemberFlags(d, i), labels |-> labels,
                name |-> Decl(d).members[i].name, tid |-> Top.tids[i][k]]
    BY <1>5
  <2> HIDE DEF labels
  <2> QED
    BY <1>4, <2>2, <2>3, <2>4 DEF Built
<1>7. b \in [1 .. n -> Built]
  <2>1. DOMAIN b = 1 .. n /\ b = [i \in DOMAIN b |-> b[i]]
    BY <1>5
  <2> QED
    BY <1>6, <2>1
<1>8. b \in Seq(Built) /\ Len(b) = n
  BY <1>2, <1>7
<1> QED
  BY <1>8 DEF b, n

\* The objects of a type all of whose members are taken are of their kinds.
LEMMA ObjectsOfKinds ==
  ASSUME world \in Worlds, Top \in Calls, Begun(Top),
         Len(Top.tids) = Len(Decl(Top.decl).members)
  PROVE  /\ MinimalObject \in Seq(Byte) /\ MinimalObject[5] = MINIMAL
         /\ CompleteObject \in Seq(Byte) /\ CompleteObject[5] = COMPLETE
<1> DEFINE d == Top.decl
           flags == TypeFlags(d)
           name == Joined(Top.key)
           min == BuiltMembers(1)
           comp == BuiltMembers(2)
           ls == EnumLiterals(Decl(d).values)
<1>1. d \in Defs /\ Top.key \in Seq(Texted) /\ Decl(d).kind \in {"struct", "union", "enum"}
  BY DEF Calls, Begun, HasObject
<1>2. /\ flags \in Uint16 /\ name \in Seq(Byte) /\ ls \in Seq(Literals)
      /\ min \in Seq(Built) /\ comp \in Seq(Built)
  BY <1>1, FlagsAre, JoinedBytes, LiteralsAre, MembersBuilt
<1>3. Decl(d).kind = "union" => min # <<>> /\ comp # <<>>
  <2>1. /\ Decl(d).kind = "union" => Decl(d).members # <<>>
        /\ Decl(d).members \in Seq(MemberDecls)
    BY <1>1, DeclaredTypes DEF Declarations
  <2>2. Decl(d).kind = "union" => Len(Decl(d).members) # 0
    BY <2>1, EmptySeq
  <2>3. Len(min) = Len(Top.tids) /\ Len(comp) = Len(Top.tids)
    BY MembersBuilt
  <2>4. Len(min) = Len(Decl(d).members) /\ Len(comp) = Len(Decl(d).members)
    BY <2>3
  <2>5. Len(<<>>) = 0
    OBVIOUS
  <2> HIDE DEF min, comp
  <2> QED
    BY <2>2, <2>4, <2>5
<1> DEFINE a == CASE Decl(d).kind = "struct" -> MinimalStructType(flags, min)
                  [] Decl(d).kind = "union"  -> MinimalUnionType(flags, min)
                  [] Decl(d).kind = "enum"   -> MinimalEnumType(ls)
           b == CASE Decl(d).kind = "struct" -> CompleteStructType(flags, name, comp)
                  [] Decl(d).kind = "union"  -> CompleteUnionType(flags, name, comp)
                  [] Decl(d).kind = "enum"   -> CompleteEnumType(name, ls)
<1>4. MinimalObject = SerializeTypeObject(MINIMAL, a)
      /\ CompleteObject = SerializeTypeObject(COMPLETE, b)
  BY DEF MinimalObject, CompleteObject
<1> HIDE DEF flags, name, min, comp, ls
<1>5. Closed(a) /\ Closed(b)
  <2>1. CASE Decl(d).kind = "struct"
    <3>1. a = MinimalStructType(flags, min) /\ b = CompleteStructType(flags, name, comp)
      BY <2>1
    <3> QED
      BY <1>2, <3>1, StructTypeClosed
  <2>2. CASE Decl(d).kind = "union"
    <3>1. a = MinimalUnionType(flags, min) /\ b = CompleteUnionType(flags, name, comp)
      BY <2>2
    <3> QED
      BY <1>2, <1>3, <2>2, <3>1, UnionTypeClosed
  <2>3. CASE Decl(d).kind = "enum"
    <3>1. a = MinimalEnumType(ls) /\ b = CompleteEnumType(name, ls)
      BY <2>3
    <3> QED
      BY <1>2, <3>1, EnumTypeClosed
  <2> QED
    BY <1>1, <2>1, <2>2, <2>3
<1> HIDE DEF a, b
<1>6. MINIMAL \in Byte /\ COMPLETE \in Byte
  BY DEF MINIMAL, COMPLETE, Byte
<1> QED
  BY <1>4, <1>5, <1>6, KindWritten

-----------------------------------------------------------------------------
(***************************************************************************)
(* The inductive invariant: every call that has not returned is about a    *)
(* type under those of the calls around it, and has identifiers of the     *)
(* members it has taken; objects are bytes, and the cache knows them.      *)
(***************************************************************************)
Nested == \A i, j \in DOMAIN frames : i < j => frames[j].decl \in Under(frames[i].decl)

CallsOK ==
  /\ frames \in Seq(Calls) /\ \A i \in DOMAIN frames : Begun(frames[i])
  /\ frames # <<>> => frames[1].decl = root
  /\ Nested

InCache(entry) ==
  /\ entry.min \in DOMAIN objects /\ objects[entry.min][5] = MINIMAL
  /\ entry.comp \in DOMAIN objects /\ objects[entry.comp][5] = COMPLETE

ObjectsOK ==
  /\ objects \in Seq(Seq(Byte)) /\ IsInjective(objects)
  /\ \A k \in DOMAIN cache : InCache(cache[k])

RootsOK ==
  /\ root \in Defs \cup {0} /\ (root = 0 => frames = <<>>)
  /\ roots # {} \/ root # 0 => phase = "rendering" /\ scope \in Seq(Texted)
  /\ \A p \in roots : /\ p \in {1, 2} \X DOMAIN Own(file)
                      /\ Decl(RootAt(p)).kind = Walked[p[1]]

TypesInv ==
  /\ NoneHoldsItself(world) /\ ResolvedHeld
  /\ CallsOK /\ ObjectsOK /\ RootsOK

LEMMA TypesInvInit == TypesInit /\ NoneHoldsItself(world) => TypesInv
<1> SUFFICES ASSUME TypesInit, NoneHoldsItself(world)
             PROVE  TypesInv
  OBVIOUS
<1>1. ResolvedHeld
  BY HeldInit DEF TypesInit
<1>2. CallsOK
  BY DEF TypesInit, CallsOK, Nested
<1>3. ObjectsOK
  BY DEF TypesInit, ObjectsOK, IsInjective, NoCache
<1>4. RootsOK
  BY DEF TypesInit, RootsOK
<1> QED
  BY <1>1, <1>2, <1>3, <1>4 DEF TypesInv

\* What is said of declarations is so as long as they are the same.
LEMMA SameTypes ==
  ASSUME world' = world
  PROVE  /\ Defs' = Defs /\ Calls' = Calls
         /\ \A d : Under(d)' = Under(d)
         /\ \A c : Begun(c)' = Begun(c)
         /\ \A d : Decl(d)' = Decl(d)
<1>1. Defs' = Defs /\ \A d : Decl(d)' = Decl(d)
  BY DEF Defs, Decl
<1>2. Calls' = Calls
  BY <1>1 DEF Calls
<1>3. \A d : Under(d)' = Under(d)
  BY <1>1 DEF Under, HoldWithin, Holds
<1>4. \A c : Begun(c)' = Begun(c)
  BY <1>1 DEF Begun, HasObject
<1> QED
  BY <1>1, <1>2, <1>3, <1>4

LEMMA SameCalls ==
  ASSUME CallsOK, world' = world, frames' = frames, root' = root
  PROVE  CallsOK'
BY SameTypes DEF CallsOK, Nested

LEMMA NoCalls ==
  ASSUME frames' = <<>>
  PROVE  CallsOK'
<1>1. /\ <<>> \in Seq(Calls') /\ DOMAIN <<>> = {}
  OBVIOUS
<1> QED
  BY <1>1 DEF CallsOK, Nested

LEMMA SameObjects ==
  ASSUME ObjectsOK, objects' = objects, cache' = cache
  PROVE  ObjectsOK'
BY DEF ObjectsOK, InCache, IsInjective

LEMMA SameRoots ==
  ASSUME RootsOK, ScopesTypeOK, UNCHANGED <<scopeVars, scope, roots, root>>, frames' = <<>> \/ root # 0
  PROVE  RootsOK'
<1>1. world' = world /\ phase' = phase /\ file' = file
  BY DEF scopeVars
<1>2. Defs' = Defs /\ \A d : Decl(d)' = Decl(d)
  BY <1>1, SameWorld
<1>3. Own(file)' = Own(file) /\ \A p : RootAt(p)' = RootAt(p)
  BY <1>1 DEF Own, RootAt
<1> QED
  BY <1>1, <1>2, <1>3 DEF RootsOK

\* Resolving and writing go on between packages only.
LEMMA KeptByScopes ==
  ASSUME ScopesTypeOK, TypesInv, ScopesStep
  PROVE  CallsOK' /\ ObjectsOK' /\ RootsOK'
<1>1. Idle /\ UNCHANGED typeVars /\ frames = <<>> /\ root = 0 /\ roots = {}
  BY DEF ScopesStep, TypesInv, RootsOK, Idle
<1>2. /\ frames' = <<>> /\ root' = 0 /\ roots' = {}
      /\ objects' = objects /\ cache' = cache /\ scope' = scope
  BY <1>1 DEF typeVars
<1>3. CallsOK' /\ ObjectsOK'
  BY <1>2, NoCalls, SameObjects DEF TypesInv
<1>4. RootsOK'
  BY <1>2 DEF RootsOK
<1> QED
  BY <1>3, <1>4

LEMMA KeptByRender ==
  ASSUME ScopesTypeOK, TypesInv, NEW rel \in units, RenderTypes(rel)
  PROVE  CallsOK' /\ ObjectsOK' /\ RootsOK'
<1>1. /\ Idle /\ RenderUnit(rel) /\ scope' = ModulePath(file, rel) /\ roots' = Roots(rel)
      /\ cache' = NoCache /\ root' = root /\ frames' = frames /\ objects' = objects
  BY DEF RenderTypes
<1>2. /\ world' = world /\ file' = file /\ phase' = phase /\ phase = "rendering"
  BY <1>1 DEF RenderUnit
<1>3. root = 0 /\ frames = <<>>
  BY <1>1 DEF Idle, TypesInv, RootsOK
<1>4. CallsOK'
  BY <1>1, <1>3, NoCalls
<1>5. ObjectsOK'
  <2>1. DOMAIN NoCache = {}
    BY DEF NoCache
  <2> QED
    BY <1>1, <2>1 DEF ObjectsOK, TypesInv, IsInjective
<1>6. world \in Worlds /\ file \in 1 .. Len(world.files)
  <2>1. file \in 0 .. Len(world.files) /\ file > 0 /\ Len(world.files) \in Nat
    BY <1>2, WorldFacts DEF ScopesTypeOK
  <2> QED
    BY <2>1 DEF ScopesTypeOK
<1>7. ASSUME NEW p \in Roots(rel)
      PROVE  /\ p \in {1, 2} \X DOMAIN Own(file) /\ Decl(RootAt(p)).kind = Walked[p[1]]
             /\ p[2] \in Places(file, rel)
  <2>1. p \in {1, 2} \X Places(file, rel) /\ Decl(Own(file)[p[2]]).kind = Walked[p[1]]
    BY DEF Roots
  <2>2. Places(file, rel) \subseteq DOMAIN Own(file)
    BY DEF Places
  <2> QED
    BY <2>1, <2>2 DEF RootAt
<1>8. Roots(rel) # {} => scope' \in Seq(Texted)
  <2>1. Roots(rel) # {} => Places(file, rel) # {}
    BY <1>7
  <2> QED
    BY <1>1, <1>6, <2>1, ScopeTexted
<1>9. Defs' = Defs /\ (\A d : Decl(d)' = Decl(d)) /\ Own(file)' = Own(file)
      /\ \A p : RootAt(p)' = RootAt(p)
  BY <1>2, SameWorld DEF Own, RootAt
<1>10. RootsOK'
  <2>1. root' \in Defs' \cup {0} /\ (root' = 0 => frames' = <<>>)
    BY <1>1, <1>3
  <2>2. roots' # {} \/ root' # 0 => phase' = "rendering" /\ scope' \in Seq(Texted)
    BY <1>1, <1>2, <1>3, <1>8
  <2>3. \A p \in roots' : p \in {1, 2} \X DOMAIN Own(file) /\ Decl(RootAt(p)).kind = Walked[p[1]]
    BY <1>1, <1>7
  <2> QED
    BY <1>9, <2>1, <2>2, <2>3 DEF RootsOK
<1> QED
  BY <1>4, <1>5, <1>10

LEMMA KeptByBegin ==
  ASSUME ScopesTypeOK, TypesInv, BeginInfo
  PROVE  CallsOK' /\ ObjectsOK' /\ RootsOK'
<1>1. PICK p \in roots :
        /\ root' = RootAt(p) /\ roots' = roots \ {p}
        /\ frames' = <<Frame(RootAt(p), FullyQualifiedName(<<Decl(RootAt(p)).name>>))>>
  BY DEF BeginInfo
<1> DEFINE d == RootAt(p)
           key == FullyQualifiedName(<<Decl(d).name>>)
           call == Frame(d, key)
<1>2. UNCHANGED <<scopeVars, scope, cache, objects>>
  BY DEF BeginInfo
<1>3. world' = world /\ file' = file /\ phase' = phase /\ scope' = scope
  BY <1>2 DEF scopeVars
<1>4. /\ phase = "rendering" /\ scope \in Seq(Texted)
      /\ p \in {1, 2} \X DOMAIN Own(file) /\ Decl(d).kind = Walked[p[1]]
  BY DEF TypesInv, RootsOK
<1>5. world \in Worlds /\ file \in 1 .. Len(world.files)
  <2>1. file \in 0 .. Len(world.files) /\ file > 0 /\ Len(world.files) \in Nat
    BY <1>4, WorldFacts DEF ScopesTypeOK
  <2> QED
    BY <2>1 DEF ScopesTypeOK
<1>6. d \in Defs /\ d # 0
  <2>1. p[2] \in DOMAIN Own(file)
    BY <1>4
  <2>2. d \in Defs
    BY <1>5, <2>1, OwnFacts DEF RootAt
  <2> QED
    BY <1>5, <2>2, WorldFacts
<1>7. Decl(d).kind \in {"struct", "union"}
  <2>1. p[1] = 1 \/ p[1] = 2
    BY <1>4
  <2>2. Walked[1] = "struct" /\ Walked[2] = "union"
    BY DEF Walked
  <2> QED
    BY <1>4, <2>1, <2>2
<1>8. key \in Seq(Texted)
  <2>1. Decl(d).name \in Texted
    BY <1>5, <1>6, NamesAreKnown, KnownTexted
  <2>2. <<Decl(d).name>> \in Seq(Texted)
    BY <2>1
  <2> QED
    BY <1>4, <2>2, KeyTexted
<1> HIDE DEF d, key
<1>9. call \in Calls /\ Begun(call) /\ call.decl = d
  <2>1. call.decl = d /\ call.tids = <<>> /\ call \in Calls
    BY <1>6, <1>8 DEF Frame, Calls
  <2>2. Len(Decl(d).members) \in Nat
    BY <1>5, <1>6, WorldFacts
  <2> QED
    BY <1>6, <1>7, <2>1, <2>2 DEF Begun, HasObject
<1>10. frames' = <<call>> /\ root' = d
  BY <1>1 DEF d, key
<1> HIDE DEF call
<1>11. CallsOK'
  <2>1. /\ <<call>> \in Seq(Calls) /\ DOMAIN <<call>> = {1} /\ <<call>>[1] = call
    BY <1>9
  <2> DEFINE fs == <<call>>
  <2> HIDE DEF fs
  <2>2. /\ fs \in Seq(Calls) /\ DOMAIN fs = {1} /\ fs[1] = call /\ frames' = fs
    BY <1>10, <2>1 DEF fs
  <2>3. Calls' = Calls /\ \A c : Begun(c)' = Begun(c)
    BY <1>3, SameTypes
  <2> QED
    BY <1>9, <1>10, <2>2, <2>3 DEF CallsOK, Nested
<1>12. RootsOK'
  <2>1. Defs' = Defs /\ (\A e : Decl(e)' = Decl(e)) /\ Own(file)' = Own(file)
        /\ \A q : RootAt(q)' = RootAt(q)
    BY <1>3, SameWorld DEF Own, RootAt
  <2>2. root' \in Defs' \cup {0} /\ root' # 0
    BY <1>6, <1>10, <2>1
  <2>3. phase' = "rendering" /\ scope' \in Seq(Texted)
    BY <1>3, <1>4
  <2>4. \A q \in roots' : q \in roots
    BY <1>1
  <2> QED
    BY <2>1, <2>2, <2>3, <2>4 DEF RootsOK, TypesInv
<1> QED
  BY <1>2, <1>11, <1>12, SameObjects DEF TypesInv

\* What the innermost call is about, and where its next member's type leads.
LEMMA TopIs ==
  ASSUME ScopesTypeOK, TypesInv, frames # <<>>
  PROVE  /\ world \in Worlds /\ scope \in Seq(Texted)
         /\ Len(frames) \in Nat \ {0} /\ DOMAIN frames = 1 .. Len(frames)
         /\ Top = frames[Len(frames)] /\ Top \in Calls /\ Begun(Top) /\ Top.decl \in Defs
<1>1. frames \in Seq(Calls) /\ root # 0 /\ \A i \in DOMAIN frames : Begun(frames[i])
  BY DEF TypesInv, CallsOK, RootsOK
<1>2. Len(frames) \in Nat \ {0}
  BY <1>1, EmptySeq
<1>3. DOMAIN frames = 1 .. Len(frames)
  BY <1>1
<1>4. Len(frames) \in 1 .. Len(frames)
  BY <1>2
<1>5. Top = frames[Len(frames)]
  BY DEF Top, Last
<1>6. Top \in Calls
  BY <1>1, <1>4, <1>5, ElementOf
<1>7. Begun(Top)
  BY <1>1, <1>3, <1>4, <1>5
<1>8. Top.decl \in Defs
  BY <1>6 DEF Calls
<1>9. world \in Worlds /\ scope \in Seq(Texted)
  BY <1>1 DEF TypesInv, RootsOK, ScopesTypeOK
<1> QED
  BY <1>2, <1>3, <1>5, <1>6, <1>7, <1>8, <1>9

LEMMA MemberEnds ==
  ASSUME ScopesTypeOK, TypesInv, HasMember
  PROVE  /\ GoodEnd(Top.decl, Member)
         /\ Len(Top.tids) + 1 \in DOMAIN Decl(Top.decl).members
<1> DEFINE d == Top.decl
           i == Len(Top.tids) + 1
           parts == IF IsNamed(NextMember) THEN NameAt(NextMember) ELSE <<>>
<1>1. frames # <<>> /\ Len(Top.tids) < Len(Decl(d).members)
  BY DEF HasMember
<1>2. world \in Worlds /\ scope \in Seq(Texted) /\ Top \in Calls /\ d \in Defs
  BY <1>1, TopIs
<1>3. i \in DOMAIN Decl(d).members
  <2>1. Len(Top.tids) \in Nat
    BY <1>2 DEF Calls
  <2>2. DOMAIN Decl(d).members = 1 .. Len(Decl(d).members) /\ Len(Decl(d).members) \in Nat
    BY <1>2, WorldFacts
  <2> HIDE DEF d
  <2> QED
    BY <1>1, <2>1, <2>2
<1>4. NextMember = <<d, i>>
  BY DEF NextMember
<1> HIDE DEF d, i
<1>5. IsNamed(<<d, i>>) => parts \in Seq(Texted)
  <2> SUFFICES ASSUME IsNamed(<<d, i>>)
               PROVE  parts \in Seq(Texted)
    OBVIOUS
  <2>1. <<d, i>> \in AllRefs
    BY <1>2, <1>3, MemberTypes
  <2>2. WrittenName(scope, Parts(<<d, i>>)) \in Seq(Texted)
    BY <1>2, <2>1, WrittenTexted
  <2>3. Parts(<<d, i>>) \in Seq(Texted)
    BY <1>2, <2>1, PartsAreKnown, KnownTexted
  <2>4. parts = NameAt(<<d, i>>)
    BY <1>4
  <2> HIDE DEF parts
  <2> QED
    BY <2>2, <2>3, <2>4 DEF NameAt
<1>6. Member = Expand(<<d, i>>, parts)
  BY <1>4 DEF Member
<1> HIDE DEF parts
<1>7. GoodEnd(d, Expand(<<d, i>>, parts))
  <2>1. ResolvedHeld
    BY DEF TypesInv
  <2> QED
    BY <1>2, <1>3, <1>5, <2>1, Expanded
<1> QED
  BY <1>3, <1>6, <1>7 DEF d, i

LEMMA AppendIs ==
  ASSUME NEW S, NEW s \in Seq(S), NEW e \in S
  PROVE  /\ Append(s, e) \in Seq(S) /\ Len(Append(s, e)) = Len(s) + 1 /\ Len(s) \in Nat
         /\ \A i \in 1 .. Len(s) : Append(s, e)[i] = s[i]
         /\ Append(s, e)[Len(s) + 1] = e
         /\ DOMAIN Append(s, e) = 1 .. Len(s) + 1
OBVIOUS

\* A type is begun under all that are in hand.
LEMMA KeptByDescend ==
  ASSUME ScopesTypeOK, TypesInv, Descend
  PROVE  CallsOK' /\ ObjectsOK' /\ RootsOK'
<1> DEFINE e == Member.end[3]
           key == Member.end[2]
           call == Frame(e, key)
           n == Len(frames)
<1>1. /\ HasMember /\ Uncached(Member) /\ frames' = Append(frames, call)
      /\ UNCHANGED <<scopeVars, scope, cache, roots, root, objects>> /\ frames # <<>>
  BY DEF Descend, HasMember
<1>2. /\ n \in Nat \ {0} /\ DOMAIN frames = 1 .. n /\ Top = frames[n]
      /\ world \in Worlds /\ Top.decl \in Defs
  BY <1>1, TopIs
<1>3. /\ e \in Defs /\ e \in Under(Top.decl) /\ key \in Seq(Texted) /\ HasObject(e)
  <2>1. Member.end[1] = "type" /\ HasObject(e) /\ e # 0
    BY <1>1 DEF Uncached, HasObject
  <2>2. GoodEnd(Top.decl, Member)
    BY <1>1, MemberEnds
  <2> QED
    BY <2>1, <2>2 DEF GoodEnd
<1>4. world' = world /\ root # 0
  BY <1>1 DEF scopeVars, TypesInv, RootsOK
<1> HIDE DEF e, key
<1>5. call \in Calls /\ Begun(call) /\ call.decl = e
  <2>1. call.decl = e /\ call.tids = <<>> /\ call \in Calls
    BY <1>3 DEF Frame, Calls
  <2>2. Len(Decl(e).members) \in Nat
    BY <1>2, <1>3, WorldFacts
  <2> QED
    BY <1>3, <2>1, <2>2 DEF Begun
<1> HIDE DEF call
<1> DEFINE fs == Append(frames, call)
<1>6. /\ frames \in Seq(Calls) /\ frames[1].decl = root
      /\ \A i \in 1 .. n : Begun(frames[i])
      /\ \A i, j \in 1 .. n : i < j => frames[j].decl \in Under(frames[i].decl)
  BY <1>1, <1>2 DEF TypesInv, CallsOK, Nested
<1>7. /\ fs \in Seq(Calls) /\ DOMAIN fs = 1 .. n + 1
      /\ \A i \in 1 .. n : fs[i] = frames[i]
      /\ fs[n + 1] = call
  BY <1>5, <1>6, AppendIs
<1> HIDE DEF fs, n
<1>8. \A i \in 1 .. n + 1 : i \in 1 .. n \/ i = n + 1
  BY <1>2
<1>9. \A i \in DOMAIN fs : Begun(fs[i])
  BY <1>5, <1>6, <1>7, <1>8
<1>10. ASSUME NEW i \in DOMAIN fs, NEW j \in DOMAIN fs, i < j
       PROVE  fs[j].decl \in Under(fs[i].decl)
  <2>1. i \in 1 .. n
    BY <1>2, <1>7, <1>10
  <2>2. CASE j \in 1 .. n
    BY <1>6, <1>7, <1>10, <2>1, <2>2
  <2>3. CASE j = n + 1
    <3>1. fs[j].decl = e /\ fs[i].decl = frames[i].decl
      BY <1>5, <1>7, <2>1, <2>3
    <3>2. CASE i = n
      BY <1>2, <1>3, <3>1, <3>2
    <3>3. CASE i # n
      <4>1. n \in 1 .. n /\ i < n
        BY <1>2, <2>1, <3>3
      <4>2. Top.decl \in Under(frames[i].decl)
        BY <1>2, <1>6, <2>1, <4>1
      <4> QED
        BY <1>3, <3>1, <4>2, UnderUnder
    <3> QED
      BY <3>2, <3>3
  <2> QED
    BY <1>7, <1>8, <2>2, <2>3
<1>11. CallsOK'
  <2>1. frames' = fs /\ root' = root
    BY <1>1 DEF fs
  <2>2. fs[1].decl = root
    <3>1. 1 \in 1 .. n
      BY <1>2
    <3> QED
      BY <1>6, <1>7, <3>1
  <2>3. Calls' = Calls /\ (\A c : Begun(c)' = Begun(c)) /\ \A d : Under(d)' = Under(d)
    BY <1>4, SameTypes
  <2>4. Nested'
    BY <1>10, <2>1, <2>3 DEF Nested
  <2> QED
    BY <1>7, <1>9, <2>1, <2>2, <2>3, <2>4 DEF CallsOK
<1> QED
  BY <1>1, <1>4, <1>11, SameObjects, SameRoots DEF TypesInv

LEMMA CacheIndices ==
  ASSUME ObjectsOK
  PROVE  CacheTypeOK
<1>1. DOMAIN objects \subseteq Nat
  BY DEF ObjectsOK
<1> QED
  BY <1>1 DEF ObjectsOK, InCache, CacheTypeOK

\* Another identifier in the innermost call leaves the others alone.
LEMMA KeptByTake ==
  ASSUME ScopesTypeOK, TypesInv, TakeMember
  PROVE  CallsOK' /\ ObjectsOK' /\ RootsOK'
<1> DEFINE pair == <<TypeIdentifier(Member, MINIMAL), TypeIdentifier(Member, COMPLETE)>>
           n == Len(frames)
           call == [Top EXCEPT !.tids = Append(@, pair)]
           fs == [frames EXCEPT ![n] = call]
<1>1. /\ HasMember /\ UNCHANGED <<scopeVars, scope, cache, roots, root, objects>> /\ frames # <<>>
      /\ frames' = [frames EXCEPT ![n].tids = Append(@, pair)]
  BY DEF TakeMember, HasMember
<1>2. /\ n \in Nat \ {0} /\ DOMAIN frames = 1 .. n /\ Top = frames[n] /\ Top \in Calls
      /\ world \in Worlds /\ Top.decl \in Defs /\ Begun(Top)
  BY <1>1, TopIs
<1>3. pair \in TidPairs
  <2>1. GoodEnd(Top.decl, Member) /\ CacheTypeOK
    BY <1>1, MemberEnds, CacheIndices DEF TypesInv
  <2>2. TypeIdentifier(Member, MINIMAL) \in Seq(Flat)
        /\ TypeIdentifier(Member, COMPLETE) \in Seq(Flat)
    BY <2>1, IdentifierFlat
  <2> QED
    BY <2>2 DEF TidPairs
<1> HIDE DEF pair
<1>4. world' = world /\ root # 0
  BY <1>1 DEF scopeVars, TypesInv, RootsOK
<1>5. /\ call \in Calls /\ call.decl = Top.decl /\ Begun(call)
  <2>1. /\ Top.tids \in Seq(TidPairs) /\ Len(Top.tids) \in Nat
        /\ Append(Top.tids, pair) \in Seq(TidPairs)
        /\ Len(Append(Top.tids, pair)) = Len(Top.tids) + 1
    BY <1>2, <1>3, AppendIs DEF Calls
  <2>2. call.decl = Top.decl /\ call.tids = Append(Top.tids, pair) /\ call \in Calls
    BY <1>2, <2>1 DEF Calls
  <2>3. Len(Top.tids) < Len(Decl(Top.decl).members) /\ Len(Decl(Top.decl).members) \in Nat
    BY <1>1, <1>2, WorldFacts DEF HasMember
  <2> HIDE DEF call
  <2>4. Len(call.tids) <= Len(Decl(call.decl).members)
    BY <2>1, <2>2, <2>3
  <2> QED
    BY <1>2, <2>2, <2>4 DEF Begun
<1>6. /\ frames \in Seq(Calls) /\ frames[1].decl = root
      /\ \A i \in 1 .. n : Begun(frames[i])
      /\ \A i, j \in 1 .. n : i < j => frames[j].decl \in Under(frames[i].decl)
  BY <1>1, <1>2 DEF TypesInv, CallsOK, Nested
<1>7. frames' = fs
  BY <1>1, <1>2
<1> HIDE DEF call, n
<1>8. /\ DOMAIN fs = 1 .. n /\ Len(frames) = n
      /\ \A i \in 1 .. n : fs[i] = IF i = n THEN call ELSE frames[i]
  BY <1>2, <1>6 DEF n
<1>9. fs \in Seq(Calls)
  <2>1. \A i \in 1 .. n : fs[i] \in Calls
    BY <1>5, <1>6, <1>8, ElementOf
  <2>2. fs \in [1 .. n -> Calls]
    BY <1>8, <2>1
  <2> HIDE DEF fs
  <2> QED
    BY <1>2, <2>2
<1> HIDE DEF fs
<1>10. \A i \in 1 .. n : Begun(fs[i]) /\ fs[i].decl = frames[i].decl
  BY <1>2, <1>5, <1>6, <1>8
<1>11. CallsOK'
  <2>1. frames' = fs /\ root' = root
    BY <1>1, <1>7
  <2>2. fs[1].decl = root
    <3>1. 1 \in 1 .. n
      BY <1>2
    <3> QED
      BY <1>6, <1>10, <3>1
  <2>3. Calls' = Calls /\ (\A c : Begun(c)' = Begun(c)) /\ \A d : Under(d)' = Under(d)
    BY <1>4, SameTypes
  <2>4. \A i, j \in DOMAIN fs : i < j => fs[j].decl \in Under(fs[i].decl)
    BY <1>6, <1>8, <1>10
  <2>5. Nested'
    BY <2>1, <2>3, <2>4 DEF Nested
  <2> QED
    BY <1>8, <1>9, <1>10, <2>1, <2>2, <2>3, <2>5 DEF CallsOK
<1> QED
  BY <1>1, <1>4, <1>11, SameObjects, SameRoots DEF TypesInv

\* An object that is added or found has an index, and those of the others stay.
LEMMA HashedOnce ==
  ASSUME NEW seen \in Seq(Seq(Byte)), IsInjective(seen), NEW object \in Seq(Byte),
         NEW new, new = Hashed(seen, object)
  PROVE  /\ new \in Seq(Seq(Byte)) /\ IsInjective(new)
         /\ \A i \in DOMAIN seen : i \in DOMAIN new /\ new[i] = seen[i]
         /\ \E i \in DOMAIN new : new[i] = object
<1>1. DOMAIN seen = 1 .. Len(seen) /\ Len(seen) \in Nat
  BY SequenceDomain
<1>2. CASE Contains(seen, object)
  <2>1. new = seen
    BY <1>2 DEF Hashed
  <2>2. \E i \in 1 .. Len(seen) : seen[i] = object
    BY <1>2 DEF Contains
  <2> QED
    BY <1>1, <2>1, <2>2
<1>3. CASE ~Contains(seen, object)
  <2>1. new = Append(seen, object)
    BY <1>3 DEF Hashed
  <2>2. \A i \in 1 .. Len(seen) : seen[i] # object
    BY <1>3 DEF Contains
  <2>3. /\ new \in Seq(Seq(Byte)) /\ DOMAIN new = 1 .. Len(seen) + 1
        /\ \A i \in 1 .. Len(seen) : new[i] = seen[i]
        /\ new[Len(seen) + 1] = object
    BY <2>1, AppendIs
  <2>4. \A i \in 1 .. Len(seen) + 1 : i \in 1 .. Len(seen) \/ i = Len(seen) + 1
    BY <1>1
  <2>5. \A i, j \in 1 .. Len(seen) : seen[i] = seen[j] => i = j
    BY <1>1 DEF IsInjective
  <2>6. \A i, j \in DOMAIN new : new[i] = new[j] => i = j
    BY <2>2, <2>3, <2>4, <2>5
  <2>7. /\ \A i \in 1 .. Len(seen) : i \in 1 .. Len(seen) + 1
        /\ Len(seen) + 1 \in 1 .. Len(seen) + 1
    BY <1>1
  <2> QED
    BY <1>1, <2>3, <2>6, <2>7 DEF IsInjective
<1> QED
  BY <1>2, <1>3

\* The innermost call returns: its objects are found under its name, and the
\* calls around it are as they were.
LEMMA KeptByFinish ==
  ASSUME ScopesTypeOK, TypesInv, FinishType
  PROVE  CallsOK' /\ ObjectsOK' /\ RootsOK'
<1> DEFINE n == Len(frames)
           once == Hashed(objects, MinimalObject)
           seen == Hashed(once, CompleteObject)
           entry == [min |-> IndexIn(seen, MinimalObject), comp |-> IndexIn(seen, CompleteObject)]
           fs == Front(frames)
<1>1. /\ frames # <<>> /\ ~HasMember /\ objects' = seen /\ cache' = CacheWith(entry)
      /\ frames' = fs /\ UNCHANGED <<scopeVars, scope, roots, root>>
  BY DEF FinishType, Remember
<1>2. /\ n \in Nat \ {0} /\ DOMAIN frames = 1 .. n /\ Top \in Calls
      /\ world \in Worlds /\ Top.decl \in Defs /\ Begun(Top)
  BY <1>1, TopIs
<1>3. Len(Top.tids) = Len(Decl(Top.decl).members)
  <2>1. Len(Top.tids) \in Nat /\ Len(Decl(Top.decl).members) \in Nat
    BY <1>2, WorldFacts DEF Calls
  <2>2. ~(Len(Top.tids) < Len(Decl(Top.decl).members))
        /\ Len(Top.tids) <= Len(Decl(Top.decl).members)
    BY <1>1, <1>2 DEF HasMember, Begun
  <2> QED
    BY <2>1, <2>2
<1>4. /\ MinimalObject \in Seq(Byte) /\ MinimalObject[5] = MINIMAL
      /\ CompleteObject \in Seq(Byte) /\ CompleteObject[5] = COMPLETE
  BY <1>2, <1>3, ObjectsOfKinds
<1>5. objects \in Seq(Seq(Byte)) /\ IsInjective(objects)
      /\ \A k \in DOMAIN cache : InCache(cache[k])
  BY DEF TypesInv, ObjectsOK
<1>6. /\ once \in Seq(Seq(Byte)) /\ IsInjective(once)
      /\ \A i \in DOMAIN objects : i \in DOMAIN once /\ once[i] = objects[i]
      /\ \E i \in DOMAIN once : once[i] = MinimalObject
  BY <1>4, <1>5, HashedOnce
<1> HIDE DEF once
<1>7. /\ seen \in Seq(Seq(Byte)) /\ IsInjective(seen)
      /\ \A i \in DOMAIN once : i \in DOMAIN seen /\ seen[i] = once[i]
      /\ \E i \in DOMAIN seen : seen[i] = CompleteObject
  <2>1. once \in Seq(Seq(Byte)) /\ IsInjective(once) /\ CompleteObject \in Seq(Byte)
    BY <1>4, <1>6
  <2> QED
    BY <2>1, HashedOnce
<1> HIDE DEF seen
<1>8. /\ \A i \in DOMAIN objects : i \in DOMAIN seen /\ seen[i] = objects[i]
      /\ \E i \in DOMAIN seen : seen[i] = MinimalObject
  BY <1>6, <1>7
<1>9. /\ entry.min \in DOMAIN seen /\ seen[entry.min][5] = MINIMAL
      /\ entry.comp \in DOMAIN seen /\ seen[entry.comp][5] = COMPLETE
  <2>1. IndexIn(seen, MinimalObject) \in DOMAIN seen
        /\ seen[IndexIn(seen, MinimalObject)] = MinimalObject
    BY <1>8 DEF IndexIn
  <2>2. IndexIn(seen, CompleteObject) \in DOMAIN seen
        /\ seen[IndexIn(seen, CompleteObject)] = CompleteObject
    BY <1>7 DEF IndexIn
  <2> QED
    BY <1>4, <2>1, <2>2
<1> HIDE DEF entry
<1>10. ObjectsOK'
  <2>1. ASSUME NEW k \in DOMAIN cache'
        PROVE  /\ cache'[k].min \in DOMAIN objects' /\ objects'[cache'[k].min][5] = MINIMAL
               /\ cache'[k].comp \in DOMAIN objects' /\ objects'[cache'[k].comp][5] = COMPLETE
    <3>1. CacheWith(entry) = [x \in DOMAIN cache \cup {Top.key} |-> IF x = Top.key THEN entry ELSE cache[x]]
      BY DEF CacheWith
    <3>2. cache'[k] = entry \/ (k \in DOMAIN cache /\ cache'[k] = cache[k])
      BY <1>1, <2>1, <3>1
    <3>3. k \in DOMAIN cache => /\ cache[k].min \in DOMAIN seen /\ seen[cache[k].min][5] = MINIMAL
                                /\ cache[k].comp \in DOMAIN seen /\ seen[cache[k].comp][5] = COMPLETE
      BY <1>5, <1>8 DEF InCache
    <3> QED
      BY <1>1, <1>9, <3>2, <3>3
  <2> QED
    BY <1>1, <1>7, <2>1 DEF ObjectsOK, InCache, IsInjective
<1>11. world' = world /\ root # 0
  BY <1>1 DEF scopeVars, TypesInv, RootsOK
<1>12. /\ frames \in Seq(Calls) /\ frames[1].decl = root
       /\ \A i \in 1 .. n : Begun(frames[i])
       /\ \A i, j \in 1 .. n : i < j => frames[j].decl \in Under(frames[i].decl)
  BY <1>1, <1>2 DEF TypesInv, CallsOK, Nested
<1>13. /\ fs \in Seq(Calls) /\ Len(fs) = n - 1 /\ DOMAIN fs = 1 .. n - 1
       /\ \A i \in 1 .. n - 1 : i \in 1 .. n /\ fs[i] = frames[i]
  <2>1. /\ fs \in Seq(Calls) /\ Len(fs) = n - 1 /\ \A i \in 1 .. n - 1 : fs[i] = frames[i]
    BY <1>1, <1>12, FrontType DEF Front
  <2>2. DOMAIN fs = 1 .. Len(fs)
    BY <2>1
  <2> HIDE DEF fs
  <2> QED
    BY <1>2, <2>1, <2>2
<1> HIDE DEF fs, n
<1>14. CallsOK'
  <2>1. frames' = fs /\ root' = root
    BY <1>1
  <2>2. fs # <<>> => fs[1].decl = root
    <3>1. fs # <<>> => 1 \in 1 .. n - 1
      <4>1. fs # <<>> => Len(fs) # 0
        BY <1>13, EmptySeq
      <4> QED
        BY <1>2, <1>13, <4>1
    <3> QED
      BY <1>12, <1>13, <3>1
  <2>3. Calls' = Calls /\ (\A c : Begun(c)' = Begun(c)) /\ \A d : Under(d)' = Under(d)
    BY <1>11, SameTypes
  <2>4. Nested'
    BY <1>12, <1>13, <2>1, <2>3 DEF Nested
  <2> QED
    BY <1>12, <1>13, <2>1, <2>2, <2>3, <2>4 DEF CallsOK
<1> QED
  BY <1>1, <1>10, <1>11, <1>14, SameRoots DEF TypesInv

LEMMA KeptByEnd ==
  ASSUME ScopesTypeOK, TypesInv, EndInfo
  PROVE  CallsOK' /\ ObjectsOK' /\ RootsOK'
<1>1. /\ root # 0 /\ frames = <<>> /\ root' = 0
      /\ UNCHANGED <<scopeVars, scope, cache, roots, frames, objects>>
  BY DEF EndInfo
<1>2. CallsOK' /\ ObjectsOK'
  BY <1>1, NoCalls, SameObjects DEF TypesInv
<1>3. world' = world /\ phase' = phase /\ file' = file
  BY <1>1 DEF scopeVars
<1>4. Defs' = Defs /\ (\A d : Decl(d)' = Decl(d)) /\ Own(file)' = Own(file)
      /\ \A p : RootAt(p)' = RootAt(p)
  BY <1>3, SameWorld DEF Own, RootAt
<1>5. RootsOK'
  BY <1>1, <1>3, <1>4 DEF RootsOK, TypesInv
<1> QED
  BY <1>2, <1>5

LEMMA TypesInvStep ==
  ScopesTypeOK /\ TypesInv /\ [TypesStep \/ TypesEnded]_vars => TypesInv'
<1> SUFFICES ASSUME ScopesTypeOK, TypesInv, [TypesStep \/ TypesEnded]_vars
             PROVE  TypesInv'
  OBVIOUS
<1>1. [ScopesNext]_scopeVars
  BY StepsOfScopes
<1>2. ResolvedHeld'
  BY <1>1, HeldStep DEF TypesInv
<1>3. world' = world
  BY <1>1 DEF ScopesNext, ResolveNext, StartFile, NextDefinition, SkipMember, ResolveMember,
         Unresolved, CollectUnits, RenderUnit, Ended, scopeVars
<1>4. NoneHoldsItself(world)'
  BY <1>3 DEF TypesInv
<1>5. CallsOK' /\ ObjectsOK' /\ RootsOK'
  <2>1. CASE ScopesStep
    BY <2>1, KeptByScopes
  <2>2. CASE \E rel \in units : RenderTypes(rel)
    BY <2>2, KeptByRender
  <2>3. CASE BeginInfo
    BY <2>3, KeptByBegin
  <2>4. CASE Descend
    BY <2>4, KeptByDescend
  <2>5. CASE TakeMember
    BY <2>5, KeptByTake
  <2>6. CASE FinishType
    BY <2>6, KeptByFinish
  <2>7. CASE EndInfo
    BY <2>7, KeptByEnd
  <2>8. CASE TypesEnded \/ UNCHANGED vars
    <3>1. UNCHANGED scopeVars /\ UNCHANGED <<scope, cache, roots, root, frames, objects>>
      BY <2>8 DEF TypesEnded, Ended, vars, typeVars
    <3>2. root # 0 \/ frames' = <<>>
      BY <3>1 DEF TypesInv, RootsOK
    <3> QED
      BY <1>3, <3>1, <3>2, SameCalls, SameObjects, SameRoots DEF TypesInv
  <2> QED
    BY <2>1, <2>2, <2>3, <2>4, <2>5, <2>6, <2>7, <2>8 DEF TypesStep
<1> QED
  BY <1>2, <1>4, <1>5 DEF TypesInv

LEMMA TypesInvMeans == ScopesTypeOK /\ TypesInv => TypesTypeOK
<1> SUFFICES ASSUME ScopesTypeOK, TypesInv
             PROVE  TypesTypeOK
  OBVIOUS
<1>1. roots # {} => file > 0 /\ roots \subseteq {1, 2} \X DOMAIN Own(file)
  BY DEF TypesInv, RootsOK, ScopesTypeOK
<1>2. frames # <<>> => root # 0 /\ frames[1].decl = root
  BY DEF TypesInv, RootsOK, CallsOK
<1>3. ASSUME NEW i \in DOMAIN frames, NEW j \in DOMAIN frames, i # j
      PROVE  frames[i].decl # frames[j].decl
  <2>1. i \in Nat /\ j \in Nat
    BY DEF TypesInv, CallsOK
  <2>2. i < j \/ j < i
    BY <1>3, <2>1
  <2>3. frames[j].decl \in Under(frames[i].decl) \/ frames[i].decl \in Under(frames[j].decl)
    BY <2>2 DEF TypesInv, CallsOK, Nested
  <2> QED
    BY <2>3, NotUnderItself DEF TypesInv
<1> QED
  BY <1>1, <1>2, <1>3 DEF TypesTypeOK, TypesInv, ObjectsOK, InCache, RootsOK

LEMMA TypesInductive == TypesSpec /\ NoneHoldsItself(world) => [](ScopesTypeOK /\ TypesInv)
<1>1. TypesSpec => []ScopesTypeOK
  BY TypesImplementScopes, ScopesTypes, PTL
<1>2. TypesInit => ScopesInit
  BY DEF TypesInit
<1> QED
  BY <1>1, TypesInvInit, TypesInvStep, PTL DEF TypesSpec

\* In worlds where no type holds itself, entries of the cache are always of
\* objects of their kinds, objects with the same hash are the same, and no type
\* is begun inside itself, so that the recursion cannot go round
\* (compute.go:147-263).
THEOREM TypesStayTyped == TypesSpec /\ NoneHoldsItself(world) => []TypesTypeOK
BY TypesInductive, TypesInvMeans, PTL

-----------------------------------------------------------------------------
(***************************************************************************)
(* Where the values of an enum are in its minimal object: an item goes     *)
(* behind the padding its width calls for, and a DHEADER changes nothing   *)
(* but its own four bytes.                                                 *)
(***************************************************************************)
LittleWriters == {w \in Writers : w.enc.order = LE}

LEMMA LittleFacts ==
  ASSUME NEW w \in LittleWriters
  PROVE  /\ w \in Writers /\ w.enc \in Encoders /\ w.enc.pos = Len(w.enc.buf) /\ w.enc.order = LE
         /\ w.enc.buf \in Seq(Byte) /\ Len(w.enc.buf) \in Nat /\ w.enc.pos \in Nat
         /\ w.starts \in Seq(Nat)
BY DEF LittleWriters, Writers, Encoders

\* A scalar's bytes are the last ones behind it.
LEMMA ScalarWritten ==
  ASSUME NEW w \in LittleWriters, NEW n \in {1, 2, 4}, NEW b \in Seq(Byte), Len(b) = n,
         NEW r, r = WriteItem(w, <<"scalar", b>>)
  PROVE  /\ r \in LittleWriters /\ r.starts = w.starts /\ Extends(w.enc, r.enc)
         /\ r.enc.pos = w.enc.pos + Pad(w.enc.pos, n) + n
         /\ \A i \in 1 .. n : r.enc.buf[r.enc.pos - n + i] = Swap(b)[i]
<1> DEFINE item == <<"scalar", b>>
           e == w.enc
           a == EncAlign(e, Len(b))
           p == Pad(e.pos, Len(b))
<1>1. /\ w \in Writers /\ e \in Encoders /\ e.pos = Len(e.buf) /\ e.order = LE
      /\ e.buf \in Seq(Byte) /\ Len(e.buf) \in Nat
  BY LittleFacts
<1>2. item \in Flat
  BY DEF Flat
<1>3. r \in Writers /\ r.starts = w.starts /\ Extends(e, r.enc)
  BY <1>1, <1>2, FlatItem
<1>4. r.enc = WriteScalar(e, b)
  BY <1>1 DEF WriteItem, Writers
<1>5. Len(b) > 0 /\ Len(b) \in Nat \ {0}
  OBVIOUS
<1>6. r.enc.pos = e.pos + p + Len(b)
  BY <1>1, <1>4, <1>5, ScalarExtends
<1>7. p \in Nat /\ Zeros(p) \in Seq(Byte) /\ Len(Zeros(p)) = p
  BY <1>1, <1>5, PadType
<1>8. a.buf = e.buf \o Zeros(p) /\ a.order = LE
  BY <1>1 DEF EncAlign, Advance
<1>9. a.buf \in Seq(Byte) /\ Len(a.buf) = e.pos + p
  BY <1>1, <1>7, <1>8, SliceBehind
<1>10. r.enc.buf = a.buf \o Swap(b)
  <2>1. WriteScalar(e, b).buf = a.buf \o Put(e.order, b)
    BY DEF WriteScalar, WriteRaw, Advance
  <2> QED
    BY <1>1, <1>4, <2>1 DEF Put, LE, BE
<1> HIDE DEF a
<1>11. Swap(b) \in Seq(Byte) /\ Len(Swap(b)) = Len(b)
  BY SwapType
<1>12. \A i \in 1 .. Len(b) : r.enc.buf[Len(a.buf) + i] = Swap(b)[i]
  <2> DEFINE c == Swap(b)
  <2>1. c \in Seq(Byte) /\ Len(c) = Len(b)
    BY <1>11
  <2> HIDE DEF c
  <2>2. \A i \in 1 .. Len(c) : (a.buf \o c)[Len(a.buf) + i] = c[i]
    BY <1>9, <2>1, ConcatElements
  <2> QED
    BY <1>10, <2>1, <2>2 DEF c
<1>13. r.enc.pos - Len(b) = Len(a.buf)
  BY <1>1, <1>6, <1>7, <1>9
<1>14. r \in LittleWriters
  BY <1>1, <1>3 DEF LittleWriters, Extends
<1> QED
  BY <1>3, <1>6, <1>12, <1>13, <1>14

\* Bytes are not aligned.
LEMMA RawWritten ==
  ASSUME NEW w \in LittleWriters, NEW b \in Seq(Byte), NEW r, r = WriteItem(w, Raw(b))
  PROVE  /\ r \in LittleWriters /\ r.starts = w.starts /\ Extends(w.enc, r.enc)
         /\ r.enc.pos = w.enc.pos + Len(b)
<1>1. w \in Writers /\ w.enc \in Encoders /\ w.enc.pos = Len(w.enc.buf) /\ w.enc.order = LE
  BY LittleFacts
<1>2. Raw(b) \in Flat
  BY BytesFlat
<1>3. r \in Writers /\ r.starts = w.starts /\ Extends(w.enc, r.enc)
  BY <1>1, <1>2, FlatItem
<1>4. r.enc = Advance(w.enc, b, Len(b))
  BY <1>1 DEF WriteItem, Writers, Raw, WriteRaw
<1>5. r.enc.pos = w.enc.pos + Len(b)
  BY <1>1, <1>4, AdvanceExtends
<1> QED
  BY <1>1, <1>3, <1>5 DEF LittleWriters, Extends

\* A DHEADER is begun: its place is kept for when it is finished.
LEMMA Begins ==
  ASSUME NEW w \in LittleWriters
  PROVE  LET u == WriteItem(w, Begin)
             start == DHeaderStart(w.enc)
         IN  /\ u \in LittleWriters /\ u.starts = Append(w.starts, start) /\ Extends(w.enc, u.enc)
             /\ start \in Nat /\ start = w.enc.pos + Pad(w.enc.pos, 4) /\ u.enc.pos = start + 4
<1> DEFINE u == WriteItem(w, Begin)
           start == DHeaderStart(w.enc)
<1>1. /\ w.enc \in Encoders /\ w.enc.pos = Len(w.enc.buf) /\ w.enc.order = LE
      /\ w.starts \in Seq(Nat)
  BY LittleFacts
<1>2. /\ Extends(w.enc, BeginDHeader(w.enc)) /\ start \in Nat
      /\ start + 4 = Len(BeginDHeader(w.enc).buf)
  BY <1>1, BeginExtends
<1>3. u = Writer(BeginDHeader(w.enc), Append(w.starts, start))
  BY DEF WriteItem, Begin
<1>4. start = w.enc.pos + Pad(w.enc.pos, 4)
  BY DEF DHeaderStart
<1> HIDE DEF start
<1>5. u \in LittleWriters
  BY <1>1, <1>2, <1>3 DEF Writer, Writers, LittleWriters, Extends
<1> QED
  BY <1>2, <1>3, <1>4, <1>5 DEF Writer, Extends, start

LEMMA DelimitedIs ==
  ASSUME NEW w, NEW items \in Seq(Items)
  PROVE  WriteItems(w, Delimited(items)) = WriteItem(WriteItems(WriteItem(w, Begin), items), Finish)
<1> DEFINE front == <<Begin>>
           back == <<Finish>>
           most == front \o items
           u == WriteItem(w, Begin)
           v == WriteItems(u, items)
           r == WriteItem(v, Finish)
<1>1. Begin \in Items /\ Finish \in Items
  BY DEF Items
<1>2. WriteItems(w, front) = u /\ WriteItems(v, back) = r
  BY <1>1, SingleItem
<1>3. front \in Seq(Items) /\ back \in Seq(Items)
  BY <1>1
<1> HIDE DEF front, back
<1>4. WriteItems(w, most) = v /\ most \in Seq(Items)
  BY <1>2, <1>3, TwoParts
<1> HIDE DEF most, v, u
<1>5. WriteItems(w, most \o back) = r
  BY <1>2, <1>3, <1>4, TwoParts
<1> QED
  BY <1>5, Zenon DEF Delimited, front, back, most, r, u, v

\* b is a up to its end, but for the DHEADER at start.
SameBut(a, b, start, end) == \A i \in 1 .. end : i \notin start + 1 .. start + 4 => b[i] = a[i]

\* A delimited layout is its items with the size in front of them patched.
LEMMA DelimitedKeeps ==
  ASSUME NEW w \in LittleWriters, NEW items, Closed(items),
         NEW v, v = WriteItems(WriteItem(w, Begin), items),
         NEW r, r = WriteItems(w, Delimited(items))
  PROVE  /\ v \in LittleWriters
         /\ r \in LittleWriters /\ r.starts = w.starts /\ r.enc.pos = v.enc.pos
         /\ SameBut(v.enc.buf, r.enc.buf, DHeaderStart(w.enc), v.enc.pos)
<1> DEFINE u == WriteItem(w, Begin)
           start == DHeaderStart(w.enc)
           e == FinishDHeader(v.enc, start)
<1>1. /\ u \in LittleWriters /\ u.starts = Append(w.starts, start)
      /\ start \in Nat /\ u.enc.pos = start + 4
  BY Begins
<1> HIDE DEF u, start
<1>2. u \in Writers /\ u.enc.order = LE /\ u.enc.pos = Len(u.enc.buf) /\ w.starts \in Seq(Nat)
  BY <1>1, LittleFacts
<1>3. v \in Writers /\ v.starts = u.starts /\ Extends(u.enc, v.enc)
  BY <1>2 DEF Closed, u
<1>4. v \in LittleWriters
  BY <1>2, <1>3 DEF LittleWriters, Extends
<1>5. v.enc \in Encoders /\ v.enc.pos = Len(v.enc.buf) /\ v.enc.order = LE
  BY <1>4, LittleFacts
<1>6. start + 4 <= Len(v.enc.buf)
  BY <1>1, <1>2, <1>3 DEF Extends
<1>7. Last(v.starts) = start /\ Front(v.starts) = w.starts
  BY <1>1, <1>2, <1>3, PushedIsPopped
<1>8. items \in Seq(Items)
  BY DEF Closed
<1>9. r = WriteItem(v, Finish)
  BY <1>8, DelimitedIs DEF u
<1>10. r = Writer(e, w.starts)
  BY <1>7, <1>9 DEF WriteItem, Finish
<1>11. /\ e \in Encoders /\ e.order = v.enc.order /\ e.pos = v.enc.pos
       /\ Len(e.buf) = Len(v.enc.buf)
       /\ \A i \in 1 .. Len(v.enc.buf) : i \notin start + 1 .. start + 4 => e.buf[i] = v.enc.buf[i]
  BY <1>1, <1>5, <1>6, FinishPatches
<1> HIDE DEF e
<1>12. r \in LittleWriters
  BY <1>2, <1>5, <1>10, <1>11 DEF Writer, Writers, LittleWriters
<1> QED
  BY <1>4, <1>5, <1>6, <1>10, <1>11, <1>12 DEF Writer, SameBut, start

LEMMA NoPadding ==
  ASSUME NEW q \in Nat, q % 4 = 0
  PROVE  /\ Pad(q, 4) = 0 /\ Pad(q, 2) = 0 /\ Pad(q, 1) = 0
         /\ (q + 4) % 4 = 0 /\ (q + 8) % 4 = 0 /\ (q + 12) % 4 = 0
<1>1. Cap(4) = 4 /\ Cap(2) = 2 /\ Cap(1) = 1
  BY DEF Cap
<1>2. q % 2 = 0 /\ q % 1 = 0
  BY SMT
<1>3. (q + 4) % 4 = 0 /\ (q + 8) % 4 = 0 /\ (q + 12) % 4 = 0
  BY SMT
<1> QED
  BY <1>1, <1>2, <1>3 DEF Pad

LiteralAt(buf, p, l) == \A i \in 1 .. 4 : buf[p + 8 + i] = Swap(Word(l.value))[i]

\* Two DHEADERs, the value, its flags and the name's hash.
LEMMA LiteralWritten ==
  ASSUME NEW w \in LittleWriters, NEW l \in Literals, Len(NameHash[l.name]) = 4,
         NEW r, r = WriteItems(w, MinimalEnumLiteral(l)),
         NEW p, p = w.enc.pos + Pad(w.enc.pos, 4)
  PROVE  /\ r \in LittleWriters /\ r.starts = w.starts /\ Extends(w.enc, r.enc)
         /\ p \in Nat /\ p % 4 = 0 /\ r.enc.pos = p + 18 /\ LiteralAt(r.enc.buf, p, l)
<1> DEFINE value == Word(l.value)
           flags == <<l.flags \div 256, l.flags % 256>>
           hash == NameHash[l.name]
           pair == <<U32(l.value), U16(l.flags)>>
           common == Delimited(pair)
           detail == <<Raw(hash)>>
           u1 == WriteItem(w, Begin)
           u2 == WriteItem(u1, Begin)
           s1 == WriteItem(u2, U32(l.value))
           s2 == WriteItem(s1, U16(l.flags))
           c == WriteItems(u1, common)
           v == WriteItem(c, Raw(hash))
<1>1. l.value \in Int /\ l.flags \in Uint16 /\ l.name \in Known /\ hash \in Seq(Byte)
  BY DEF Literals, Known
<1>2. value \in Seq(Byte) /\ Len(value) = 4 /\ U32(l.value) = <<"scalar", value>>
  BY <1>1, WordType DEF U32
<1>3. flags \in Seq(Byte) /\ Len(flags) = 2 /\ U16(l.flags) = <<"scalar", flags>>
  <2> DEFINE n == l.flags
  <2> HIDE DEF n
  <2>0. n \in Nat /\ n < 65536
    BY <1>1 DEF Uint16, n
  <2>1. n \div 256 \in Byte /\ n % 256 \in Byte
    BY <2>0, SMT DEF Byte
  <2> QED
    BY <2>1 DEF U16, n
<1>4. /\ u1 \in LittleWriters /\ p \in Nat /\ p % 4 = 0 /\ u1.enc.pos = p + 4
      /\ DHeaderStart(w.enc) = p
  <2>1. w.enc.pos \in Nat
    BY LittleFacts
  <2> QED
    BY <2>1, Begins, PadAligns
<1> HIDE DEF u1
<1>5. u2 \in LittleWriters /\ u2.enc.pos = p + 8 /\ DHeaderStart(u1.enc) = p + 4
  <2>1. Pad(p + 4, 4) = 0
    BY <1>4, NoPadding
  <2>2. u2 \in LittleWriters /\ DHeaderStart(u1.enc) = u1.enc.pos + Pad(u1.enc.pos, 4)
        /\ u2.enc.pos = DHeaderStart(u1.enc) + 4
    BY <1>4, Begins
  <2> QED
    BY <1>4, <2>1, <2>2
<1> HIDE DEF u2, value, flags, hash
<1>6. /\ s1 \in LittleWriters /\ s1.enc.pos = p + 12
      /\ \A i \in 1 .. 4 : s1.enc.buf[p + 8 + i] = Swap(value)[i]
  <2>1. Pad(p + 8, 4) = 0
    BY <1>4, NoPadding
  <2>2. /\ s1 \in LittleWriters /\ s1.enc.pos = u2.enc.pos + Pad(u2.enc.pos, 4) + 4
        /\ \A i \in 1 .. 4 : s1.enc.buf[s1.enc.pos - 4 + i] = Swap(value)[i]
    BY <1>2, <1>5, ScalarWritten
  <2>3. s1.enc.pos = p + 12 /\ s1.enc.pos - 4 = p + 8
    BY <1>4, <1>5, <2>1, <2>2
  <2> QED
    BY <2>2, <2>3
<1> HIDE DEF s1
<1>7. /\ s2 \in LittleWriters /\ s2.enc.pos = p + 14
      /\ \A i \in 1 .. 4 : s2.enc.buf[p + 8 + i] = Swap(value)[i]
  <2>1. Pad(p + 12, 2) = 0
    BY <1>4, NoPadding
  <2>2. /\ s2 \in LittleWriters /\ s2.enc.pos = s1.enc.pos + Pad(s1.enc.pos, 2) + 2
        /\ Extends(s1.enc, s2.enc)
    BY <1>3, <1>6, ScalarWritten
  <2>3. Len(s1.enc.buf) = p + 12
    BY <1>6, LittleFacts
  <2>4. ASSUME NEW i \in 1 .. 4
        PROVE  s2.enc.buf[p + 8 + i] = s1.enc.buf[p + 8 + i]
    <3>1. p + 8 + i \in 1 .. Len(s1.enc.buf)
      BY <1>4, <2>3
    <3> QED
      BY <2>2, <3>1 DEF Extends
  <2> QED
    BY <1>4, <1>6, <2>1, <2>2, <2>4
<1>8. WriteItems(u2, pair) = s2 /\ Closed(pair) /\ pair \in Seq(Items)
  <2>1. U32(l.value) \in Flat /\ U16(l.flags) \in Flat
    BY <1>1, U32Flat, U16Flat
  <2> DEFINE a == <<U32(l.value)>>
             b == <<U16(l.flags)>>
  <2>2. a \in Seq(Flat) /\ b \in Seq(Flat) /\ pair = a \o b
    BY <2>1
  <2>3. WriteItems(u2, a) = s1 /\ WriteItems(s1, b) = s2
    BY <2>1, SingleItem DEF s1
  <2> HIDE DEF a, b, pair
  <2>4. WriteItems(u2, pair) = s2
    BY <2>2, <2>3, TwoParts
  <2>5. pair \in Seq(Flat)
    BY <2>2, FlatTwice
  <2> QED
    BY <2>4, <2>5, FlatClosed DEF Closed
<1> HIDE DEF s2, pair
<1>9. /\ c \in LittleWriters /\ c.enc.pos = p + 14
      /\ \A i \in 1 .. 4 : c.enc.buf[p + 8 + i] = Swap(value)[i]
  <2>1. /\ c \in LittleWriters /\ c.enc.pos = s2.enc.pos
        /\ SameBut(s2.enc.buf, c.enc.buf, p + 4, p + 14)
    BY <1>4, <1>5, <1>7, <1>8, DelimitedKeeps DEF u2
  <2>2. \A i \in 1 .. 4 : p + 8 + i \in 1 .. p + 14 /\ p + 8 + i \notin p + 4 + 1 .. p + 4 + 4
    BY <1>4
  <2> QED
    BY <1>7, <2>1, <2>2 DEF SameBut
<1>10. Closed(common) /\ Closed(detail) /\ common \in Seq(Items) /\ detail \in Seq(Items)
  <2>1. detail \in Seq(Flat)
    <3>1. Raw(hash) \in Flat
      BY <1>1, BytesFlat
    <3> QED
      BY <3>1
  <2> QED
    BY <1>8, <2>1, DelimitedClosed, FlatClosed DEF Closed
<1> HIDE DEF c
<1>11. /\ v \in LittleWriters /\ v.enc.pos = p + 18
       /\ \A i \in 1 .. 4 : v.enc.buf[p + 8 + i] = Swap(value)[i]
  <2>1. v \in LittleWriters /\ v.enc.pos = c.enc.pos + 4 /\ Extends(c.enc, v.enc)
    <3>1. Len(hash) = 4
      BY DEF hash
    <3>2. \A x : x = WriteItem(c, Raw(hash)) =>
            x \in LittleWriters /\ x.enc.pos = c.enc.pos + Len(hash) /\ Extends(c.enc, x.enc)
      BY <1>1, <1>9, RawWritten
    <3> QED
      BY <3>1, <3>2
  <2>2. Len(c.enc.buf) = p + 14
    BY <1>9, LittleFacts
  <2>3. ASSUME NEW i \in 1 .. 4
        PROVE  v.enc.buf[p + 8 + i] = c.enc.buf[p + 8 + i]
    <3>1. p + 8 + i \in 1 .. Len(c.enc.buf)
      BY <1>4, <2>2
    <3> QED
      BY <2>1, <3>1 DEF Extends
  <2> QED
    BY <1>4, <1>9, <2>1, <2>3
<1>12. WriteItems(u1, common \o detail) = v /\ Closed(common \o detail)
  <2>1. WriteItems(c, detail) = v
    <3>1. Raw(hash) \in Items
      BY <1>1, BytesFlat DEF Items
    <3> QED
      BY <3>1, SingleItem
  <2> HIDE DEF common, detail, v
  <2> QED
    BY <1>10, <2>1, TwoParts, BothClosed DEF c
<1> DEFINE all == common \o detail
<1>13. r = WriteItems(w, Delimited(all))
  BY DEF MinimalEnumLiteral, CommonEnumLiteral, MinimalMemberDetail, pair, hash
<1> HIDE DEF v, all
<1>14. /\ r \in LittleWriters /\ r.starts = w.starts /\ r.enc.pos = p + 18
       /\ SameBut(v.enc.buf, r.enc.buf, p, p + 18)
  <2>1. v = WriteItems(WriteItem(w, Begin), all) /\ Closed(all)
    BY <1>12 DEF u1, all
  <2> QED
    BY <1>4, <1>11, <1>13, <2>1, DelimitedKeeps
<1>15. \A i \in 1 .. 4 : p + 8 + i \in 1 .. p + 18 /\ p + 8 + i \notin p + 1 .. p + 4
  BY <1>4
<1>16. LiteralAt(r.enc.buf, p, l)
  BY <1>11, <1>14, <1>15 DEF LiteralAt, SameBut, value
<1>17. Extends(w.enc, r.enc)
  BY EnumLiteralClosed, LittleFacts DEF Closed
<1> QED
  BY <1>4, <1>14, <1>16, <1>17

LEMMA HalfPadding ==
  ASSUME NEW q \in Nat, q % 4 = 0
  PROVE  Pad(q + 18, 4) = 2 /\ (q + 20) % 4 = 0
<1>1. (q + 18) % 4 = 2 /\ (q + 20) % 4 = 0
  BY SMT
<1> QED
  BY <1>1 DEF Pad, Cap

\* What is written behind a literal leaves it where it is.
LEMMA LiteralStays ==
  ASSUME NEW a \in LittleWriters, NEW b, Extends(a.enc, b.enc),
         NEW p \in Nat, p + 12 <= a.enc.pos, NEW l, LiteralAt(a.enc.buf, p, l)
  PROVE  LiteralAt(b.enc.buf, p, l)
<1> SUFFICES ASSUME NEW i \in 1 .. 4
             PROVE  b.enc.buf[p + 8 + i] = Swap(Word(l.value))[i]
  BY DEF LiteralAt
<1>1. a.enc.pos = Len(a.enc.buf) /\ Len(a.enc.buf) \in Nat
  BY LittleFacts
<1>2. p + 8 + i \in 1 .. Len(a.enc.buf)
  BY <1>1
<1>3. b.enc.buf[p + 8 + i] = a.enc.buf[p + 8 + i]
  BY <1>2 DEF Extends
<1> QED
  BY <1>3 DEF LiteralAt

\* Literals follow each other in steps of 20 bytes.
HashesNames(ls) == \A i \in DOMAIN ls : Len(NameHash[ls[i].name]) = 4
LiteralItems(ls) == [i \in DOMAIN ls |-> MinimalEnumLiteral(ls[i])]
EndOf(start, n) == IF n = 0 THEN start ELSE start + 20 * (n - 1) + 18

LEMMA LiteralsWritten ==
  ASSUME NEW w \in LittleWriters, NEW start \in Nat, start = w.enc.pos, start % 4 = 0,
         NEW ls \in Seq(Literals), HashesNames(ls),
         NEW r, r = WriteItems(w, FlattenSeq(LiteralItems(ls)))
  PROVE  /\ r \in LittleWriters /\ r.enc.pos = EndOf(start, Len(ls))
         /\ Closed(FlattenSeq(LiteralItems(ls)))
         /\ \A k \in 1 .. Len(ls) : LiteralAt(r.enc.buf, start + 20 * (k - 1), ls[k])
<1> DEFINE n == Len(ls)
           elems == LiteralItems(ls)
           g == CHOOSE f : Flattening(elems, n, f)
<1>1. n \in Nat /\ DOMAIN ls = 1 .. n /\ \A i \in 1 .. n : ls[i] \in Literals
  BY SequenceDomain
<1>2. Len(elems) = n /\ \A i \in 1 .. n : elems[i] = MinimalEnumLiteral(ls[i])
  BY <1>1 DEF LiteralItems
<1>3. ASSUME n = 0
      PROVE  r = w /\ Closed(FlattenSeq(elems))
  <2>1. elems = <<>>
    BY <1>1, <1>3 DEF LiteralItems
  <2>2. FlattenSeq(elems) = <<>>
    BY <1>2, <1>3, <2>1 DEF FlattenSeq
  <2> QED
    BY <2>2, NoItems, NoneClosed
<1>4. CASE n = 0
  BY <1>1, <1>3, <1>4 DEF EndOf
<1>5. CASE n # 0
  <2>1. Flattening(elems, n, g)
    BY <1>1, FlatteningExists
  <2>2. FlattenSeq(elems) = g[n]
    BY <1>2, <1>5 DEF FlattenSeq, Flattening
  <2> HIDE DEF g, elems
  <2>3. \A i \in 1 .. n : g[i] = IF i = 1 THEN elems[i] ELSE g[i - 1] \o elems[i]
    BY <2>1 DEF Flattening
  <2> DEFINE spot(k) == start + 20 * (k - 1)
             x(i) == WriteItems(w, g[i])
             Good(i) == /\ Closed(g[i]) /\ x(i) \in LittleWriters
                        /\ x(i).enc.pos = spot(i) + 18 /\ spot(i) % 4 = 0
                        /\ \A k \in 1 .. i : LiteralAt(x(i).enc.buf, spot(k), ls[k])
             T == {i \in 1 .. n : ~Good(i)}
  <2>4. Good(1)
    <3>1. g[1] = MinimalEnumLiteral(ls[1]) /\ ls[1] \in Literals /\ Len(NameHash[ls[1].name]) = 4
      BY <1>1, <1>2, <1>5, <2>3 DEF HashesNames
    <3>2. Closed(g[1])
      BY <3>1, EnumLiteralClosed
    <3>3. Pad(start, 4) = 0 /\ spot(1) = start
      BY NoPadding
    <3>4. /\ x(1) \in LittleWriters /\ x(1).enc.pos = start + 18
          /\ LiteralAt(x(1).enc.buf, start, ls[1])
      <4>1. x(1) = WriteItems(w, MinimalEnumLiteral(ls[1])) /\ start = w.enc.pos + Pad(w.enc.pos, 4)
        BY <3>1, <3>3
      <4> HIDE DEF x
      <4> QED
        BY <3>1, <4>1, LiteralWritten
    <3>5. \A k \in 1 .. 1 : k = 1
      OBVIOUS
    <3> HIDE DEF x
    <3> QED
      BY <3>2, <3>3, <3>4, <3>5
  <2>5. ASSUME NEW i \in 1 .. n, i # 1, Good(i - 1)
        PROVE  Good(i)
    <3> DEFINE a == x(i - 1)
    <3>1. i - 1 \in 1 .. n /\ i - 1 \in Nat \ {0} /\ spot(i - 1) \in Nat
      BY <1>1, <2>5
    <3>2. g[i] = g[i - 1] \o MinimalEnumLiteral(ls[i]) /\ ls[i] \in Literals
          /\ Len(NameHash[ls[i].name]) = 4
      BY <1>1, <1>2, <2>3, <2>5 DEF HashesNames
    <3>3. Closed(MinimalEnumLiteral(ls[i])) /\ Closed(g[i])
      BY <2>5, <3>2, EnumLiteralClosed, BothClosed
    <3>4. x(i) = WriteItems(a, MinimalEnumLiteral(ls[i]))
      <4>1. g[i - 1] \in Seq(Items) /\ MinimalEnumLiteral(ls[i]) \in Seq(Items)
        BY <2>5, <3>3 DEF Closed
      <4> QED
        BY <3>2, <4>1, TwoParts
    <3>5. spot(i) = spot(i - 1) + 20 /\ spot(i) % 4 = 0 /\ a.enc.pos + Pad(a.enc.pos, 4) = spot(i)
      <4> DEFINE q == spot(i - 1)
      <4>1. q \in Nat /\ q % 4 = 0 /\ a.enc.pos = q + 18
        BY <2>5, <3>1
      <4>2. spot(i) = q + 20
        BY <2>5, <3>1
      <4> HIDE DEF q, spot
      <4>3. Pad(q + 18, 4) = 2 /\ (q + 20) % 4 = 0
        BY <4>1, HalfPadding
      <4> QED
        BY <4>1, <4>2, <4>3 DEF q
    <3>6. a \in LittleWriters /\ a.enc.pos = spot(i - 1) + 18
          /\ \A k \in 1 .. i - 1 : LiteralAt(a.enc.buf, spot(k), ls[k])
      BY <2>5
    <3> HIDE DEF a, x
    <3>7. /\ x(i) \in LittleWriters /\ Extends(a.enc, x(i).enc) /\ x(i).enc.pos = spot(i) + 18
          /\ LiteralAt(x(i).enc.buf, spot(i), ls[i])
      <4>1. a \in LittleWriters
        BY <3>6
      <4> HIDE DEF spot
      <4> QED
        BY <3>2, <3>4, <3>5, <4>1, LiteralWritten
    <3>8. ASSUME NEW k \in 1 .. i
          PROVE  LiteralAt(x(i).enc.buf, spot(k), ls[k])
      <4>1. CASE k = i
        BY <3>7, <4>1
      <4>2. CASE k # i
        <5>0. i \in Nat /\ k \in Nat /\ k >= 1 /\ k <= i - 1
          BY <1>1, <4>2
        <5>1. k \in 1 .. i - 1 /\ spot(k) \in Nat /\ spot(k) + 12 <= spot(i - 1) + 18
          BY <5>0
        <5>2. LiteralAt(a.enc.buf, spot(k), ls[k])
          BY <3>6, <5>1
        <5> HIDE DEF spot
        <5> QED
          BY <3>6, <3>7, <5>1, <5>2, LiteralStays
      <4> QED
        BY <4>1, <4>2
    <3> QED
      BY <3>3, <3>5, <3>7, <3>8
  <2> HIDE DEF Good
  <2>6. T = {}
    <3> SUFFICES ASSUME T # {}
                 PROVE  FALSE
      OBVIOUS
    <3>1. PICK i \in T : \A k \in T : i <= k
      <4> HIDE DEF T
      <4>1. T \subseteq Nat
        BY <1>1 DEF T
      <4> QED
        BY <4>1, LeastExists
    <3>2. i \in 1 .. n /\ ~Good(i)
      BY <3>1
    <3>3. i # 1 /\ i - 1 \in 1 .. n /\ ~(i <= i - 1)
      BY <1>1, <2>4, <3>2
    <3>4. Good(i - 1)
      BY <3>1, <3>3
    <3> QED
      BY <2>5, <3>2, <3>3, <3>4
  <2>7. Good(n)
    BY <1>1, <1>5, <2>6
  <2>8. r = x(n)
    BY <2>2 DEF elems
  <2> QED
    BY <1>5, <2>2, <2>7, <2>8 DEF Good, EndOf, elems
<1> QED
  BY <1>4, <1>5

LEMMA Paddings ==
  /\ Pad(0, 4) = 0 /\ Pad(4, 1) = 0 /\ Pad(5, 1) = 0 /\ Pad(6, 2) = 0 /\ Pad(8, 4) = 0
  /\ Pad(12, 2) = 0 /\ Pad(14, 4) = 2 /\ Pad(20, 4) = 0 /\ 24 % 4 = 0
<1>1. Cap(4) = 4 /\ Cap(2) = 2 /\ Cap(1) = 1
  BY DEF Cap
<1>2. /\ 0 % 4 = 0 /\ 4 % 1 = 0 /\ 5 % 1 = 0 /\ 6 % 2 = 0 /\ 8 % 4 = 0
      /\ 12 % 2 = 0 /\ 14 % 4 = 2 /\ 20 % 4 = 0 /\ 24 % 4 = 0
  BY SMT
<1> QED
  BY <1>1, <1>2 DEF Pad

\* Kinds, flags and bit bound: what is in front of the literals' sequence.
EnumHead == <<U8(MINIMAL)>> \o <<U8(64), U16(1)>>
BitBound == Delimited(<<U16(32)>>)

LEMMA BytesOf ==
  /\ U8(MINIMAL) = <<"scalar", <<241>>>> /\ U8(64) = <<"scalar", <<64>>>>
  /\ U16(1) = <<"scalar", <<0, 1>>>> /\ U16(32) = <<"scalar", <<0, 32>>>>
<1>1. /\ 241 % 256 = 241 /\ 64 % 256 = 64 /\ 1 \div 256 = 0 /\ 1 % 256 = 1
      /\ 32 \div 256 = 0 /\ 32 % 256 = 32
  BY SMT
<1> QED
  BY <1>1 DEF U8, U16, MINIMAL

LEMMA ScalarThere ==
  ASSUME NEW w \in LittleWriters, NEW n \in {1, 2, 4}, Pad(w.enc.pos, n) = 0,
         NEW item, NEW b \in Seq(Byte), Len(b) = n, item = <<"scalar", b>>
  PROVE  WriteItem(w, item) \in LittleWriters /\ WriteItem(w, item).enc.pos = w.enc.pos + n
<1> DEFINE r == WriteItem(w, item)
           e == WriteScalar(w.enc, b)
<1>1. w \in Writers /\ w.enc \in Encoders /\ w.enc.pos = Len(w.enc.buf) /\ w.enc.order = LE
      /\ w.enc.pos \in Nat /\ Len(b) > 0
  BY LittleFacts
<1>2. r = Writer(e, w.starts)
  BY <1>1 DEF WriteItem, Writer, Writers
<1>3. Extends(w.enc, e) /\ e.pos = w.enc.pos + Pad(w.enc.pos, Len(b)) + Len(b)
  BY <1>1, ScalarExtends
<1>4. w.starts \in Seq(Nat)
  BY LittleFacts
<1> HIDE DEF e, r
<1>5. r \in LittleWriters
  BY <1>1, <1>2, <1>3, <1>4 DEF Writer, Writers, LittleWriters, Extends
<1>6. r.enc.pos = w.enc.pos + n
  BY <1>1, <1>2, <1>3 DEF Writer
<1> QED
  BY <1>5, <1>6 DEF r

LEMMA HeadWritten ==
  ASSUME NEW u \in LittleWriters, u.enc.pos = 4, NEW h, h = WriteItems(u, EnumHead \o BitBound)
  PROVE  h \in LittleWriters /\ h.enc.pos = 14 /\ Closed(EnumHead \o BitBound)
<1> DEFINE k1 == WriteItem(u, U8(MINIMAL))
           k2 == WriteItem(k1, U8(64))
           k3 == WriteItem(k2, U16(1))
           v1 == WriteItem(k3, Begin)
           v2 == WriteItem(v1, U16(32))
           r == WriteItems(k3, BitBound)
           b1 == <<241>>
           b2 == <<64>>
           b3 == <<0, 1>>
           b4 == <<0, 32>>
           one == <<U8(MINIMAL)>>
           two == <<U8(64), U16(1)>>
           kind == <<U8(64)>>
           flags == <<U16(1)>>
           bound == <<U16(32)>>
<1>1. /\ b1 \in Seq(Byte) /\ Len(b1) = 1 /\ b2 \in Seq(Byte) /\ Len(b2) = 1
      /\ b3 \in Seq(Byte) /\ Len(b3) = 2 /\ b4 \in Seq(Byte) /\ Len(b4) = 2
  BY DEF Byte
<1>2. /\ U8(MINIMAL) = <<"scalar", b1>> /\ U8(64) = <<"scalar", b2>>
      /\ U16(1) = <<"scalar", b3>> /\ U16(32) = <<"scalar", b4>>
  BY BytesOf
<1>3. U8(MINIMAL) \in Flat /\ U8(64) \in Flat /\ U16(1) \in Flat /\ U16(32) \in Flat
  BY U8Flat, U16Flat DEF Uint16, MINIMAL
<1>4. /\ one \in Seq(Flat) /\ kind \in Seq(Flat) /\ flags \in Seq(Flat)
      /\ two = kind \o flags /\ bound \in Seq(Flat)
  BY <1>3
<1>5. /\ WriteItems(u, one) = k1 /\ WriteItems(k1, kind) = k2
      /\ WriteItems(k2, flags) = k3 /\ WriteItems(v1, bound) = v2
  BY <1>3, SingleItem
<1> HIDE DEF b1, b2, b3, b4, k1
<1>6. k1 \in LittleWriters /\ k1.enc.pos = 5
  BY <1>1, <1>2, ScalarThere, Paddings DEF k1
<1> HIDE DEF k2
<1>7. k2 \in LittleWriters /\ k2.enc.pos = 6
  BY <1>1, <1>2, <1>6, ScalarThere, Paddings DEF k2
<1> HIDE DEF k3
<1>8. k3 \in LittleWriters /\ k3.enc.pos = 8
  BY <1>1, <1>2, <1>7, ScalarThere, Paddings DEF k3
<1> HIDE DEF v1
<1>9. v1 \in LittleWriters /\ v1.enc.pos = 12 /\ DHeaderStart(k3.enc) = 8
  BY <1>8, Begins, Paddings DEF v1
<1> HIDE DEF v2
<1>10. v2 \in LittleWriters /\ v2.enc.pos = 14
  BY <1>1, <1>2, <1>9, ScalarThere, Paddings DEF v2
<1> HIDE DEF one, two, kind, flags, bound
<1>11. WriteItems(k1, two) = k3 /\ two \in Seq(Flat)
  <2>1. WriteItems(k1, kind \o flags) = WriteItems(WriteItems(k1, kind), flags)
    BY <1>4, TwoParts
  <2> QED
    BY <1>4, <1>5, <2>1, FlatTwice
<1>12. WriteItems(u, one \o two) = k3 /\ one \o two \in Seq(Flat)
  <2>1. WriteItems(u, one \o two) = WriteItems(WriteItems(u, one), two)
    <3>1. one \in Seq(Flat) /\ two \in Seq(Flat)
      BY <1>4, <1>11
    <3> QED
      BY <3>1, TwoParts
  <2> QED
    BY <1>4, <1>5, <1>11, <2>1, FlatTwice
<1>13. Closed(one \o two) /\ Closed(bound) /\ Closed(Delimited(bound))
  BY <1>4, <1>12, FlatClosed, DelimitedClosed
<1>14. BitBound = Delimited(bound) /\ EnumHead = one \o two
  BY DEF BitBound, EnumHead, bound, one, two
<1>15. r \in LittleWriters /\ r.enc.pos = 14
  <2>1. v2 = WriteItems(WriteItem(k3, Begin), bound)
    BY <1>5 DEF v1
  <2> QED
    <3>1. r = WriteItems(k3, Delimited(bound))
      BY <1>14
    <3> HIDE DEF r, v2
    <3>2. Closed(bound) /\ k3 \in LittleWriters
      BY <1>8, <1>13
    <3>3. r \in LittleWriters /\ r.enc.pos = v2.enc.pos
      BY <2>1, <3>1, <3>2, DelimitedKeeps
    <3> QED
      BY <1>10, <3>3
<1>16. h = r
  <2>1. EnumHead \in Seq(Items) /\ BitBound \in Seq(Items)
    BY <1>13, <1>14 DEF Closed
  <2>2. WriteItems(u, EnumHead) = k3
    BY <1>12, <1>14
  <2> QED
    BY <2>1, <2>2, TwoParts
<1> HIDE DEF r
<1> QED
  BY <1>13, <1>14, <1>15, <1>16, BothClosed

\* The number of literals is in bytes 21 to 24, and the literals are behind it.
EnumObject(ls) == SerializeTypeObject(MINIMAL, MinimalEnumType(ls))
CountAt(buf, n) == \A i \in 1 .. 4 : buf[20 + i] = Swap(Word(n))[i]
LiteralsAt(buf, ls) == \A k \in 1 .. Len(ls) : LiteralAt(buf, 24 + 20 * (k - 1), ls[k])

\* Neither changes when a DHEADER in front of the count is patched.
LEMMA PatchedInFront ==
  ASSUME NEW a, NEW b, NEW start \in {0, 16}, NEW ls \in Seq(Literals), NEW n,
         NEW end \in Nat, end = EndOf(24, Len(ls)),
         SameBut(a, b, start, end), CountAt(a, n), LiteralsAt(a, ls)
  PROVE  CountAt(b, n) /\ LiteralsAt(b, ls)
<1>1. Len(ls) \in Nat
  OBVIOUS
<1>2. end >= 24 /\ \A k \in 1 .. Len(ls) : 24 + 20 * (k - 1) + 12 <= end
  BY <1>1 DEF EndOf
<1>3. \A i \in 1 .. 4 : 20 + i \in 1 .. end /\ 20 + i \notin start + 1 .. start + 4
  BY <1>2
<1>4. CountAt(b, n)
  BY <1>3 DEF CountAt, SameBut
<1>5. ASSUME NEW k \in 1 .. Len(ls)
      PROVE  LiteralAt(b, 24 + 20 * (k - 1), ls[k])
  <2> DEFINE p == 24 + 20 * (k - 1)
  <2>1. p \in Nat /\ p >= 24 /\ p + 12 <= end /\ LiteralAt(a, p, ls[k])
    BY <1>1, <1>2 DEF LiteralsAt
  <2> HIDE DEF p
  <2>2. \A i \in 1 .. 4 : p + 8 + i \in 1 .. end /\ p + 8 + i \notin start + 1 .. start + 4
    BY <2>1
  <2>3. LiteralAt(b, p, ls[k])
    BY <2>1, <2>2 DEF LiteralAt, SameBut
  <2> QED
    BY <2>3 DEF p
<1> QED
  BY <1>4, <1>5 DEF LiteralsAt

LEMMA SequenceWritten ==
  ASSUME NEW h \in LittleWriters, h.enc.pos = 14, NEW ls \in Seq(Literals), HashesNames(ls),
         NEW r, r = WriteItems(h, DelimitedSeq(LiteralItems(ls)))
  PROVE  /\ r \in LittleWriters /\ r.enc.pos = EndOf(24, Len(ls))
         /\ CountAt(r.enc.buf, Len(ls)) /\ LiteralsAt(r.enc.buf, ls)
         /\ Closed(DelimitedSeq(LiteralItems(ls)))
<1> DEFINE n == Len(ls)
           u == WriteItem(h, Begin)
           c == WriteItem(u, U32(n))
           flat == FlattenSeq(LiteralItems(ls))
           v == WriteItems(c, flat)
           count == <<U32(n)>>
           all == count \o flat
           end == EndOf(24, n)
<1>1. n \in Nat /\ Len(LiteralItems(ls)) = n
  BY DEF LiteralItems
<1>2. u \in LittleWriters /\ u.enc.pos = 20 /\ DHeaderStart(h.enc) = 16
  BY Begins, Paddings
<1>3. Word(n) \in Seq(Byte) /\ Len(Word(n)) = 4 /\ U32(n) = <<"scalar", Word(n)>> /\ U32(n) \in Flat
  BY <1>1, WordType, U32Flat DEF U32
<1> DEFINE word == Word(n)
<1> HIDE DEF u, word
<1>4. /\ c \in LittleWriters /\ c.enc.pos = 24
      /\ \A i \in 1 .. 4 : c.enc.buf[20 + i] = Swap(word)[i]
  <2>1. c = WriteItem(u, <<"scalar", word>>) /\ word \in Seq(Byte) /\ Len(word) = 4
    BY <1>3 DEF word
  <2> HIDE DEF c
  <2>2. /\ c \in LittleWriters /\ c.enc.pos = u.enc.pos + Pad(u.enc.pos, 4) + 4
        /\ \A i \in 1 .. 4 : c.enc.buf[c.enc.pos - 4 + i] = Swap(word)[i]
    BY <1>2, <2>1, ScalarWritten
  <2>3. c.enc.pos = 24 /\ c.enc.pos - 4 = 20
    BY <1>2, <2>2, Paddings
  <2> QED
    BY <2>2, <2>3
<1> HIDE DEF c, flat, v
<1>5. /\ v \in LittleWriters /\ v.enc.pos = end
      /\ LiteralsAt(v.enc.buf, ls) /\ Closed(flat)
  BY <1>4, LiteralsWritten, Paddings DEF v, flat, LiteralsAt
<1>6. Extends(c.enc, v.enc)
  BY <1>4, <1>5, LittleFacts DEF Closed, v
<1>7. CountAt(v.enc.buf, n)
  <2>1. Len(c.enc.buf) = 24
    BY <1>4, LittleFacts
  <2>2. ASSUME NEW i \in 1 .. 4
        PROVE  v.enc.buf[20 + i] = Swap(word)[i]
    <3>1. 20 + i \in 1 .. Len(c.enc.buf)
      BY <2>1
    <3>2. v.enc.buf[20 + i] = c.enc.buf[20 + i]
      BY <1>6, <3>1 DEF Extends
    <3> QED
      BY <1>4, <3>2
  <2> QED
    BY <2>2 DEF CountAt, word
<1>8. WriteItems(u, all) = v /\ Closed(all)
  <2>1. WriteItems(u, count) = c
    BY <1>3, SingleItem DEF c
  <2>2. count \in Seq(Flat)
    BY <1>3
  <2> HIDE DEF count
  <2>3. Closed(count)
    BY <2>2, FlatClosed
  <2>4. count \in Seq(Items) /\ flat \in Seq(Items)
    BY <1>5, <2>3 DEF Closed
  <2> QED
    BY <1>5, <2>1, <2>3, <2>4, TwoParts, BothClosed DEF v
<1>9. DelimitedSeq(LiteralItems(ls)) = Delimited(all)
  BY <1>1 DEF DelimitedSeq, flat
<1> HIDE DEF all
<1>10. Closed(Delimited(all))
  BY <1>8, DelimitedClosed
<1>11. /\ r \in LittleWriters /\ r.enc.pos = v.enc.pos
       /\ SameBut(v.enc.buf, r.enc.buf, 16, v.enc.pos)
  <2>1. r = WriteItems(h, Delimited(all)) /\ v = WriteItems(WriteItem(h, Begin), all)
    BY <1>8, <1>9 DEF u
  <2> QED
    BY <1>2, <1>8, <2>1, DelimitedKeeps
<1>12. end \in Nat
  BY <1>1 DEF EndOf
<1>13. CountAt(r.enc.buf, n) /\ LiteralsAt(r.enc.buf, ls)
  <2> DEFINE start == 16
             x == r.enc.buf
             y == v.enc.buf
  <2>1. SameBut(y, x, start, end)
    BY <1>5, <1>11
  <2>2. end = EndOf(24, Len(ls)) /\ start \in {0, 16} /\ CountAt(y, n) /\ LiteralsAt(y, ls)
    BY <1>5, <1>7
  <2> HIDE DEF end, n, start, x, y
  <2>3. CountAt(x, n) /\ LiteralsAt(x, ls)
    BY <1>12, <2>1, <2>2, PatchedInFront
  <2> QED
    BY <2>3 DEF x
<1> HIDE DEF end, n
<1> QED
  BY <1>5, <1>9, <1>10, <1>11, <1>13 DEF end, n

\* The values of an enum are where a peer looks for them.
LEMMA EnumObjectHolds ==
  ASSUME NEW ls \in Seq(Literals), HashesNames(ls), NEW b, b = EnumObject(ls)
  PROVE  /\ b \in Seq(Byte) /\ Len(b) = EndOf(24, Len(ls))
         /\ CountAt(b, Len(ls)) /\ LiteralsAt(b, ls)
<1> DEFINE e == NewRawEncoder(LE)
           w == Writer(e, <<>>)
           u == WriteItem(w, Begin)
           head == EnumHead \o BitBound
           seq == DelimitedSeq(LiteralItems(ls))
           all == head \o seq
           h == WriteItems(u, head)
           v == WriteItems(h, seq)
           r == WriteItems(w, Delimited(all))
<1>1. w \in LittleWriters /\ w.enc.pos = 0
  BY DEF NewRawEncoder, Encoders, ByteOrders, Writer, Writers, LittleWriters
<1> HIDE DEF w
<1>2. u \in LittleWriters /\ u.enc.pos = 4 /\ DHeaderStart(w.enc) = 0
  BY <1>1, Begins, Paddings
<1> HIDE DEF u, head, seq
<1>3. h \in LittleWriters /\ h.enc.pos = 14 /\ Closed(head)
  BY <1>2, HeadWritten DEF head
<1> HIDE DEF h
<1>4. /\ v \in LittleWriters /\ v.enc.pos = EndOf(24, Len(ls))
      /\ CountAt(v.enc.buf, Len(ls)) /\ LiteralsAt(v.enc.buf, ls) /\ Closed(seq)
  BY <1>3, SequenceWritten DEF seq
<1>5. WriteItems(u, all) = v /\ Closed(all)
  <2>1. head \in Seq(Items) /\ seq \in Seq(Items)
    BY <1>3, <1>4 DEF Closed
  <2> QED
    BY <1>3, <1>4, <2>1, TwoParts, BothClosed DEF h
<1>6. /\ r \in LittleWriters /\ r.enc.pos = v.enc.pos
      /\ SameBut(v.enc.buf, r.enc.buf, 0, v.enc.pos)
  <2> HIDE DEF all, v
  <2> QED
    BY <1>1, <1>2, <1>5, DelimitedKeeps DEF u
<1>7. b = r.enc.buf
  <2>1. b = WriteItems(w, Delimited(<<U8(MINIMAL)>> \o MinimalEnumType(ls))).enc.buf
    BY DEF EnumObject, SerializeTypeObject, Serialize, w, e
  <2>2. MinimalEnumType(ls) = (<<U8(64), U16(1)>> \o BitBound) \o seq
    BY DEF MinimalEnumType, Members, BitBound, seq, LiteralItems
  <2>3. <<U8(MINIMAL)>> \o MinimalEnumType(ls) = all
    <3> DEFINE one == <<U8(MINIMAL)>>
               two == <<U8(64), U16(1)>>
    <3>1. one \in Seq(Items) /\ two \in Seq(Items)
      <4>1. U8(MINIMAL) \in Items /\ U8(64) \in Items /\ U16(1) \in Items
        BY U8Flat, U16Flat DEF Uint16, MINIMAL, Items
      <4> QED
        BY <4>1
    <3>2. BitBound \in Seq(Items) /\ seq \in Seq(Items)
      <4>1. Closed(BitBound)
        <5>1. 32 \in Uint16 /\ 32 \in Int
          BY DEF Uint16
        <5> QED
          BY <5>1, PairsFlat, FlatClosed, DelimitedClosed DEF BitBound
      <4> QED
        BY <1>4, <4>1 DEF Closed
    <3> HIDE DEF one, two
    <3>3. one \o ((two \o BitBound) \o seq) = ((one \o two) \o BitBound) \o seq
      BY <3>1, <3>2
    <3> QED
      BY <2>2, <3>3 DEF one, two, head, EnumHead
  <2> QED
    BY <2>1, <2>3
<1>8. Len(ls) \in Nat
  OBVIOUS
<1>9. CountAt(r.enc.buf, Len(ls)) /\ LiteralsAt(r.enc.buf, ls)
  <2> DEFINE end == v.enc.pos
  <2>1. end \in Nat /\ end = EndOf(24, Len(ls))
    BY <1>4, <1>8 DEF EndOf
  <2>2. SameBut(v.enc.buf, r.enc.buf, 0, end)
    BY <1>6
  <2> HIDE DEF r, v, end
  <2> QED
    BY <1>4, <2>1, <2>2, PatchedInFront
<1> QED
  BY <1>4, <1>6, <1>7, <1>9, LittleFacts

-----------------------------------------------------------------------------
(***************************************************************************)
(* Reading fields                                                          *)
(***************************************************************************)
\* f holds what is read with the first widths.
Readings(d, widths, f) ==
  f = [i \in 0 .. Len(widths) |->
         IF i = 0 THEN [d |-> d, v |-> <<>>] ELSE NextField(f[i - 1], widths[i])]

LEMMA ReadingsAre ==
  ASSUME NEW d, NEW widths, Len(widths) \in Nat, NEW f, Readings(d, widths, f)
  PROVE  Fields(d, widths) = f[Len(widths)]
<1> DEFINE n == Len(widths)
           g == CHOOSE h : Readings(d, widths, h)
           T == {i \in 0 .. n : f[i] # g[i]}
<1>1. Readings(d, widths, g)
  OBVIOUS
<1>2. Fields(d, widths) = g[n]
  BY DEF Fields, Readings
<1> HIDE DEF g
<1>3. T = {}
  <2> SUFFICES ASSUME T # {}
               PROVE  FALSE
    OBVIOUS
  <2>1. PICK i \in T : \A k \in T : i <= k
    <3> HIDE DEF T
    <3>1. T \subseteq Nat
      BY DEF T
    <3> QED
      BY <3>1, LeastExists
  <2>2. i \in 0 .. n /\ f[i] # g[i]
    BY <2>1
  <2>3. /\ f[i] = IF i = 0 THEN [d |-> d, v |-> <<>>] ELSE NextField(f[i - 1], widths[i])
        /\ g[i] = IF i = 0 THEN [d |-> d, v |-> <<>>] ELSE NextField(g[i - 1], widths[i])
    BY <1>1, <2>2 DEF Readings
  <2>4. i # 0 /\ f[i - 1] # g[i - 1]
    BY <2>2, <2>3
  <2>5. i - 1 \in T /\ ~(i <= i - 1)
    BY <2>2, <2>4
  <2> QED
    BY <2>1, <2>5
<1>4. n \in 0 .. n
  OBVIOUS
<1> QED
  BY <1>2, <1>3, <1>4

\* A scalar, or bytes as they are, that end at q.
FoundAt(data, w, q) == IF w > 0 THEN Swap(Slice(data, q - w, q)) ELSE Slice(data, q + w, q)

\* Where a field of width w ends behind p.
EndBehind(p, w) == IF w > 0 THEN p + Pad(p, w) + w ELSE p - w

LEMMA Opposite ==
  ASSUME NEW w \in Int
  PROVE  -w = 0 - w
OBVIOUS

LEMMA WidthRead ==
  ASSUME NEW data \in Seq(Byte), NEW p \in Nat, NEW w \in {-4, 1, 2, 4},
         NEW q \in Nat, q = EndBehind(p, w), q <= Len(data),
         NEW d, d = [data |-> data, pos |-> p, order |-> LE]
  PROVE  /\ ReadWidth(d, w).d = At(d, q) /\ ReadWidth(d, w).v = FoundAt(data, w, q)
         /\ FoundAt(data, w, q) \in Seq(Byte)
<1>1. d \in Decoders
  BY DEF Decoders, ByteOrders
<1>2. CASE w \in {1, 2, 4}
  <2> DEFINE spot == p + Pad(p, w)
             r == ReadScalar(d, w)
  <2>1. w > 0 /\ w \in Nat \ {0}
    BY <1>2
  <2>2. spot \in Nat /\ q = spot + w
    BY <1>1, <1>2, <2>1, ScalarFound, PadType DEF EndBehind
  <2>3. w \in {1, 2, 4, 8}
    BY <1>2
  <2>4. (r.ok <=> spot + w <= Len(data))
        /\ (r.ok => r.d = At(d, spot + w) /\ r.v = Get(LE, Slice(data, spot, spot + w)))
    BY <1>1, <2>3, ScalarFound
  <2>5. r.d = At(d, q) /\ r.v = Get(LE, Slice(data, spot, q))
    BY <2>2, <2>4
  <2>6. spot = q - w
    BY <2>1, <2>2
  <2>7. Slice(data, spot, q) \in Seq(Byte)
    BY <2>1, <2>2, SliceType
  <2> HIDE DEF spot, r
  <2> QED
    BY <2>1, <2>5, <2>6, <2>7, SwapType DEF ReadWidth, FoundAt, Get, LE, BE, r
<1>3. CASE w = -4
  <2>0. -w = 4
    <3>1. w \in Int /\ 0 - w = 4
      BY <1>3
    <3>2. -w = 0 - w
      BY <3>1, Opposite
    <3> QED
      BY <3>1, <3>2
  <2>1. ~(w > 0) /\ q = p + 4 /\ -w = 4 /\ q + w = p
    <3>1. ~(w > 0)
      BY <1>3
    <3>2. q = p - w
      BY <3>1 DEF EndBehind
    <3> QED
      BY <1>3, <2>0, <3>1, <3>2
  <2>2. ReadWidth(d, w) = Got(Past(d, 4), Slice(data, p, p + 4))
    BY <2>1 DEF ReadWidth, ReadBytes, CheckRemaining
  <2>3. Slice(data, p, p + 4) \in Seq(Byte)
    BY <2>1, SliceType
  <2> QED
    BY <2>1, <2>2, <2>3 DEF FoundAt, Got, Past, At
<1> QED
  BY <1>2, <1>3

\* One more in a sequence that is given by its elements.
LEMMA OneMore ==
  ASSUME NEW S, NEW n \in Nat, NEW x, \A j \in 1 .. n + 1 : x[j] \in S
  PROVE  Append([j \in 1 .. n |-> x[j]], x[n + 1]) = [j \in 1 .. n + 1 |-> x[j]]
OBVIOUS

\* Fields end where their widths lead to, if that is in the data.
Widths == {-4, 1, 2, 4}
Leads(p, widths, data) ==
  /\ p \in [0 .. Len(widths) -> Nat]
  /\ \A i \in 1 .. Len(widths) : p[i] = EndBehind(p[i - 1], widths[i]) /\ p[i] <= Len(data)
Found(data, widths, p) ==
  [i \in 1 .. Len(widths) |-> [bytes |-> FoundAt(data, widths[i], p[i]), end |-> p[i]]]

LEMMA FieldsFound ==
  ASSUME NEW data \in Seq(Byte), NEW widths \in Seq(Widths), NEW p, Leads(p, widths, data),
         NEW d, d = [data |-> data, pos |-> p[0], order |-> LE]
  PROVE  Fields(d, widths) = [d |-> At(d, p[Len(widths)]), v |-> Found(data, widths, p)]
<1> DEFINE n == Len(widths)
           x == Found(data, widths, p)
           f == [i \in 0 .. n |-> [d |-> At(d, p[i]), v |-> [j \in 1 .. i |-> x[j]]]]
           S == [bytes : Seq(Byte), end : Nat]
<1>1. n \in Nat /\ \A i \in 1 .. n : widths[i] \in Widths
  BY SequenceDomain
<1>2. p \in [0 .. n -> Nat]
      /\ \A i \in 1 .. n : p[i] = EndBehind(p[i - 1], widths[i]) /\ p[i] <= Len(data)
  BY DEF Leads
<1>3. ASSUME NEW i \in 1 .. n
      PROVE  LET a == At(d, p[i - 1])
             IN  /\ ReadWidth(a, widths[i]).d = At(d, p[i])
                 /\ [bytes |-> ReadWidth(a, widths[i]).v, end |-> p[i]] = x[i]
                 /\ x[i] \in S
  <2> DEFINE a == At(d, p[i - 1])
             w == widths[i]
             r == ReadWidth(a, w)
             b == FoundAt(data, w, p[i])
  <2>1. a = [data |-> data, pos |-> p[i - 1], order |-> LE] /\ At(a, p[i]) = At(d, p[i])
    BY DEF At
  <2>2. i - 1 \in 0 .. n /\ i \in 0 .. n /\ p[i - 1] \in Nat /\ p[i] \in Nat /\ w \in {-4, 1, 2, 4}
    BY <1>1, <1>2 DEF Widths
  <2>3. p[i] = EndBehind(p[i - 1], w) /\ p[i] <= Len(data)
    BY <1>2
  <2>4. x[i] = [bytes |-> b, end |-> p[i]]
    BY DEF Found
  <2> HIDE DEF a, w, x
  <2>5. r.d = At(a, p[i]) /\ r.v = b /\ b \in Seq(Byte)
    BY <2>1, <2>2, <2>3, WidthRead
  <2> HIDE DEF r, b
  <2>6. r.d = At(d, p[i]) /\ [bytes |-> r.v, end |-> p[i]] = x[i] /\ x[i] \in S
    BY <2>1, <2>2, <2>4, <2>5
  <2> QED
    BY <2>6 DEF a, w, r
<1> HIDE DEF x
<1>4. ASSUME NEW i \in 0 .. n
      PROVE  f[i] = IF i = 0 THEN [d |-> d, v |-> <<>>] ELSE NextField(f[i - 1], widths[i])
  <2>1. CASE i = 0
    <3>1. At(d, p[0]) = d
      BY DEF At
    <3>2. [j \in 1 .. 0 |-> x[j]] = <<>>
      OBVIOUS
    <3>3. f[0] = [d |-> At(d, p[0]), v |-> [j \in 1 .. 0 |-> x[j]]]
      BY <1>1
    <3> QED
      BY <2>1, <3>1, <3>2, <3>3
  <2>2. CASE i # 0
    <3> DEFINE a == At(d, p[i - 1])
               r == ReadWidth(a, widths[i])
               before == [j \in 1 .. i - 1 |-> x[j]]
    <3>1. i \in 1 .. n /\ i - 1 \in 0 .. n /\ i - 1 \in Nat /\ (i - 1) + 1 = i
      BY <1>1, <2>2
    <3>2. f[i - 1] = [d |-> a, v |-> before]
      BY <3>1
    <3>3. f[i] = [d |-> At(d, p[i]), v |-> [j \in 1 .. i |-> x[j]]]
      OBVIOUS
    <3> HIDE DEF f, before, a, S
    <3>4. NextField(f[i - 1], widths[i]) =
            [d |-> r.d, v |-> Append(before, [bytes |-> r.v, end |-> r.d.pos])]
      <4>1. NextField([d |-> a, v |-> before], widths[i]) =
              [d |-> r.d, v |-> Append(before, [bytes |-> r.v, end |-> r.d.pos])]
        BY DEF NextField, Field
      <4> QED
        BY <3>2, <4>1
    <3>5. r.d = At(d, p[i]) /\ [bytes |-> r.v, end |-> p[i]] = x[i]
      BY <1>3, <3>1 DEF a
    <3>6. r.d.pos = p[i]
      BY <3>5 DEF At
    <3>7. Append(before, x[i]) = [j \in 1 .. i |-> x[j]]
      <4>1. \A j \in 1 .. (i - 1) + 1 : x[j] \in S
        <5>1. \A j \in 1 .. i : j \in 1 .. n
          BY <3>1
        <5> QED
          BY <1>3, <3>1, <5>1
      <4> DEFINE m == i - 1
      <4>2. m \in Nat /\ m + 1 = i
        BY <3>1
      <4> HIDE DEF m
      <4>3. Append([j \in 1 .. m |-> x[j]], x[m + 1]) = [j \in 1 .. m + 1 |-> x[j]]
        BY <4>1, <4>2, OneMore DEF m
      <4> QED
        BY <4>2, <4>3 DEF before, m
    <3> QED
      BY <2>2, <3>3, <3>4, <3>5, <3>6, <3>7
  <2> QED
    BY <2>1, <2>2
<1>5. f = [i \in 0 .. n |-> f[i]]
  OBVIOUS
<1>6. f[n] = [d |-> At(d, p[n]), v |-> x]
  <2>1. x = [j \in 1 .. n |-> x[j]]
    BY DEF x, Found
  <2> QED
    BY <1>1, <2>1
<1> HIDE DEF f
<1>7. Readings(d, widths, f)
  BY <1>4, <1>5 DEF Readings
<1> QED
  BY <1>1, <1>6, <1>7, ReadingsAre DEF x

LEMMA SliceIs ==
  ASSUME NEW data \in Seq(Byte), NEW q \in Nat, q + 4 <= Len(data),
         NEW w \in Seq(Byte), Len(w) = 4, \A i \in 1 .. 4 : data[q + i] = w[i]
  PROVE  Slice(data, q, q + 4) = w
<1> DEFINE s == Slice(data, q, q + 4)
<1>1. s \in Seq(Byte) /\ Len(s) = 4
  <2> DEFINE n == 4
  <2>1. n \in Nat /\ q + n <= Len(data)
    OBVIOUS
  <2> HIDE DEF n
  <2>2. Slice(data, q, q + n) \in Seq(Byte) /\ Len(Slice(data, q, q + n)) = n
    BY <2>1, SliceType
  <2> QED
    BY <2>2 DEF n
<1>2. \A i \in 1 .. 4 : s[i] = data[q + i]
  BY DEF Slice
<1> HIDE DEF s
<1>3. s = w
  BY <1>1, <1>2, SeqEqual
<1> QED
  BY <1>3 DEF s

\* A little-endian word that ends at q.
LEMMA WordFound ==
  ASSUME NEW data \in Seq(Byte), NEW q \in Nat, q + 4 <= Len(data), NEW n \in Int,
         \A i \in 1 .. 4 : data[q + i] = Swap(Word(n))[i]
  PROVE  FoundAt(data, 4, q + 4) = Word(n)
<1> DEFINE w == Swap(Word(n))
<1>1. w \in Seq(Byte) /\ Len(w) = 4 /\ Swap(w) = Word(n)
  BY WordType, SwapType
<1> HIDE DEF w
<1>2. Slice(data, q, q + 4) = w
  BY <1>1, SliceIs DEF w
<1>3. (q + 4) - 4 = q
  OBVIOUS
<1> QED
  BY <1>1, <1>2, <1>3 DEF FoundAt

\* Where the fields in front of the literals end.
HeadEnds == [i \in 0 .. 8 |-> IF i = 0 THEN 0 ELSE <<4, 5, 6, 8, 12, 14, 20, 24>>[i]]

LEMMA HeadLeads ==
  ASSUME NEW data \in Seq(Byte), 24 <= Len(data)
  PROVE  EnumWidths \in Seq(Widths) /\ Len(EnumWidths) = 8 /\ Leads(HeadEnds, EnumWidths, data)
<1>1. EnumWidths \in Seq(Widths) /\ Len(EnumWidths) = 8
  BY DEF EnumWidths, Widths
<1>2. HeadEnds \in [0 .. 8 -> Nat]
  <2>1. \A i \in 0 .. 8 : i = 0 \/ i = 1 \/ i = 2 \/ i = 3 \/ i = 4 \/ i = 5 \/ i = 6 \/ i = 7 \/ i = 8
    OBVIOUS
  <2> QED
    BY <2>1 DEF HeadEnds
<1>3. /\ HeadEnds[0] = 0 /\ HeadEnds[1] = 4 /\ HeadEnds[2] = 5 /\ HeadEnds[3] = 6
      /\ HeadEnds[4] = 8 /\ HeadEnds[5] = 12 /\ HeadEnds[6] = 14 /\ HeadEnds[7] = 20
      /\ HeadEnds[8] = 24
  BY DEF HeadEnds
<1>4. /\ EnumWidths[1] = 4 /\ EnumWidths[2] = 1 /\ EnumWidths[3] = 1 /\ EnumWidths[4] = 2
      /\ EnumWidths[5] = 4 /\ EnumWidths[6] = 2 /\ EnumWidths[7] = 4 /\ EnumWidths[8] = 4
  BY DEF EnumWidths
<1>5. /\ EndBehind(0, 4) = 4 /\ EndBehind(4, 1) = 5 /\ EndBehind(5, 1) = 6 /\ EndBehind(6, 2) = 8
      /\ EndBehind(8, 4) = 12 /\ EndBehind(12, 2) = 14 /\ EndBehind(14, 4) = 20
      /\ EndBehind(20, 4) = 24
  BY Paddings DEF EndBehind
<1>6. ASSUME NEW i \in 1 .. 8
      PROVE  HeadEnds[i] = EndBehind(HeadEnds[i - 1], EnumWidths[i]) /\ HeadEnds[i] <= Len(data)
  <2>1. i = 1 \/ i = 2 \/ i = 3 \/ i = 4 \/ i = 5 \/ i = 6 \/ i = 7 \/ i = 8
    OBVIOUS
  <2> DEFINE from == HeadEnds[i - 1]
             to == HeadEnds[i]
             w == EnumWidths[i]
  <2>2. \/ from = 0 /\ to = 4 /\ w = 4
        \/ from = 4 /\ to = 5 /\ w = 1
        \/ from = 5 /\ to = 6 /\ w = 1
        \/ from = 6 /\ to = 8 /\ w = 2
        \/ from = 8 /\ to = 12 /\ w = 4
        \/ from = 12 /\ to = 14 /\ w = 2
        \/ from = 14 /\ to = 20 /\ w = 4
        \/ from = 20 /\ to = 24 /\ w = 4
    BY <1>3, <1>4, <2>1
  <2> HIDE DEF from, to, w
  <2>3. to = EndBehind(from, w)
    BY <1>5, <2>2, Zenon
  <2>4. to \in Nat /\ to <= 24
    BY <2>2
  <2>5. Len(data) \in Nat
    OBVIOUS
  <2>6. to <= Len(data)
    BY <2>4, <2>5
  <2> QED
    BY <2>3, <2>6 DEF from, to, w
<1> QED
  BY <1>1, <1>2, <1>6 DEF Leads

LEMMA HeadRead ==
  ASSUME NEW data \in Seq(Byte), 24 <= Len(data), NEW n \in Uint32, CountAt(data, n),
         NEW h, h = Fields(NewRawDecoder(data, LE), EnumWidths)
  PROVE  h.d = [data |-> data, pos |-> 24, order |-> LE] /\ Num(Last(h.v).bytes) = n
<1> DEFINE d == NewRawDecoder(data, LE)
           x == Found(data, EnumWidths, HeadEnds)
<1>1. HeadEnds[0] = 0 /\ HeadEnds[8] = 24 /\ EnumWidths[8] = 4
  BY DEF HeadEnds, EnumWidths
<1>2. d = [data |-> data, pos |-> HeadEnds[0], order |-> LE]
  BY <1>1 DEF NewRawDecoder
<1>3. EnumWidths \in Seq(Widths) /\ Len(EnumWidths) = 8 /\ Leads(HeadEnds, EnumWidths, data)
  BY HeadLeads
<1> HIDE DEF d
<1>4. h = [d |-> At(d, 24), v |-> x]
  BY <1>1, <1>2, <1>3, FieldsFound DEF d
<1>5. At(d, 24) = [data |-> data, pos |-> 24, order |-> LE]
  BY <1>2 DEF At
<1>6. Last(x) = [bytes |-> FoundAt(data, 4, 24), end |-> 24]
  <2>1. x = [i \in 1 .. 8 |-> [bytes |-> FoundAt(data, EnumWidths[i], HeadEnds[i]), end |-> HeadEnds[i]]]
    BY <1>3 DEF Found
  <2> HIDE DEF x
  <2>2. Len(x) = 8 /\ x[8] = [bytes |-> FoundAt(data, 4, 24), end |-> 24]
    BY <1>1, <2>1
  <2> QED
    BY <2>2 DEF Last
<1>7. FoundAt(data, 4, 24) = Word(n)
  <2>1. n \in Int /\ 20 \in Nat /\ 20 + 4 = 24
    BY DEF Uint32
  <2> DEFINE q == 20
  <2>2. q \in Nat /\ q + 4 = 24 /\ q + 4 <= Len(data) /\ \A i \in 1 .. 4 : data[q + i] = Swap(Word(n))[i]
    BY <2>1 DEF CountAt
  <2> HIDE DEF q
  <2> QED
    BY <2>1, <2>2, WordFound
<1> QED
  BY <1>4, <1>5, <1>6, <1>7, NumOfWord

-----------------------------------------------------------------------------
(***************************************************************************)
(* Reading literals                                                        *)
(***************************************************************************)
\* Field i of the literals is field s + 1 of literal q + 1.
IsField(i, q, s) == i = 5 * q + s + 1

LEMMA FieldOf ==
  ASSUME NEW n \in Nat, NEW i \in 1 .. 5 * n
  PROVE  \E q \in 0 .. n - 1, s \in 0 .. 4 :
           IsField(i, q, s)
<1> DEFINE q == (i - 1) \div 5
           s == (i - 1) % 5
<1>1. i - 1 = 5 * q + s /\ s \in 0 .. 4 /\ q \in Int
  BY SMT
<1> HIDE DEF q, s
<1>2. q \in 0 .. n - 1
  BY <1>1
<1>3. i = 5 * q + s + 1
  BY <1>1
<1> QED
  BY <1>1, <1>2, <1>3 DEF IsField

LEMMA PlaceOf ==
  ASSUME NEW q \in Nat, NEW s \in 0 .. 4, NEW i, IsField(i, q, s)
  PROVE  (i - 1) \div 5 = q /\ (i - 1) % 5 = s
BY SMT DEF IsField

LiteralEnd(q, s) == 24 + 20 * q + <<4, 8, 12, 14, 18>>[s + 1]
LiteralEnds(n) ==
  [i \in 0 .. 5 * n |-> IF i = 0 THEN 24 ELSE LiteralEnd((i - 1) \div 5, (i - 1) % 5)]

\* A field ends behind the one in front of it, a literal's first behind the
\* literal before.
LEMMA FieldBehind ==
  ASSUME NEW q \in Nat
  PROVE  /\ EndBehind(24 + 20 * q, 4) = LiteralEnd(q, 0)
         /\ EndBehind(LiteralEnd(q, 4), 4) = LiteralEnd(q + 1, 0)
         /\ EndBehind(LiteralEnd(q, 0), 4) = LiteralEnd(q, 1)
         /\ EndBehind(LiteralEnd(q, 1), 4) = LiteralEnd(q, 2)
         /\ EndBehind(LiteralEnd(q, 2), 2) = LiteralEnd(q, 3)
         /\ EndBehind(LiteralEnd(q, 3), -4) = LiteralEnd(q, 4)
<1> DEFINE p == 24 + 20 * q
<1>1. p \in Nat /\ p % 4 = 0 /\ 24 + 20 * (q + 1) = p + 20
  BY SMT
<1>2. /\ LiteralEnd(q, 0) = p + 4 /\ LiteralEnd(q, 1) = p + 8 /\ LiteralEnd(q, 2) = p + 12
      /\ LiteralEnd(q, 3) = p + 14 /\ LiteralEnd(q, 4) = p + 18
      /\ LiteralEnd(q + 1, 0) = p + 24
  BY <1>1 DEF LiteralEnd
<1> HIDE DEF p
<1>3. /\ Pad(p, 4) = 0 /\ Pad(p + 4, 4) = 0 /\ Pad(p + 8, 4) = 0 /\ Pad(p + 12, 2) = 0
      /\ Pad(p + 18, 4) = 2
  <2>1. (p + 4) % 4 = 0 /\ (p + 8) % 4 = 0 /\ (p + 12) % 4 = 0
    BY <1>1, NoPadding
  <2>2. p + 4 \in Nat /\ p + 8 \in Nat /\ p + 12 \in Nat
    BY <1>1
  <2> QED
    BY <1>1, <2>1, <2>2, NoPadding, HalfPadding
<1>4. /\ EndBehind(p, 4) = p + 4 /\ EndBehind(p + 4, 4) = p + 8 /\ EndBehind(p + 8, 4) = p + 12
      /\ EndBehind(p + 12, 2) = p + 14 /\ EndBehind(p + 18, 4) = p + 24
  BY <1>1, <1>3 DEF EndBehind
<1>5. EndBehind(p + 14, -4) = p + 18
  <2> DEFINE w == -4
  <2>1. ~(w > 0) /\ (p + 14) - w = p + 18
    BY <1>1
  <2> HIDE DEF w
  <2> QED
    BY <2>1 DEF EndBehind, w
<1> QED
  BY <1>2, <1>4, <1>5 DEF p

LEMMA LiteralsLead ==
  ASSUME NEW data \in Seq(Byte), NEW n \in Nat, Len(data) = EndOf(24, n)
  PROVE  /\ WidthsOf(n) \in Seq(Widths) /\ Len(WidthsOf(n)) = 5 * n
         /\ Leads(LiteralEnds(n), WidthsOf(n), data)
<1> DEFINE ws == WidthsOf(n)
           p == LiteralEnds(n)
           m == 5 * n
<1>1. m \in Nat
  OBVIOUS
<1>2. ASSUME NEW q \in 0 .. n - 1, NEW s \in 0 .. 4, NEW i \in 1 .. m, IsField(i, q, s)
      PROVE  ws[i] = LiteralWidths[1 + s] /\ p[i] = LiteralEnd(q, s) /\ i \in 0 .. m
  <2>1. (i - 1) \div 5 = q /\ (i - 1) % 5 = s /\ i # 0 /\ i \in 0 .. m
    <3>1. q \in Nat /\ i # 0 /\ i \in 0 .. m
      OBVIOUS
    <3> QED
      BY <1>2, <3>1, PlaceOf
  <2> QED
    BY <2>1 DEF WidthsOf, LiteralEnds
<1>3. p[0] = 24
  BY <1>1 DEF LiteralEnds
<1>4. /\ LiteralWidths[1] = 4 /\ LiteralWidths[2] = 4 /\ LiteralWidths[3] = 4
      /\ LiteralWidths[4] = 2 /\ LiteralWidths[5] = -4
  BY DEF LiteralWidths
<1>5. \A s \in 0 .. 4 : s = 0 \/ s = 1 \/ s = 2 \/ s = 3 \/ s = 4
  OBVIOUS
<1>6. \A s \in 0 .. 4 : LiteralWidths[1 + s] \in Widths
  BY <1>4, <1>5 DEF Widths
<1>7. ws \in Seq(Widths) /\ Len(ws) = m
  <2>1. ASSUME NEW i \in 1 .. m
        PROVE  LiteralWidths[1 + ((i - 1) % 5)] \in Widths
    <3>1. (i - 1) % 5 \in 0 .. 4
      BY SMT
    <3> QED
      BY <1>6, <3>1
  <2>2. ws \in [1 .. m -> Widths]
    BY <2>1 DEF WidthsOf
  <2> HIDE DEF ws
  <2> QED
    BY <1>1, <2>2
<1>8. \A q \in Nat, s \in 0 .. 4 : LiteralEnd(q, s) \in Nat /\ LiteralEnd(q, s) <= 24 + 20 * q + 18
  BY <1>5 DEF LiteralEnd
<1> HIDE DEF m
<1>9. ASSUME NEW i \in 1 .. m
      PROVE  p[i] = EndBehind(p[i - 1], ws[i]) /\ p[i] <= Len(data) /\ p[i] \in Nat
  <2>1. PICK q \in 0 .. n - 1, s \in 0 .. 4 : IsField(i, q, s)
    BY FieldOf DEF m
  <2>2. ws[i] = LiteralWidths[1 + s] /\ p[i] = LiteralEnd(q, s) /\ q \in Nat
    BY <1>2, <2>1
  <2> HIDE DEF ws, p
  <2>3. p[i] \in Nat /\ p[i] <= Len(data)
    <3>1. n # 0 /\ 24 + 20 * q + 18 <= Len(data)
      BY <2>1 DEF EndOf
    <3>2. LiteralEnd(q, s) \in Nat /\ LiteralEnd(q, s) <= 24 + 20 * q + 18
      BY <1>8, <2>2
    <3> DEFINE e == LiteralEnd(q, s)
    <3>3. p[i] = e /\ e \in Nat /\ e <= 24 + 20 * q + 18
      BY <2>2, <3>2
    <3> HIDE DEF e
    <3> QED
      BY <2>2, <3>1, <3>3
  <2>4. CASE s # 0
    <3> DEFINE k == s - 1
               j == i - 1
    <3>1. k \in 0 .. 4 /\ j \in 1 .. m /\ IsField(j, q, k)
      BY <2>1, <2>4 DEF IsField, m
    <3> HIDE DEF j
    <3>2. p[j] = LiteralEnd(q, k)
      BY <1>2, <3>1
    <3>3. \/ s = 1 /\ k = 0 /\ LiteralWidths[1 + s] = 4
          \/ s = 2 /\ k = 1 /\ LiteralWidths[1 + s] = 4
          \/ s = 3 /\ k = 2 /\ LiteralWidths[1 + s] = 2
          \/ s = 4 /\ k = 3 /\ LiteralWidths[1 + s] = -4
      <4>1. s = 1 \/ s = 2 \/ s = 3 \/ s = 4
        BY <2>4
      <4> QED
        BY <1>4, <4>1
    <3> HIDE DEF k
    <3>4. /\ EndBehind(LiteralEnd(q, 0), 4) = LiteralEnd(q, 1)
          /\ EndBehind(LiteralEnd(q, 1), 4) = LiteralEnd(q, 2)
          /\ EndBehind(LiteralEnd(q, 2), 2) = LiteralEnd(q, 3)
          /\ EndBehind(LiteralEnd(q, 3), -4) = LiteralEnd(q, 4)
      BY <2>2, FieldBehind
    <3>5. EndBehind(LiteralEnd(q, k), LiteralWidths[1 + s]) = LiteralEnd(q, s)
      BY <3>3, <3>4, Zenon
    <3>6. p[i] = EndBehind(p[j], ws[i])
      BY <2>2, <3>2, <3>5
    <3> QED
      BY <2>3, <3>6 DEF j
  <2>5. CASE s = 0 /\ q # 0
    <3> DEFINE k == q - 1
               j == i - 1
    <3>1. k \in 0 .. n - 1 /\ k \in Nat /\ k + 1 = q /\ 4 \in 0 .. 4
          /\ j \in 1 .. m /\ IsField(j, k, 4)
      BY <2>1, <2>5 DEF IsField, m
    <3> HIDE DEF k, j
    <3>2. p[j] = LiteralEnd(k, 4)
      BY <1>2, <3>1
    <3>3. ws[i] = 4 /\ p[i] = LiteralEnd(k + 1, 0)
      BY <1>4, <2>2, <2>5, <3>1
    <3>4. p[i] = EndBehind(p[j], ws[i])
      BY <3>1, <3>2, <3>3, FieldBehind
    <3> QED
      BY <2>3, <3>4 DEF j
  <2>6. CASE s = 0 /\ q = 0
    <3>1. i - 1 = 0 /\ ws[i] = 4 /\ p[i] = LiteralEnd(0, 0)
      BY <1>4, <2>1, <2>2, <2>6 DEF IsField
    <3>2. EndBehind(24 + 20 * 0, 4) = LiteralEnd(0, 0) /\ 24 + 20 * 0 = 24
      BY FieldBehind
    <3> QED
      BY <1>3, <2>3, <3>1, <3>2
  <2> QED
    BY <2>4, <2>5, <2>6
<1>10. p \in [0 .. m -> Nat]
  <2>1. p = [i \in 0 .. m |-> p[i]]
    BY DEF LiteralEnds, m
  <2>2. \A i \in 0 .. m : i = 0 \/ i \in 1 .. m
    BY <1>1
  <2> HIDE DEF p
  <2>3. \A i \in 0 .. m : p[i] \in Nat
    BY <1>3, <1>9, <2>2
  <2> QED
    BY <2>1, <2>3, Zenon
<1> HIDE DEF ws, p, m
<1>11. Leads(p, ws, data)
  BY <1>7, <1>9, <1>10 DEF Leads
<1> QED
  BY <1>7, <1>11 DEF ws, p, m

\* What a peer reads from an enum's minimal object are its literals' values.
LEMMA EnumRead ==
  ASSUME NEW ls \in Seq(Literals), HashesNames(ls), Len(ls) \in Uint32,
         NEW b, b = EnumObject(ls), NEW read, read = ReadEnumLiterals(b)
  PROVE  Len(read) = Len(ls) /\ \A k \in 1 .. Len(ls) : read[k] = Word(ls[k].value)
<1> DEFINE n == Len(ls)
           h == Fields(NewRawDecoder(b, LE), EnumWidths)
           d == h.d
           p == LiteralEnds(n)
           ws == WidthsOf(n)
           v == Found(b, ws, p)
<1>1. /\ b \in Seq(Byte) /\ Len(b) = EndOf(24, n) /\ CountAt(b, n) /\ LiteralsAt(b, ls)
  BY EnumObjectHolds
<1>2. n \in Nat /\ 24 <= Len(b)
  BY <1>1 DEF EndOf
<1>3. d = [data |-> b, pos |-> 24, order |-> LE] /\ Num(Last(h.v).bytes) = n
  BY <1>1, <1>2, HeadRead
<1>4. ws \in Seq(Widths) /\ Len(ws) = 5 * n /\ Leads(p, ws, b)
  BY <1>1, <1>2, LiteralsLead
<1>5. p[0] = 24
  BY <1>2 DEF LiteralEnds
<1>6. LiteralsBehind(h) = v
  <2>1. LiteralsBehind(h) = Fields(d, ws).v
    BY <1>3 DEF LiteralsBehind
  <2> HIDE DEF d, p, ws
  <2>2. Fields(d, ws) = [d |-> At(d, p[Len(ws)]), v |-> v]
    BY <1>1, <1>3, <1>4, <1>5, FieldsFound
  <2> QED
    BY <2>1, <2>2
<1>7. v = [i \in 1 .. 5 * n |-> [bytes |-> FoundAt(b, ws[i], p[i]), end |-> p[i]]]
  BY <1>4 DEF Found
<1> HIDE DEF v, h
<1>8. Len(v) = 5 * n /\ Len(v) \div 5 = n
  <2>1. Len(v) = 5 * n
    BY <1>2, <1>7
  <2>2. (5 * n) \div 5 = n
    BY <1>2, SMT
  <2> QED
    BY <2>1, <2>2
<1>9. read = [i \in 1 .. n |-> v[5 * i - 2].bytes]
  BY <1>6, <1>8 DEF ReadEnumLiterals, h
<1>10. ASSUME NEW k \in 1 .. n
       PROVE  read[k] = Word(ls[k].value)
  <2> DEFINE i == 5 * k - 2
             q == k - 1
             spot == 24 + 20 * q + 8
  <2>1. /\ i \in 1 .. 5 * n /\ q \in 0 .. n - 1 /\ q \in Nat /\ IsField(i, q, 2)
        /\ 2 \in 0 .. 4 /\ i # 0 /\ i \in 0 .. 5 * n
    BY <1>2 DEF IsField
  <2> HIDE DEF i, q
  <2>2. (i - 1) \div 5 = q /\ (i - 1) % 5 = 2
    BY <2>1, PlaceOf
  <2>3. ws[i] = 4
    <3>1. LiteralWidths[1 + 2] = 4
      BY DEF LiteralWidths
    <3> QED
      BY <1>2, <2>1, <2>2, <3>1 DEF WidthsOf
  <2>4. p[i] = spot + 4
    <3>1. LiteralEnd(q, 2) = spot + 4
      BY <2>1 DEF LiteralEnd
    <3> QED
      BY <1>2, <2>1, <2>2, <3>1 DEF LiteralEnds
  <2>5. read[k] = FoundAt(b, 4, spot + 4)
    <3>1. v[i] = [bytes |-> FoundAt(b, 4, spot + 4), end |-> spot + 4]
      BY <1>7, <2>1, <2>3, <2>4
    <3>2. read[k] = v[i].bytes
      BY <1>9 DEF i
    <3> QED
      BY <3>1, <3>2
  <2>6. /\ spot \in Nat /\ spot + 4 <= Len(b) /\ ls[k].value \in Int
        /\ \A j \in 1 .. 4 : b[spot + j] = Swap(Word(ls[k].value))[j]
    <3>1. ls[k] \in Literals
      OBVIOUS
    <3>2. ls[k].value \in Int
      BY <3>1 DEF Literals
    <3>3. LiteralAt(b, 24 + 20 * q, ls[k])
      BY <1>1 DEF LiteralsAt, q
    <3>4. spot \in Nat /\ spot + 4 <= Len(b)
      BY <1>1, <1>2, <2>1 DEF EndOf
    <3> QED
      BY <3>2, <3>3, <3>4 DEF LiteralAt
  <2> HIDE DEF spot
  <2> QED
    BY <1>1, <2>5, <2>6, WordFound
<1>11. Len(read) = n
  BY <1>2, <1>9
<1> QED
  BY <1>10, <1>11

-----------------------------------------------------------------------------
(***************************************************************************)
(* The enums of a world                                                    *)
(***************************************************************************)
EnumOf(d) == EnumLiterals(Decl(d).values)

\* Literals are counted as constants are, and their names have hashes.
LEMMA EnumIs ==
  ASSUME world \in Worlds, NEW d \in Defs
  PROVE  /\ EnumOf(d) \in Seq(Literals) /\ HashesNames(EnumOf(d))
         /\ Len(EnumOf(d)) = Len(Decl(d).values) /\ Len(EnumOf(d)) \in Nat
         /\ \A i \in 1 .. Len(EnumOf(d)) : EnumOf(d)[i].value = EnumComputedValue(Decl(d).values, i)
<1> DEFINE values == Decl(d).values
           ls == EnumOf(d)
<1>1. ls \in Seq(Literals)
  BY LiteralsAre DEF EnumOf
<1>2. values \in Declared
  BY DeclaredTypes DEF Declarations, Declared
<1>3. DOMAIN values = 1 .. Len(values) /\ Len(values) \in Nat
  <2> HIDE DEF values
  <2> QED
    BY <1>2, SequenceDomain DEF Declared
<1>4. ls = [i \in DOMAIN values |->
              [name |-> values[i].name, flags |-> IF i = 1 THEN 64 ELSE 0,
               value |-> Counter(values)[i]]]
  BY DEF EnumOf, EnumLiterals, Counter, Round
<1>5. Len(ls) = Len(values)
  <2> HIDE DEF values, ls
  <2> QED
    BY <1>3, <1>4
<1>6. ASSUME NEW i \in 1 .. Len(values)
      PROVE  ls[i].value = EnumComputedValue(values, i)
  <2>1. EnumLiterals(values)[i].value = EnumComputedValue(values, i)
    BY <1>2, <1>3, CountsAgree
  <2> QED
    BY <2>1 DEF EnumOf
<1>7. ASSUME NEW i \in 1 .. Len(values)
      PROVE  Len(NameHash[ls[i].name]) = 4
  <2>1. ls[i].name = values[i].name
    <3> HIDE DEF ls, values
    <3> QED
      BY <1>3, <1>4
  <2>2. Decl(d) \in ToSet(world.decls)
    BY DEF Decl, Defs, ToSet
  <2>3. values[i].name \in SpeltIn(Decl(d))
    BY <1>3 DEF SpeltIn
  <2>4. NameHash[values[i].name] \in [1 .. 4 -> Byte]
    BY <2>2, <2>3, TextAssumption
  <2> QED
    BY <2>1, <2>4, FourBytes
<1>8. HashesNames(ls)
  <2>1. DOMAIN ls = 1 .. Len(values)
    <3> HIDE DEF ls, values
    <3> QED
      BY <1>3, <1>4
  <2> QED
    BY <1>7, <2>1 DEF HashesNames
<1> QED
  BY <1>1, <1>3, <1>5, <1>6, <1>8

\* The minimal object of every enum that was computed is that of its literals.
EnumWritten(c) ==
  /\ c.decl \in Defs
  /\ Decl(c.decl).kind = "enum" =>
       c.entry.min \in DOMAIN objects /\ objects[c.entry.min] = EnumObject(EnumOf(c.decl))
EnumsWritten == \A c \in computed : EnumWritten(c)

\* Objects keep their indices.
LEMMA WrittenStays ==
  ASSUME world' = world, NEW c, EnumWritten(c),
         \A i \in DOMAIN objects : i \in DOMAIN objects' /\ objects'[i] = objects[i]
  PROVE  EnumWritten(c)'
<1>1. Defs' = Defs /\ \A d : Decl(d)' = Decl(d)
  BY SameTypes
<1>2. \A d : EnumOf(d)' = EnumOf(d)
  BY <1>1 DEF EnumOf
<1> QED
  BY <1>1, <1>2 DEF EnumWritten

\* What FinishType adds is the type at hand, with the index of its object.
LEMMA WrittenByFinish ==
  ASSUME ScopesTypeOK, TypesInv, EnumsWritten, FinishType
  PROVE  EnumsWritten'
<1> DEFINE once == Hashed(objects, MinimalObject)
           seen == Hashed(once, CompleteObject)
           min == IndexIn(seen, MinimalObject)
           entry == [min |-> min, comp |-> IndexIn(seen, CompleteObject)]
           new == [decl |-> Top.decl, entry |-> entry, structure |-> Structure(Top.decl)]
<1>1. /\ frames # <<>> /\ ~HasMember /\ objects' = seen /\ world' = world
      /\ computed' = computed \cup {new}
  BY DEF FinishType, scopeVars
<1>2. Top \in Calls /\ world \in Worlds /\ Top.decl \in Defs /\ Begun(Top)
  BY <1>1, TopIs
<1>3. Len(Top.tids) = Len(Decl(Top.decl).members)
  <2>1. Len(Top.tids) \in Nat /\ Len(Decl(Top.decl).members) \in Nat
    BY <1>2, WorldFacts DEF Calls
  <2>2. ~(Len(Top.tids) < Len(Decl(Top.decl).members))
        /\ Len(Top.tids) <= Len(Decl(Top.decl).members)
    BY <1>1, <1>2 DEF HasMember, Begun
  <2> QED
    BY <2>1, <2>2
<1>4. MinimalObject \in Seq(Byte) /\ CompleteObject \in Seq(Byte)
  BY <1>2, <1>3, ObjectsOfKinds
<1>5. objects \in Seq(Seq(Byte)) /\ IsInjective(objects)
  BY DEF TypesInv, ObjectsOK
<1>6. /\ once \in Seq(Seq(Byte)) /\ IsInjective(once)
      /\ \A i \in DOMAIN objects : i \in DOMAIN once /\ once[i] = objects[i]
      /\ \E i \in DOMAIN once : once[i] = MinimalObject
  <2>1. objects \in Seq(Seq(Byte)) /\ IsInjective(objects) /\ MinimalObject \in Seq(Byte)
    BY <1>4, <1>5
  <2> QED
    BY <2>1, HashedOnce
<1> HIDE DEF once
<1>7. \A i \in DOMAIN once : i \in DOMAIN seen /\ seen[i] = once[i]
  <2>1. once \in Seq(Seq(Byte)) /\ IsInjective(once) /\ CompleteObject \in Seq(Byte)
    BY <1>4, <1>6
  <2> QED
    BY <2>1, HashedOnce
<1> HIDE DEF seen
<1>8. \A i \in DOMAIN objects : i \in DOMAIN objects' /\ objects'[i] = objects[i]
  BY <1>1, <1>6, <1>7
<1>9. min \in DOMAIN seen /\ seen[min] = MinimalObject
  <2>1. \E i \in DOMAIN seen : seen[i] = MinimalObject
    BY <1>6, <1>7
  <2> QED
    BY <2>1 DEF IndexIn
<1>10. Decl(Top.decl).kind = "enum" => MinimalObject = EnumObject(EnumOf(Top.decl))
  BY DEF MinimalObject, EnumObject, EnumOf
<1> HIDE DEF min
<1>11. ASSUME NEW c, c = new
       PROVE  EnumWritten(c)'
  <2>1. Defs' = Defs /\ \A d : Decl(d)' = Decl(d)
    BY <1>1, SameTypes
  <2>2. \A d : EnumOf(d)' = EnumOf(d)
    BY <2>1 DEF EnumOf
  <2>3. c.decl = Top.decl /\ c.entry.min = min
    BY <1>11
  <2> HIDE DEF new
  <2>4. c.decl \in Defs' /\ c.entry.min \in DOMAIN objects'
    BY <1>1, <1>2, <1>9, <2>1, <2>3
  <2>5. Decl(c.decl)'.kind = "enum" => objects'[c.entry.min] = EnumObject(EnumOf(c.decl)')
    BY <1>1, <1>9, <1>10, <2>1, <2>2, <2>3
  <2> QED
    BY <2>1, <2>2, <2>4, <2>5 DEF EnumWritten
<1>12. ASSUME NEW c \in computed
       PROVE  EnumWritten(c)'
  BY <1>1, <1>8, WrittenStays DEF EnumsWritten
<1> HIDE DEF new
<1> QED
  BY <1>1, <1>11, <1>12 DEF EnumsWritten

LEMMA EnumsWrittenStep ==
  ScopesTypeOK /\ TypesInv /\ EnumsWritten /\ [TypesStep \/ TypesEnded]_vars => EnumsWritten'
<1> SUFFICES ASSUME ScopesTypeOK, TypesInv, EnumsWritten, [TypesStep \/ TypesEnded]_vars
             PROVE  EnumsWritten'
  OBVIOUS
<1>1. CASE FinishType
  BY <1>1, WrittenByFinish
<1>2. CASE ~FinishType
  <2>1. objects' = objects /\ computed' = computed
    BY <1>2 DEF TypesStep, TypesEnded, ScopesStep, RenderTypes, BeginInfo, Descend, TakeMember, EndInfo,
       typeVars, vars
  <2>2. [ScopesNext]_scopeVars
    BY StepsOfScopes
  <2>3. world' = world
    BY <2>2 DEF ScopesNext, ResolveNext, StartFile, NextDefinition, SkipMember, ResolveMember,
       Unresolved, CollectUnits, RenderUnit, Ended, scopeVars
  <2> QED
    BY <2>1, <2>3, WrittenStays DEF EnumsWritten
<1> QED
  BY <1>1, <1>2

LEMMA WrittenMeans ==
  ScopesTypeOK /\ EnumsWritten /\ EnumsFit(world) => EnumLiteralsAgree
<1> SUFFICES ASSUME ScopesTypeOK, EnumsWritten, EnumsFit(world),
                    NEW c \in computed, Decl(c.decl).kind = "enum"
             PROVE  LET read == ReadEnumLiterals(objects[c.entry.min])
                    IN  /\ Len(read) = Len(Decl(c.decl).values)
                        /\ \A i \in DOMAIN read :
                             read[i] = Word(EnumComputedValue(Decl(c.decl).values, i))
  BY DEF EnumLiteralsAgree
<1> DEFINE d == c.decl
           ls == EnumOf(d)
           read == ReadEnumLiterals(objects[c.entry.min])
<1>1. world \in Worlds
  BY DEF ScopesTypeOK
<1>2. d \in Defs /\ objects[c.entry.min] = EnumObject(ls)
  BY DEF EnumsWritten, EnumWritten
<1>3. /\ ls \in Seq(Literals) /\ HashesNames(ls) /\ Len(ls) \in Nat
      /\ Len(ls) = Len(Decl(d).values)
      /\ \A i \in 1 .. Len(ls) : ls[i].value = EnumComputedValue(Decl(d).values, i)
  BY <1>1, <1>2, EnumIs
<1>4. Len(ls) \in Uint32
  BY <1>2, <1>3 DEF EnumsFit, Defs, Decl
<1>5. DOMAIN read = 1 .. Len(read)
  BY DEF ReadEnumLiterals
<1> HIDE DEF ls, read
<1>6. Len(read) = Len(ls) /\ \A k \in 1 .. Len(ls) : read[k] = Word(ls[k].value)
  BY <1>2, <1>3, <1>4, EnumRead DEF read
<1> QED
  BY <1>3, <1>5, <1>6 DEF read

\* In worlds where no type holds itself and no enum has more than 2^32 - 1
\* values, a peer that takes an enum's minimal object apart finds in it as many
\* values as were declared, each with the number its generated constant has and
\* writes on the wire (compute.go:385-418, helpers.go:436-448,
\* serialize.go:179-209).
THEOREM EnumValuesRead ==
  TypesSpec /\ NoneHoldsItself(world) /\ EnumsFit(world) => []EnumLiteralsAgree
<1>1. TypesSpec /\ NoneHoldsItself(world) => [](ScopesTypeOK /\ TypesInv)
  BY TypesInductive
<1>2. TypesInit => EnumsWritten
  BY DEF TypesInit, EnumsWritten
<1>3. TypesSpec => [][TypesStep \/ TypesEnded]_vars /\ TypesInit
  BY PTL DEF TypesSpec
<1>4. TypesSpec /\ EnumsFit(world) => []EnumsFit(world)
  <2>1. EnumsFit(world) /\ [TypesStep \/ TypesEnded]_vars => EnumsFit(world)'
    <3> SUFFICES ASSUME EnumsFit(world), [TypesStep \/ TypesEnded]_vars
                 PROVE  EnumsFit(world)'
      OBVIOUS
    <3>1. [ScopesNext]_scopeVars
      BY StepsOfScopes
    <3>2. world' = world
      BY <3>1 DEF ScopesNext, ResolveNext, StartFile, NextDefinition, SkipMember, ResolveMember,
         Unresolved, CollectUnits, RenderUnit, Ended, scopeVars
    <3> QED
      BY <3>2
  <2> QED
    BY <1>3, <2>1, PTL
<1> QED
  BY <1>1, <1>2, <1>3, <1>4, EnumsWrittenStep, WrittenMeans, PTL
=============================================================================
