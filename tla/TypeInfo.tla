------------------------------ MODULE TypeInfo ------------------------------
(***************************************************************************)
(* internal/xtypes/compute.go: for every struct and union of a package     *)
(* that is rendered (TypeScopes), its type objects and those of the types  *)
(* it holds are built, hashed and kept in the package's context under      *)
(* their names, and its type information is collected from there.          *)
(*                                                                         *)
(* A frame is a compute...TypeIdentifier call that has not returned.  A    *)
(* type object's hash is its index among the objects serialized so far:    *)
(* MD5 is taken to be injective.                                           *)
(***************************************************************************)
EXTENDS TypeScopes, TypeObjects, EnumValues

\* Every name of a world, and what packages make of a module's, has bytes and
\* a hash.
SpeltIn(d) ==
  {d.name} \cup ToSet(d.path) \cup {d.members[i].name : i \in DOMAIN d.members}
    \cup {d.values[i].name : i \in DOMAIN d.values}
PartsIn(d) ==
  {d.members[i].type.core[2] :
     i \in {j \in DOMAIN d.members : d.members[j].type.core[1] = "named"}}

ASSUME TextAssumption ==
  \A w \in Worlds : \A d \in ToSet(w.decls) :
    /\ \A n \in SpeltIn(d) \cup UNION {ToSet(parts) : parts \in PartsIn(d)} :
         Text[n] \in Seq(Byte) /\ NameHash[n] \in [1 .. 4 -> Byte]
    /\ \A parts \in PartsIn(d) : \A n \in ToSet(Front(parts)) :
         LowerCase[n] \in STRING /\ Text[LowerCase[n]] \in Seq(Byte)

VARIABLES
  scope,         \* module path of the package being rendered
  cache,         \* name -> minimal and complete object, as indices
  roots,         \* types of the package still to be described: <<kind, place>>
  root,          \* the one being described, 0 for none
  frames,        \* calls, the innermost last
  objects,       \* every object serialized, in the order of their indices
  computed,      \* history: what was computed for each type in any context
  infos          \* history: the type information of each root

typeVars == <<scope, cache, roots, root, frames, objects, computed, infos>>
vars == <<scopeVars, typeVars>>

\* ResolveExtensibility: the first annotation that says so.
ResolveExtensibility(annotations) ==
  LET Says(a) == \/ a[1] \in {"final", "appendable", "mutable"}
                 \/ a[1] = "extensibility" /\ a[2] \in {"final", "appendable", "mutable"}
      said    == {i \in DOMAIN annotations : Says(annotations[i])}
      first   == annotations[CHOOSE i \in said : \A j \in said : i <= j]
  IN  IF said = {} THEN "appendable"
      ELSE IF first[1] = "extensibility" THEN first[2] ELSE first[1]

TypeFlags(d) ==
  CASE ResolveExtensibility(Decl(d).annotations) = "final"      -> 1
    [] ResolveExtensibility(Decl(d).annotations) = "appendable" -> 2
    [] ResolveExtensibility(Decl(d).annotations) = "mutable"    -> 4

\* Mutant: @id is not looked at.
MemberIDIndex(d, i) == i - 1

\* The @id, or the member's index; a union's cases count behind the
\* discriminator.
MemberID(d, i) ==
  LET m == Decl(d).members[i]
  IN  IF Decl(d).kind = "union" THEN i - 2
      ELSE IF m.id # <<>> THEN m.id[1] ELSE i - 1

\* TRY_CONSTRUCT1, with IS_OPTIONAL, IS_KEY and IS_DEFAULT.
MemberFlags(d, i) ==
  LET m == Decl(d).members[i]
  IN  1 + (IF "optional" \in m.flags THEN 8 ELSE 0)
        + (IF "key" \in m.flags THEN 32 ELSE 0)
        + (IF "default" \in m.flags THEN 64 ELSE 0)

\* What Sscanf finds: nothing in the name of an enum value.
ParseLabelValue(l) == IF l[1] = "int" THEN l[2] ELSE 0

-----------------------------------------------------------------------------
(***************************************************************************)
(* Names and what they stand for                                           *)
(***************************************************************************)
FullyQualifiedSimple(parts) == <<Last(parts)>>                       \* mutant
\* A simple name is taken for one of the package.
FullyQualifiedName(parts) == IF Len(parts) > 1 THEN parts ELSE scope \o parts

\* The name in a complete object.
Joined(parts) ==
  FlattenSeq([i \in DOMAIN parts |-> (IF i = 1 THEN <<>> ELSE <<58, 58>>) \o Text[parts[i]]])

IsTypedef(r) == IsNamed(r) /\ resolved[r] # 0 /\ Decl(resolved[r]).kind = "typedef"
TypeOfTypedef(r) == <<resolved[r], 1>>

\* Where typedefs lead to: a type, the name it is reached by, and the sequences
\* and arrays around it.
Place(r, parts, wraps) == [at |-> r, parts |-> parts, wraps |-> wraps]
PassTypedef(p) ==
  LET r == TypeOfTypedef(p.at) IN Place(r, Parts(r), p.wraps \o TypeOf(r).wraps)

\* resolveUnderlying passes typedefs that name no array or sequence,
\* computeNamedTypeIdentifier all others that are not in the cache.
Passes(p, computing) ==
  /\ IsTypedef(p.at)
  /\ \/ TypeOf(TypeOfTypedef(p.at)).wraps = <<>>
     \/ computing /\ FullyQualifiedName(p.parts) \notin DOMAIN cache

\* A chain of typedefs that does not come back to itself has an end.
PassTypedefs(p, computing) ==
  LET after[n \in 0 .. Len(world.decls)] ==
        IF n = 0 THEN p
        ELSE LET q == after[n - 1] IN IF Passes(q, computing) THEN PassTypedef(q) ELSE q
  IN  after[Len(world.decls)]

ResolveUnderlying(r, parts) == PassTypedefs(Place(r, parts, <<>>), FALSE)

\* The sequences and arrays around what the type at r is in the end: a
\* primitive, a string, or a named type with the name it is cached under.
Expand(r, parts) ==
  LET p == PassTypedefs(Place(r, parts, TypeOf(r).wraps), TRUE)
  IN  [wraps |-> p.wraps,
       end   |-> IF IsNamed(p.at) THEN <<"type", FullyQualifiedName(p.parts), resolved[p.at]>>
                 ELSE TypeOf(p.at).core]

HasObject(d) == d # 0 /\ Decl(d).kind \in {"struct", "union", "enum"}

\* A named type whose objects must be computed first.
Uncached(x) ==
  x.end[1] = "type" /\ x.end[2] \notin DOMAIN cache /\ HasObject(x.end[3])

\* 14 bytes of a hash, which an index below 2^32 is turned into and back.
Hash(i) == Word(i) \o Zeros(10)
IndexOf(hash) == Num(hash)

EndTID(x, kind) ==
  CASE x.end[1] = "prim"   -> PrimitiveTID(x.end[2])
    [] x.end[1] = "string" -> StringTID(x.end[2])
    [] x.end[1] = "type"   ->
         IF x.end[2] \notin DOMAIN cache THEN PrimitiveTID(0)
         ELSE HashTID(kind, Hash(IF kind = MINIMAL THEN cache[x.end[2]].min
                                                   ELSE cache[x.end[2]].comp))

CollectionTID(w, elem, kind) ==
  IF w[1] = "seq" THEN SequenceTID(w[2], elem, kind) ELSE ArrayTID(w[2], elem, kind)

\* ComputeTypeIdentifier and ComputeCompleteTypeIdentifier, from the element
\* outward.
TypeIdentifier(x, kind) ==
  LET tid[n \in 0 .. Len(x.wraps)] ==
        IF n = 0 THEN EndTID(x, kind)
        ELSE CollectionTID(x.wraps[Len(x.wraps) + 1 - n], tid[n - 1], kind)
  IN  tid[Len(x.wraps)]

-----------------------------------------------------------------------------
(***************************************************************************)
(* The recursion over types                                                *)
(***************************************************************************)
NoCache == [k \in {} |-> [min |-> 0, comp |-> 0]]

TypesInit ==
  /\ ScopesInit
  /\ scope = <<>> /\ cache = NoCache
  /\ roots = {} /\ root = 0 /\ frames = <<>>
  /\ objects = <<>> /\ computed = {} /\ infos = {}

Idle == roots = {} /\ root = 0

\* Structs, then unions: places <<kind, k>> among the file's definitions.
Roots(rel) ==
  {p \in {1, 2} \X Places(file, rel) : Decl(Own(file)[p[2]]).kind = Walked[p[1]]}
RootAt(p) == Own(file)[p[2]]
IsFirst(p, places) == \A q \in places : p[1] < q[1] \/ (p[1] = q[1] /\ p[2] <= q[2])

\* Rendering a package, in a context of its own.
RenderTypes(rel) ==
  /\ Idle /\ RenderUnit(rel)
  /\ scope' = ModulePath(file, rel)
  /\ cache' = NoCache
  /\ roots' = Roots(rel)
  /\ UNCHANGED <<root, frames, objects, computed, infos>>

Frame(d, key) == [decl |-> d, key |-> key, tids |-> <<>>]

\* Build(Union)TypeInformation computes its type again, cached or not.
BeginInfo ==
  /\ root = 0
  /\ \E p \in roots :
       /\ IsFirst(p, roots)
       /\ root' = RootAt(p) /\ roots' = roots \ {p}
       /\ frames' = <<Frame(RootAt(p), FullyQualifiedName(<<Decl(RootAt(p)).name>>))>>
  /\ UNCHANGED <<scopeVars, scope, cache, objects, computed, infos>>

Top == Last(frames)
NextMember == <<Top.decl, Len(Top.tids) + 1>>
HasMember == frames # <<>> /\ Len(Top.tids) < Len(Decl(Top.decl).members)

\* A root is a copy whose names preprocessUnit rewrote; the types it holds are
\* the shared nodes.
NameAt(r) ==
  IF Len(frames) = 1 THEN WrittenName(scope, Parts(r)) ELSE Parts(r)

Member == Expand(NextMember, IF IsNamed(NextMember) THEN NameAt(NextMember) ELSE <<>>)

Descend ==
  /\ HasMember /\ Uncached(Member)
  /\ frames' = Append(frames, Frame(Member.end[3], Member.end[2]))
  /\ UNCHANGED <<scopeVars, scope, cache, roots, root, objects, computed, infos>>

TakeMember ==
  /\ HasMember /\ ~Uncached(Member)
  /\ frames' = [frames EXCEPT ![Len(frames)].tids =
                  Append(@, <<TypeIdentifier(Member, MINIMAL), TypeIdentifier(Member, COMPLETE)>>)]
  /\ UNCHANGED <<scopeVars, scope, cache, roots, root, objects, computed, infos>>

\* The members of the innermost call's type, with their minimal (1) or
\* complete (2) identifiers.
BuiltMembers(k) ==
  [i \in DOMAIN Top.tids |->
     [id |-> MemberID(Top.decl, i), flags |-> MemberFlags(Top.decl, i),
      labels |-> [j \in DOMAIN Decl(Top.decl).members[i].labels |->
                    ParseLabelValue(Decl(Top.decl).members[i].labels[j])],
      name |-> Decl(Top.decl).members[i].name, tid |-> Top.tids[i][k]]]

MinimalObject ==
  SerializeTypeObject(MINIMAL,
    CASE Decl(Top.decl).kind = "struct" -> MinimalStructType(TypeFlags(Top.decl), BuiltMembers(1))
      [] Decl(Top.decl).kind = "union"  -> MinimalUnionType(TypeFlags(Top.decl), BuiltMembers(1))
      [] Decl(Top.decl).kind = "enum"   -> MinimalEnumType(EnumLiterals(Decl(Top.decl).values)))

CompleteObject ==
  SerializeTypeObject(COMPLETE,
    CASE Decl(Top.decl).kind = "struct" ->
           CompleteStructType(TypeFlags(Top.decl), Joined(Top.key), BuiltMembers(2))
      [] Decl(Top.decl).kind = "union"  ->
           CompleteUnionType(TypeFlags(Top.decl), Joined(Top.key), BuiltMembers(2))
      [] Decl(Top.decl).kind = "enum"   ->
           CompleteEnumType(Joined(Top.key), EnumLiterals(Decl(Top.decl).values)))

\* md5.Sum, as the index the object has among all.
Hashed(seen, object) == IF Contains(seen, object) THEN seen ELSE Append(seen, object)
IndexIn(seen, object) == CHOOSE i \in DOMAIN seen : seen[i] = object

CacheWith(entry) == [k \in DOMAIN cache \cup {Top.key} |-> IF k = Top.key THEN entry ELSE cache[k]]
\* Mutant: only what was asked for is kept.
RememberRoot(entry) == cache' = IF Len(frames) = 1 THEN CacheWith(entry) ELSE cache
Remember(entry) == cache' = CacheWith(entry)

\* What the type at hand is made of, names of types aside.
Structure(d) ==
  LET of[e \in Defs] ==
        CASE Decl(e).kind \in {"struct", "union"} ->
               <<Decl(e).kind, TypeFlags(e),
                 [i \in DOMAIN Decl(e).members |->
                    LET m == Decl(e).members[i]
                        x == Expand(<<e, i>>, IF IsNamed(<<e, i>>) THEN Parts(<<e, i>>) ELSE <<>>)
                    IN  <<m.name, IF m.id = <<>> THEN <<i - 1>> ELSE m.id, m.flags, m.labels,
                          x.wraps, IF x.end[1] # "type" THEN x.end ELSE of[x.end[3]]>>]>>
          [] Decl(e).kind = "enum" ->
               <<"enum", [i \in DOMAIN Decl(e).values |->
                            <<Decl(e).values[i].name, EnumComputedValue(Decl(e).values, i)>>]>>
          [] OTHER -> <<"none">>
  IN  of[d]

\* All members taken: serialize, hash, cache and return.
FinishType ==
  /\ frames # <<>> /\ ~HasMember
  /\ LET seen  == Hashed(Hashed(objects, MinimalObject), CompleteObject)
         entry == [min |-> IndexIn(seen, MinimalObject), comp |-> IndexIn(seen, CompleteObject)]
     IN  /\ objects' = seen
         /\ Remember(entry)
         /\ computed' = computed \cup {[decl |-> Top.decl, entry |-> entry,
                                        structure |-> Structure(Top.decl)]}
  /\ frames' = Front(frames)
  /\ UNCHANGED <<scopeVars, scope, roots, root, infos>>

FollowsStruct(d) == d # 0 /\ Decl(d).kind = "struct"                \* mutant
Follows(d) == d # 0 /\ Decl(d).kind \in {"struct", "union"}

\* What collectTypeDependencies adds to, and what it does with the type at r.
Collections == [seen : SUBSET Seq(STRING), deps : Seq([min : Nat, comp : Nat])]
See(acc, key) ==
  [seen |-> acc.seen \cup {key},
   deps |-> IF key \in DOMAIN cache THEN Append(acc.deps, cache[key]) ELSE acc.deps]

\* A typedef of an array or a sequence is seen, but not followed.
CollectDependencies(start, first, name) ==
  LET collect[acc \in Collections, r \in AllRefs, parts \in Seq(STRING)] ==
        LET u   == ResolveUnderlying(r, parts)
            key == FullyQualifiedName(u.parts)
            d   == resolved[u.at]
        IN  IF ~IsNamed(u.at) \/ key \in acc.seen THEN acc
            ELSE IF ~Follows(d) THEN See(acc, key)
            ELSE FoldLeft(LAMBDA a, s : collect[a, s, Parts(s)], See(acc, key), NamedRefs(d))
  IN  collect[start, first, name]

Dependencies(d) ==
  FoldLeft(LAMBDA a, r : CollectDependencies(a, r, WrittenName(scope, Parts(r))),
           [seen |-> {}, deps |-> <<>>], NamedRefs(d)).deps

Entry(i) == [hash |-> Hash(i), size |-> Len(objects[i])]

EndInfo ==
  /\ root # 0 /\ frames = <<>>
  /\ LET own  == cache[FullyQualifiedName(<<Decl(root).name>>)]
         deps == Dependencies(root)
     IN  infos' = infos \cup
           {[decl |-> root, file |-> file,
             bytes |-> SerializeTypeInformation(
                         Entry(own.min), [i \in DOMAIN deps |-> Entry(deps[i].min)],
                         Entry(own.comp), [i \in DOMAIN deps |-> Entry(deps[i].comp)])]}
  /\ root' = 0
  /\ UNCHANGED <<scopeVars, scope, cache, roots, frames, objects, computed>>

ScopesStep ==
  /\ Idle /\ (StartFile \/ ResolveNext \/ CollectUnits)
  /\ UNCHANGED typeVars

TypesEnded == Idle /\ Ended /\ UNCHANGED typeVars

TypesStep ==
  ScopesStep \/ (\E rel \in units : RenderTypes(rel))
    \/ BeginInfo \/ Descend \/ TakeMember \/ FinishType \/ EndInfo

Running == ~Idle \/ phase = "resolving" \/ units # {}
             \/ (phase # "failed" /\ file < Len(world.files))

\* What every step changes.
progress == <<file, phase, at, units, roots, root, Len(frames),
              IF frames = <<>> THEN 0 ELSE Len(Top.tids)>>

\* The generator runs on by itself: weak fairness of TypesStep, which can be
\* taken exactly while the program is Running (TLC's deadlock check).
TypesSpec ==
  /\ TypesInit /\ [][TypesStep \/ TypesEnded]_vars
  /\ []<>~Running \/ []<><<TypesStep>>_progress

-----------------------------------------------------------------------------
(***************************************************************************)
(* What a peer reads, by docs/dds_specification.md 11.1 to 11.11           *)
(***************************************************************************)
\* Scalars of the given widths, or that many bytes as they are where the width
\* is negative, one after the other: their bytes, and where each ends.
ReadBytes(d, n) ==
  IF CheckRemaining(d, n) THEN Got(Past(d, n), Slice(d.data, d.pos, d.pos + n)) ELSE Failed(d)
ReadWidth(d, n) == IF n > 0 THEN ReadScalar(d, n) ELSE ReadBytes(d, -n)

Field(acc, r) == [d |-> r.d, v |-> Append(acc.v, [bytes |-> r.v, end |-> r.d.pos])]
NextField(acc, n) == Field(acc, ReadWidth(acc.d, n))
Fields(d, widths) ==
  LET after[i \in 0 .. Len(widths)] ==
        IF i = 0 THEN [d |-> d, v |-> <<>>] ELSE NextField(after[i - 1], widths[i])
  IN  after[Len(widths)]

\* DHEADER, kind and hash, and size of an object: fields i to i + 2 of v.
EntryWidths == <<4, -15, 4>>
EntryAt(v, i) ==
  [kind |-> v[i + 1].bytes[1], hash |-> Tail(v[i + 1].bytes), size |-> Num(v[i + 2].bytes),
   fits |-> v[i + 2].end = v[i].end + Num(v[i].bytes)]

\* EMHEADER and NEXTINT, DHEADER, entry, count, and a delimited sequence.
HeadWidths == <<4, 4, 4>> \o EntryWidths \o <<4, 4, 4>>
DepsBehind(h) ==
  [d |-> h.d, head |-> h.v,
   deps |-> Fields(h.d, FlattenSeq([i \in 1 .. Num(Last(h.v).bytes) |-> EntryWidths]))]

\* Length code 4 says that the size stands in front of the member.
MemberOf(m) ==
  LET v == m.head
      end == m.deps.d.pos
  IN  [id   |-> Num(<<v[1].bytes[1] % 16>> \o Tail(v[1].bytes)),
       own  |-> EntryAt(v, 4),
       deps |-> [i \in 1 .. Len(m.deps.v) \div 3 |-> EntryAt(m.deps.v, 3 * i - 2)],
       fits |-> /\ v[1].bytes[1] \div 16 = 4
                /\ \A i \in {2, 3, 8} : end = v[i].end + Num(v[i].bytes)
                /\ v[7].bytes = v[9].bytes]

ReadMember(acc) ==
  LET m == DepsBehind(Fields(acc.d, HeadWidths))
  IN  [d |-> m.deps.d, members |-> Append(acc.members, MemberOf(m))]

ReadTypeInformation(bytes) ==
  ReadMember(ReadMember([d |-> ReadDHeader(NewRawDecoder(bytes, LE)).d, members |-> <<>>]))

\* The values in an enum's minimal object: fields of DHEADER, two kinds, flags,
\* the header with its bit bound, a delimited sequence, and each literal's two
\* DHEADERs, value, flags and name hash.
LiteralWidths == <<4, 4, 4, 2, -4>>
WidthsOf(n) == [i \in 1 .. 5 * n |-> LiteralWidths[1 + ((i - 1) % 5)]]
EnumWidths == <<4, 1, 1, 2, 4, 2, 4, 4>>
LiteralsBehind(h) == Fields(h.d, WidthsOf(Num(Last(h.v).bytes))).v
ReadEnumLiterals(object) ==
  LET v == LiteralsBehind(Fields(NewRawDecoder(object, LE), EnumWidths))
  IN  [i \in 1 .. Len(v) \div 5 |-> v[5 * i - 2].bytes]

-----------------------------------------------------------------------------
(***************************************************************************)
(* Correctness                                                             *)
(***************************************************************************)
\* The type invariant: entries point to objects of their kinds, all objects are
\* different, and no type is begun inside itself.
TypesTypeOK ==
  /\ ScopesTypeOK
  /\ IsInjective(objects)
  /\ \A k \in DOMAIN cache :
       /\ cache[k].min \in DOMAIN objects /\ objects[cache[k].min][5] = MINIMAL
       /\ cache[k].comp \in DOMAIN objects /\ objects[cache[k].comp][5] = COMPLETE
  /\ root \in Defs \cup {0}
  /\ roots # {} => file > 0 /\ roots \subseteq {1, 2} \X DOMAIN Own(file)
  /\ frames # <<>> => root # 0 /\ frames[1].decl = root
  /\ \A i, j \in DOMAIN frames : i # j => frames[i].decl # frames[j].decl

\* Minimal identifiers decide whether types of different names, packages and
\* files match: they are the same exactly for types of the same structure
\* (compute.go:147-263).
IdentifiersMatchStructure ==
  \A a, b \in computed : a.entry.min = b.entry.min <=> a.structure = b.structure

\* A type has the same identifiers wherever they are computed: for itself, for
\* the types that hold it, in the contexts of other packages; and types of
\* different names have different complete ones (compute.go:115-143).
OneIdentityPerType ==
  \A a, b \in computed :
    a.entry.comp = b.entry.comp <=> a.decl = b.decl /\ a.structure = b.structure

Named(e) == CHOOSE c \in computed : c.entry.comp = IndexOf(e.hash)

Fits(e, kind) ==
  /\ e.fits /\ e.kind = kind
  /\ e.size = Len(objects[IndexOf(e.hash)]) /\ objects[IndexOf(e.hash)][5] = kind

SameType(m, c) ==
  /\ Fits(m, MINIMAL) /\ Fits(c, COMPLETE)
  /\ \E x \in computed : x.entry = [min |-> IndexOf(m.hash), comp |-> IndexOf(c.hash)]

Readable(info, t, min, comp) ==
  /\ t.d.pos = Len(info.bytes)
  /\ Get(LE, Slice(info.bytes, 0, 4)) = Word(Len(info.bytes) - 4)
  /\ min.id = MinimalID /\ min.fits /\ comp.id = CompleteID /\ comp.fits
  /\ SameType(min.own, comp.own) /\ Named(comp.own).decl = info.decl
  /\ Len(min.deps) = Len(comp.deps)
  /\ \A i \in DOMAIN min.deps : SameType(min.deps[i], comp.deps[i])

\* A peer can read the type information: sizes and codes delimit what they
\* announce, every identifier is that of an object of its kind and size, and
\* the two lists name the same types (serialize.go:340-377).
InformationReadable ==
  \A info \in infos : \E t \in {ReadTypeInformation(info.bytes)} :
    Readable(info, t, t.members[1], t.members[2])

\* The types with objects that a type holds, at any depth.
HeldBy(d) ==
  LET held[e \in Defs] ==
        UNION {{resolved[r]} \cup held[resolved[r]] : r \in ToSet(NamedRefs(e))}
  IN  held[d]

\* The type information of a type lists every type it holds, at any depth, in
\* members of either kind of type and in discriminators, and each once: a peer
\* that lacks one asks for it by its identifier (compute.go:540-592).
DependenciesComplete ==
  phase = "rendering" => \A info \in infos : info.file = file =>
    \E deps \in {ReadTypeInformation(info.bytes).members[2].deps} :
        /\ {Named(deps[i]).decl : i \in DOMAIN deps} = {d \in HeldBy(info.decl) : HasObject(d)}
        /\ \A i, j \in DOMAIN deps : i # j => deps[i] # deps[j]

\* The values in an enum's type object are those its generated constants have
\* and put on the wire (compute.go:385-418, helpers.go:436-448).
EnumLiteralsAgree ==
  \A c \in computed : Decl(c.decl).kind = "enum" =>
    LET read == ReadEnumLiterals(objects[c.entry.min])
    IN  /\ Len(read) = Len(Decl(c.decl).values)
        /\ \A i \in DOMAIN read : read[i] = Word(EnumComputedValue(Decl(c.decl).values, i))

\* On types that do not hold themselves the recursion ends, and so does the
\* program (compute.go:154, 587).
GenerationEnds == <>~Running

-----------------------------------------------------------------------------
(***************************************************************************)
(* Worlds for which TypesTypeOK and EnumLiteralsAgree are proved.          *)
(***************************************************************************)
\* The type d may hold e: a member's name, looked up from d, may stand for it.
MayHold(w, d, e) ==
  \E i \in DOMAIN w.decls[d].members :
    LET core == w.decls[d].members[i].type.core
    IN  /\ core[1] = "named" /\ w.decls[e].name = Last(core[2])
        /\ IF Len(core[2]) > 1 THEN w.decls[e].path = Front(core[2])
           ELSE IsPrefix(w.decls[e].path, w.decls[d].path)

\* No type holds itself, at any depth: among any types there is one that holds
\* none of them.
NoneHoldsItself(w) ==
  \A D \in SUBSET DOMAIN w.decls : D # {} =>
    \E d \in D : \A e \in D : ~MayHold(w, d, e)

\* The number of an enum's values is written as a uint32 (serialize.go:189).
EnumsFit(w) == \A d \in DOMAIN w.decls : Len(w.decls[d].values) \in Uint32
=============================================================================
