------------------------ MODULE IncludeResolver_proofs ------------------------
(***************************************************************************)
(* The safety of IncludeResolver on every include graph and for every      *)
(* sequence of calls.                                                      *)
(***************************************************************************)
EXTENDS IncludeResolver, WellFoundedInduction, TLAPS

\* Each frame waits for the file its next #include names.
FramesLinked ==
  \A i \in 1 .. Len(stack) - 1 :
    /\ stack[i].done < Len(includes[stack[i].file])
    /\ IsFound(stack[i].file, stack[i].done + 1)
    /\ stack[i + 1].file =
         findInclude(stack[i].file, includes[stack[i].file][stack[i].done + 1])

\* What a frame collected so far covers the includes it is done with.
Collected(frame) ==
  /\ ClosedList(frame.defs)
  /\ \A k \in 1 .. frame.done :
       Precedes(frame.file, k, frame.defs, Len(frame.defs))
FramesClosed == \A i \in DOMAIN stack : Collected(stack[i])

\* Without a frame, nothing is asked for; with one, the first is the call's.
IndInv ==
  /\ ResolverTypeOK
  /\ InProgressIsStacked
  /\ FramesLinked
  /\ FramesClosed
  /\ DefinitionsClosed
  /\ ReportedCyclesExist
  /\ AnswerDependsOnFilesAlone

-----------------------------------------------------------------------------
(***************************************************************************)
(* Lemmas                                                                  *)
(***************************************************************************)
LEMMA LeastElement ==
  ASSUME NEW T \in SUBSET Nat, T # {}
  PROVE  \E x \in T : \A y \in T : x <= y
<1> DEFINE R == OpToRel(<, Nat)
<1>1. IsWellFoundedOn(R, Nat)
  BY NatLessThanWellFounded
<1>2. \A x, y \in Nat : <<y, x>> \in R <=> y < x
  BY DEF OpToRel
<1> HIDE DEF R
<1>3. PICK x \in T : \A y \in T : ~ (<<y, x>> \in R)
  BY <1>1, WFMin
<1>4. x \in Nat /\ \A y \in T : y \in Nat
  OBVIOUS
<1>5. \A y \in T : ~ (y < x)
  BY <1>2, <1>3, <1>4
<1> QED
  BY ONLY x \in T, <1>4, <1>5

\* findInclude returns a file that exists.
LEMMA FindIncludeFile ==
  ASSUME NEW f \in Files, NEW inc \in Directives, Candidates(f, inc) # {}
  PROVE  findInclude(f, inc) \in Files
<1>1. SearchPath(f) \in Seq(Dirs)
  BY IncludeAssumption DEF SearchPath
<1>2. Candidates(f, inc) \in SUBSET Nat
  BY <1>1 DEF Candidates
<1>3. \E i \in Candidates(f, inc) : \A j \in Candidates(f, inc) : i <= j
  BY <1>2, LeastElement
<1> DEFINE i == CHOOSE i \in Candidates(f, inc) : \A j \in Candidates(f, inc) : i <= j
<1>4. i \in Candidates(f, inc)
  BY <1>3
<1> HIDE DEF i
<1>5. Target(f, inc, i) \in Files
  BY <1>4 DEF Candidates
<1> QED
  BY <1>5 DEF findInclude, i

\* The k-th directive of a file.
LEMMA DirectiveType ==
  ASSUME ResolverTypeOK, NEW f \in Files
  PROVE  /\ includes[f] \in Seq(Directives)
         /\ \A k \in DOMAIN includes[f] :
              IsFound(f, k) => findInclude(f, includes[f][k]) \in Files
<1>1. includes[f] \in Seq(Directives)
  BY IncludeAssumption DEF ResolverTypeOK
<1>2. ASSUME NEW k \in DOMAIN includes[f], IsFound(f, k)
      PROVE  findInclude(f, includes[f][k]) \in Files
  BY <1>1, <1>2, FindIncludeFile DEF IsFound
<1> QED
  BY <1>1, <1>2

\* Precedes looks only at the first n files of a list.
LEMMA PrecedesLonger ==
  ASSUME NEW f, NEW k, NEW s, NEW t, NEW m \in Nat, NEW n \in Nat, m <= n,
         \A j \in 1 .. m : t[j] = s[j],
         Precedes(f, k, s, m)
  PROVE  Precedes(f, k, t, n)
<1>1. PICK j \in 1 .. m : s[j] = findInclude(f, includes[f][k])
  BY DEF Precedes
<1>2. j \in 1 .. n /\ t[j] = findInclude(f, includes[f][k])
  BY <1>1
<1> QED
  BY <1>2 DEF Precedes

LEMMA PrecedesBehind ==
  ASSUME NEW f, NEW k, NEW s \in Seq(Parsed), NEW t \in Seq(Parsed), NEW m \in Nat,
         m <= Len(t), Precedes(f, k, t, m)
  PROVE  Precedes(f, k, s \o t, Len(s) + m)
<1>1. PICK j \in 1 .. m : t[j] = findInclude(f, includes[f][k])
  BY DEF Precedes
<1>2. Len(s) + j \in 1 .. Len(s) + m /\ (s \o t)[Len(s) + j] = t[j]
  BY <1>1
<1> QED
  BY <1>1, <1>2 DEF Precedes

\* Lists that need nothing else need nothing else together.
LEMMA ClosedConcat ==
  ASSUME NEW s \in Seq(Parsed), NEW t \in Seq(Parsed), ClosedList(s), ClosedList(t)
  PROVE  ClosedList(s \o t)
<1> DEFINE u == s \o t
<1>1. u \in Seq(Parsed) /\ Len(u) = Len(s) + Len(t)
  OBVIOUS
<1>2. \A j \in 1 .. Len(s) : u[j] = s[j]
  OBVIOUS
<1>3. \A j \in 1 .. Len(t) : u[Len(s) + j] = t[j]
  OBVIOUS
<1> HIDE DEF u
<1>4. ASSUME NEW i \in 1 .. Len(u), NEW k \in DOMAIN includes[u[i]]
      PROVE  Precedes(u[i], k, u, i - 1)
  <2>1. CASE i <= Len(s)
    <3>1. i \in DOMAIN s /\ u[i] = s[i] /\ i - 1 \in Nat
      BY <1>1, <1>2, <2>1
    <3>2. Precedes(s[i], k, s, i - 1)
      BY <1>4, <3>1 DEF ClosedList
    <3>3. \A j \in 1 .. i - 1 : j \in 1 .. Len(s)
      BY <2>1
    <3>4. \A j \in 1 .. i - 1 : u[j] = s[j]
      BY <1>2, <3>3
    <3> QED
      BY <3>1, <3>2, <3>4, PrecedesLonger
  <2>2. CASE i > Len(s)
    <3> DEFINE j == i - Len(s)
    <3>1. j \in 1 .. Len(t) /\ Len(s) + j = i /\ Len(s) + (j - 1) = i - 1
      BY <1>1, <2>2
    <3> HIDE DEF j
    <3>2. j \in DOMAIN t /\ u[i] = t[j] /\ j - 1 \in Nat /\ j - 1 <= Len(t)
      BY <1>3, <3>1
    <3>3. Precedes(t[j], k, t, j - 1)
      BY <1>4, <3>2 DEF ClosedList
    <3>4. Precedes(t[j], k, u, Len(s) + (j - 1))
      BY <3>2, <3>3, PrecedesBehind DEF u
    <3> QED
      BY <3>1, <3>2, <3>4
  <2> QED
    BY <1>1, <2>1, <2>2
<1>5. DOMAIN u = 1 .. Len(u)
  BY <1>1
<1> QED
  BY <1>4, <1>5 DEF ClosedList, u

\* A file may follow what all its includes precede.
LEMMA ClosedAppend ==
  ASSUME NEW s \in Seq(Parsed), NEW f \in Parsed, ClosedList(s),
         \A k \in DOMAIN includes[f] : Precedes(f, k, s, Len(s))
  PROVE  ClosedList(Append(s, f))
<1> DEFINE u == Append(s, f)
<1>1. u \in Seq(Parsed) /\ Len(u) = Len(s) + 1 /\ u[Len(u)] = f
  OBVIOUS
<1>2. \A j \in 1 .. Len(s) : u[j] = s[j]
  OBVIOUS
<1> HIDE DEF u
<1>3. ASSUME NEW i \in 1 .. Len(u), NEW k \in DOMAIN includes[u[i]]
      PROVE  Precedes(u[i], k, u, i - 1)
  <2>1. CASE i <= Len(s)
    <3>1. i \in DOMAIN s /\ u[i] = s[i] /\ i - 1 \in Nat
      BY <1>1, <1>2, <2>1
    <3>2. Precedes(s[i], k, s, i - 1)
      BY <1>3, <3>1 DEF ClosedList
    <3>3. \A j \in 1 .. i - 1 : j \in 1 .. Len(s)
      BY <2>1
    <3>4. \A j \in 1 .. i - 1 : u[j] = s[j]
      BY <1>2, <3>3
    <3> QED
      BY <3>1, <3>2, <3>4, PrecedesLonger
  <2>2. CASE i = Len(s) + 1
    <3>1. u[i] = f /\ i - 1 = Len(s) /\ Len(s) \in Nat
      BY <1>1, <2>2
    <3>2. Precedes(f, k, s, Len(s))
      BY <1>3, <3>1
    <3> QED
      BY <1>2, <3>1, <3>2, PrecedesLonger
  <2> QED
    BY <1>1, <2>1, <2>2
<1>4. DOMAIN u = 1 .. Len(u)
  BY <1>1
<1> QED
  BY <1>3, <1>4 DEF ClosedList, u

-----------------------------------------------------------------------------
(***************************************************************************)
(* When a call can succeed                                                 *)
(***************************************************************************)
\* A list that needs nothing else resolves each of its files: the include
\* that comes first in any part of it has none of its own there.
LEMMA ClosedListResolves ==
  ASSUME NEW s \in Seq(Parsed), ClosedList(s), NEW n \in DOMAIN s
  PROVE  Resolvable(s[n])
<1> DEFINE S == {s[i] : i \in DOMAIN s}
<1>1. S \in SUBSET Parsed /\ s[n] \in S
  OBVIOUS
<1>2. ASSUME NEW i \in DOMAIN s, NEW k \in DOMAIN includes[s[i]]
      PROVE  /\ IsFound(s[i], k)
             /\ \E j \in DOMAIN s : j < i /\ s[j] = findInclude(s[i], includes[s[i]][k])
  <2>1. Precedes(s[i], k, s, i - 1)
    BY DEF ClosedList
  <2>2. PICK j \in 1 .. i - 1 : s[j] = findInclude(s[i], includes[s[i]][k])
    BY <2>1 DEF Precedes
  <2>3. i \in 1 .. Len(s) /\ DOMAIN s = 1 .. Len(s)
    OBVIOUS
  <2>4. j \in DOMAIN s /\ j < i
    BY <2>2, <2>3
  <2> QED
    BY <2>1, <2>2, <2>4 DEF Precedes
<1>3. \A f \in S : \A k \in DOMAIN includes[f] : IsFound(f, k)
  BY <1>2
<1>4. Closed(S)
  BY <1>2 DEF Closed, IncludesTo
<1>5. ASSUME NEW T \in SUBSET S, T # {}
      PROVE  \E f \in T : \A g \in T : ~IncludesTo(f, g)
  <2> DEFINE I == {i \in DOMAIN s : s[i] \in T}
  <2>1. I \in SUBSET Nat /\ I # {}
    BY <1>5
  <2>2. PICK i \in I : \A j \in I : i <= j
    BY <2>1, LeastElement
  <2>3. ASSUME NEW g \in T, IncludesTo(s[i], g)
        PROVE  FALSE
    <3>1. PICK k \in DOMAIN includes[s[i]] : g = findInclude(s[i], includes[s[i]][k])
      BY <2>3 DEF IncludesTo
    <3>2. PICK j \in DOMAIN s : j < i /\ s[j] = g
      BY <1>2, <3>1
    <3>3. j \in I /\ j \in Nat /\ i \in Nat
      BY <3>2
    <3> QED
      BY <2>2, <3>2, <3>3
  <2> QED
    BY <2>3
<1> HIDE DEF S
<1> QED
  BY <1>1, <1>3, <1>4, <1>5 DEF Resolvable

\* A frame is one.
LEMMA FrameType ==
  ASSUME NEW s \in Seq(Frames), NEW i \in 1 .. Len(s)
  PROVE  /\ s[i] = [file |-> s[i].file, done |-> s[i].done, defs |-> s[i].defs]
         /\ s[i].file \in Parsed /\ s[i].file \in Files
         /\ s[i].done \in Nat /\ s[i].defs \in Seq(Parsed)
<1>1. s[i] \in Frames
  OBVIOUS
<1> QED
  BY ONLY <1>1 DEF Frames, Parsed

\* Whatever the file of the first frame needs, the stack leads there.
LEMMA StackInside ==
  ASSUME ResolverTypeOK, FramesLinked, stack # <<>>,
         NEW S \in SUBSET Parsed, Closed(S), stack[1].file \in S
  PROVE  Stacked \subseteq S
<1> DEFINE Out == {i \in DOMAIN stack : stack[i].file \notin S}
<1>1. SUFFICES ASSUME Out # {} PROVE FALSE
  BY DEF Stacked
<1>2. stack \in Seq(Frames) /\ DOMAIN stack = 1 .. Len(stack) /\ Len(stack) \in Nat
  BY DEF ResolverTypeOK
<1>13. Out \in SUBSET Nat
  BY <1>2
<1>3. PICK i \in Out : \A j \in Out : i <= j
  BY ONLY <1>1, <1>13, LeastElement
<1>4. i \in 1 .. Len(stack) /\ i # 1 /\ stack[i].file \notin S
  BY <1>2
<1> DEFINE j == i - 1
<1>5. j \in 1 .. Len(stack) - 1 /\ j \in DOMAIN stack /\ j + 1 = i /\ j < i
  BY <1>2, <1>4
<1>6. stack[j].file \in S
  BY <1>3, <1>4, <1>5
<1>7. stack[j].file \in Files /\ stack[j].done \in Nat
  <2>1. j \in 1 .. Len(stack)
    BY <1>2, <1>5
  <2> HIDE DEF j
  <2> QED
    BY ONLY <1>2, <2>1, FrameType
<1> HIDE DEF j
<1> DEFINE f == stack[j].file
           k == stack[j].done + 1
<1>8. /\ stack[j].done < Len(includes[f])
      /\ IsFound(f, k)
      /\ stack[i].file = findInclude(f, includes[f][k])
  BY <1>5 DEF FramesLinked
<1>9. includes[f] \in Seq(Directives)
  BY <1>7, DirectiveType
<1>10. k \in DOMAIN includes[f]
  BY <1>7, <1>8, <1>9
<1>11. IncludesTo(f, stack[i].file)
  BY <1>8, <1>10 DEF IncludesTo
<1>12. stack[i].file \in Files
  BY ONLY <1>2, <1>4, FrameType
<1> QED
  BY <1>4, <1>6, <1>11, <1>12 DEF Closed

\* The include the innermost frame has come to.
LEMMA NextDirective ==
  ASSUME ResolverTypeOK, MoreIncludes
  PROVE  /\ Len(stack) \in Nat /\ Len(stack) \in 1 .. Len(stack)
         /\ DOMAIN stack = 1 .. Len(stack)
         /\ Top \in Frames /\ Top.file \in Files /\ Top.file \in Stacked
         /\ Top.done + 1 \in DOMAIN includes[Top.file]
         /\ Directive \in Directives
         /\ stack[1].file \in Paths
<1>1. stack \in Seq(Frames) /\ stack # <<>>
  BY DEF ResolverTypeOK, MoreIncludes
<1>2. /\ Len(stack) \in Nat /\ Len(stack) \in 1 .. Len(stack)
      /\ DOMAIN stack = 1 .. Len(stack)
  BY <1>1
<1>3. Top \in Frames /\ stack[1] \in Frames
  BY <1>1 DEF Top
<1>4. Top.file \in Files /\ Top.done \in Nat /\ stack[1].file \in Files
  BY <1>3 DEF Frames, Parsed
<1>5. Top.file \in Stacked
  BY <1>2 DEF Top, Stacked
<1>6. includes[Top.file] \in Seq(Directives)
  BY <1>4, DirectiveType
<1>7. Top.done + 1 \in DOMAIN includes[Top.file]
  BY <1>4, <1>6 DEF MoreIncludes
<1>8. Directive \in Directives
  BY <1>6, <1>7 DEF Directive
<1> QED
  BY <1>2, <1>3, <1>4, <1>5, <1>7, <1>8, IncludeAssumption

\* An include that names no file, or one that cannot be parsed, dooms the call.
LEMMA MissingDooms ==
  ASSUME ResolverTypeOK, FramesLinked, MoreIncludes,
         \/ Candidates(Top.file, Directive) = {}
         \/ findInclude(Top.file, Directive) \notin Parsed
  PROVE  ~Resolvable(stack[1].file)
<1> DEFINE f == Top.file
           k == Top.done + 1
<1>1. f \in Stacked /\ f \in Files /\ k \in DOMAIN includes[f] /\ Directive = includes[f][k]
  BY NextDirective DEF Directive
<1>2. stack # <<>>
  BY DEF MoreIncludes
<1>3. SUFFICES ASSUME NEW S \in SUBSET Parsed, stack[1].file \in S, Closed(S),
                      \A g \in S : \A i \in DOMAIN includes[g] : IsFound(g, i)
               PROVE  FALSE
  BY DEF Resolvable
<1>4. f \in S
  BY <1>1, <1>2, <1>3, StackInside
<1> HIDE DEF f, k
<1>5. IsFound(f, k)
  BY <1>1, <1>3, <1>4
<1>6. findInclude(f, includes[f][k]) \in Files
  BY <1>1, <1>5, DirectiveType
<1>7. IncludesTo(f, findInclude(f, includes[f][k]))
  BY <1>1, <1>5 DEF IncludesTo
<1>8. findInclude(f, includes[f][k]) \in Parsed
  BY <1>3, <1>4, <1>6, <1>7 DEF Closed
<1> QED
  BY <1>1, <1>5, <1>8 DEF IsFound, f

\* Consecutive frames are files that include each other.
LEMMA FrameIncludes ==
  ASSUME ResolverTypeOK, FramesLinked, NEW i \in 1 .. Len(stack) - 1
  PROVE  IncludesTo(stack[i].file, stack[i + 1].file)
<1>1. stack \in Seq(Frames) /\ Len(stack) \in Nat
  BY DEF ResolverTypeOK
<1>2. i \in 1 .. Len(stack)
  BY <1>1
<1>3. stack[i].file \in Files /\ stack[i].done \in Nat
  BY ONLY <1>1, <1>2, FrameType
<1> DEFINE f == stack[i].file
           k == stack[i].done + 1
<1>4. /\ stack[i].done < Len(includes[f])
      /\ IsFound(f, k)
      /\ stack[i + 1].file = findInclude(f, includes[f][k])
  BY DEF FramesLinked
<1>5. includes[f] \in Seq(Directives)
  BY <1>3, DirectiveType
<1>6. k \in DOMAIN includes[f]
  BY <1>3, <1>4, <1>5
<1> QED
  BY <1>4, <1>6 DEF IncludesTo

LEMMA TopIncludes ==
  ASSUME ResolverTypeOK, MoreIncludes, Candidates(Top.file, Directive) # {}
  PROVE  /\ IncludesTo(Top.file, findInclude(Top.file, Directive))
         /\ findInclude(Top.file, Directive) \in Files
<1>1. Top.file \in Files /\ Directive \in Directives
      /\ Top.done + 1 \in DOMAIN includes[Top.file]
  BY NextDirective
<1>2. findInclude(Top.file, Directive) \in Files
  BY <1>1, FindIncludeFile
<1> QED
  BY <1>1, <1>2 DEF IncludesTo, IsFound, Directive

\* An include of a file in progress dooms the call: every file on the stack
\* includes another one there.
LEMMA CycleDooms ==
  ASSUME ResolverTypeOK, FramesLinked, MoreIncludes,
         Candidates(Top.file, Directive) # {},
         findInclude(Top.file, Directive) \in Stacked
  PROVE  ~Resolvable(stack[1].file)
<1>1. /\ Len(stack) \in Nat /\ Len(stack) \in 1 .. Len(stack) /\ DOMAIN stack = 1 .. Len(stack)
      /\ Top.file \in Stacked
  BY NextDirective
<1>2. stack # <<>>
  BY DEF MoreIncludes
<1>3. SUFFICES ASSUME NEW S \in SUBSET Parsed, stack[1].file \in S, Closed(S),
                      \A T \in SUBSET S :
                        T # {} => \E f \in T : \A g \in T : ~IncludesTo(f, g)
               PROVE  FALSE
  BY DEF Resolvable
<1>4. Stacked \in SUBSET S /\ Stacked # {}
  BY <1>1, <1>2, <1>3, StackInside
<1>5. PICK f \in Stacked : \A g \in Stacked : ~IncludesTo(f, g)
  BY <1>3, <1>4
<1>6. PICK i \in 1 .. Len(stack) : f = stack[i].file
  BY <1>1, <1>5 DEF Stacked
<1>7. CASE i = Len(stack)
  <2>1. f = Top.file
    BY <1>6, <1>7 DEF Top
  <2> QED
    BY <1>5, <2>1, TopIncludes
<1>8. CASE i < Len(stack)
  <2>1. i \in 1 .. Len(stack) - 1 /\ i + 1 \in DOMAIN stack
    BY <1>1, <1>8
  <2>2. IncludesTo(f, stack[i + 1].file)
    BY <1>6, <2>1, FrameIncludes
  <2>3. stack[i + 1].file \in Stacked
    BY <2>1 DEF Stacked
  <2> QED
    BY <1>5, <2>2, <2>3
<1>9. i = Len(stack) \/ i < Len(stack)
  <2> DEFINE n == Len(stack)
  <2>1. n \in Nat /\ i \in 1 .. n
    BY <1>1
  <2> HIDE DEF n
  <2>2. i = n \/ i < n
    BY ONLY <2>1
  <2> QED
    BY <2>2 DEF n
<1> QED
  BY ONLY <1>7, <1>8, <1>9

\* The chain an error reports is circular.
LEMMA ChainIsCircular ==
  ASSUME ResolverTypeOK, FramesLinked, MoreIncludes,
         Candidates(Top.file, Directive) # {},
         NEW path, path = findInclude(Top.file, Directive), path \in Stacked
  PROVE  /\ Chain(path) \in Seq(Paths)
         /\ CircularFrom(stack[1].file, Chain(path))
<1> DEFINE n == Len(stack)
           c == Chain(path)
<1>1. /\ n \in 1 .. n /\ DOMAIN stack = 1 .. n /\ stack \in Seq(Frames)
      /\ Top = stack[n]
  BY NextDirective DEF ResolverTypeOK, Top
<1>2. path \in Files /\ IncludesTo(stack[n].file, path)
  BY <1>1, TopIncludes
<1>3. \A i \in 1 .. n : stack[i].file \in Paths
  <2>1. ASSUME NEW i \in 1 .. n PROVE stack[i].file \in Files
    BY ONLY <1>1, FrameType
  <2> QED
    BY <2>1, IncludeAssumption
<1> DEFINE fs == [i \in 1 .. n |-> stack[i].file]
<1>4. fs \in [1 .. n -> Paths]
  BY <1>3
<1>5. fs \in Seq(Paths) /\ Len(fs) = n
  BY ONLY <1>1, <1>4
<1>6. \A i \in 1 .. n : fs[i] = stack[i].file
  OBVIOUS
<1>7. c = Append(fs, path)
  BY <1>1 DEF Chain
<1> HIDE DEF fs, c, n
<1>8. path \in Paths
  BY <1>2, IncludeAssumption
<1>9. /\ c \in Seq(Paths) /\ Len(c) = n + 1 /\ c[n + 1] = path
      /\ \A i \in 1 .. n : c[i] = fs[i]
  BY ONLY <1>1, <1>5, <1>7, <1>8
<1>10. \A i \in 1 .. n : c[i] = stack[i].file
  BY <1>6, <1>9
<1>11. c[1] = stack[1].file
  <2>1. 1 \in 1 .. n
    BY <1>1
  <2> QED
    BY <1>10, <2>1
<1>12. \E i \in 1 .. n : c[i] = path
  BY <1>1, <1>10 DEF Stacked
<1>13. ASSUME NEW i \in 1 .. n
       PROVE  IncludesTo(c[i], c[i + 1])
  <2>1. CASE i = n
    BY <1>2, <1>9, <1>10, <2>1
  <2>2. CASE i < n
    <3>1. i \in 1 .. n - 1 /\ i + 1 \in 1 .. n
      BY <1>1, <2>2
    <3>2. IncludesTo(stack[i].file, stack[i + 1].file)
      BY <3>1, FrameIncludes DEF n
    <3> QED
      BY <1>10, <3>1, <3>2
  <2> QED
    BY <1>1, <2>1, <2>2
<1>14. Len(c) - 1 = n
  BY <1>1, <1>9
<1> QED
  BY <1>9, <1>11, <1>12, <1>13, <1>14 DEF CircularFrom, c

-----------------------------------------------------------------------------
(***************************************************************************)
(* The steps                                                               *)
(***************************************************************************)
\* No step changes the files on disk, nor what follows from them.
LEMMA GraphFixed ==
  ASSUME includes' = includes
  PROVE  /\ \A f, k : IsFound(f, k)' <=> IsFound(f, k)
         /\ \A f, k : findInclude(f, includes[f][k])' = findInclude(f, includes[f][k])
         /\ \A f, k, s, n : Precedes(f, k, s, n)' <=> Precedes(f, k, s, n)
         /\ \A s : ClosedList(s)' <=> ClosedList(s)
         /\ \A path, c : CircularFrom(path, c)' <=> CircularFrom(path, c)
         /\ \A path : Resolvable(path)' <=> Resolvable(path)
<1>1. \A f, k : IsFound(f, k)' <=> IsFound(f, k)
  BY DEF IsFound
<1>2. \A f, k : findInclude(f, includes[f][k])' = findInclude(f, includes[f][k])
  OBVIOUS
<1>3. \A f, k, s, n : Precedes(f, k, s, n)' <=> Precedes(f, k, s, n)
  BY <1>1 DEF Precedes
<1>4. \A s : ClosedList(s)' <=> ClosedList(s)
  BY <1>3 DEF ClosedList
<1>5. \A f, g : IncludesTo(f, g)' <=> IncludesTo(f, g)
  BY <1>1 DEF IncludesTo
<1>6. \A path, c : CircularFrom(path, c)' <=> CircularFrom(path, c)
  BY <1>5 DEF CircularFrom
<1>7. \A S : Closed(S)' <=> Closed(S)
  BY <1>5 DEF Closed
<1>8. \A path : Resolvable(path)' <=> Resolvable(path)
  BY <1>1, <1>5, <1>7 DEF Resolvable
<1> QED
  BY <1>1, <1>2, <1>3, <1>4, <1>6, <1>8

LEMMA InitInv == RInit => IndInv
<1> SUFFICES ASSUME RInit PROVE IndInv
  OBVIOUS
<1>1. stack = <<>> /\ result = <<>> /\ inProgress = {} /\ systemPaths = {}
      /\ DOMAIN cache = {} /\ includes \in Graphs
  BY DEF RInit
<1>2. ResolverTypeOK
  BY <1>1 DEF ResolverTypeOK
<1>3. InProgressIsStacked
  BY <1>1 DEF InProgressIsStacked, Stacked
<1>4. FramesLinked /\ FramesClosed
  BY <1>1 DEF FramesLinked, FramesClosed
<1>5. DefinitionsClosed
  BY <1>1 DEF DefinitionsClosed
<1>6. ReportedCyclesExist /\ AnswerDependsOnFilesAlone
  BY <1>1 DEF ReportedCyclesExist, AnswerDependsOnFilesAlone
<1> QED
  BY <1>2, <1>3, <1>4, <1>5, <1>6 DEF IndInv

CacheTypeOK ==
  /\ DOMAIN cache \subseteq Parsed
  /\ \A f \in DOMAIN cache : cache[f] \in [defs : Seq(Parsed), ownStart : Nat]

\* A call that ends without a frame left, with an answer that is right.
LEMMA AnswerInv ==
  ASSUME IndInv, includes' = includes, stack' = <<>>, inProgress' = {},
         systemPaths' \subseteq Files, CacheTypeOK', DefinitionsClosed',
         NEW r \in Results, result' = <<r>>,
         r.ok <=> Resolvable(r.path),
         r.cycle # <<>> => CircularFrom(r.path, r.cycle)
  PROVE  IndInv'
<1>1. ResolverTypeOK'
  BY DEF IndInv, ResolverTypeOK, CacheTypeOK
<1>2. InProgressIsStacked'
  BY DEF InProgressIsStacked, Stacked
<1>3. FramesLinked' /\ FramesClosed'
  BY DEF FramesLinked, FramesClosed
<1>5. DOMAIN result' = {1} /\ result'[1] = r
  OBVIOUS
<1>6. ReportedCyclesExist'
  BY <1>5, GraphFixed DEF ReportedCyclesExist
<1>7. AnswerDependsOnFilesAlone'
  BY <1>5, GraphFixed DEF AnswerDependsOnFilesAlone
<1> QED
  BY <1>1, <1>2, <1>3, <1>6, <1>7 DEF IndInv

\* The cache stays as it is.
LEMMA SameCache ==
  ASSUME IndInv, includes' = includes, cache' = cache
  PROVE  CacheTypeOK' /\ DefinitionsClosed'
<1>1. CacheTypeOK'
  BY DEF IndInv, ResolverTypeOK, CacheTypeOK
<1>2. DefinitionsClosed'
  BY GraphFixed DEF IndInv, DefinitionsClosed
<1> QED
  BY <1>1, <1>2

\* An error that is right.
LEMMA UnwindInv ==
  ASSUME IndInv, NEW path \in Paths, NEW cycle \in Seq(Paths), Unwind(path, cycle),
         systemPaths' \subseteq Files, ~Resolvable(path),
         cycle # <<>> => CircularFrom(path, cycle)
  PROVE  IndInv'
<1> DEFINE r == [path |-> path, ok |-> FALSE, cycle |-> cycle]
<1>1. r \in Results /\ r.ok = FALSE /\ r.path = path /\ r.cycle = cycle
  BY DEF Results
<1>2. /\ includes' = includes /\ stack' = <<>> /\ cache' = cache
      /\ result' = <<r>> /\ inProgress' = inProgress \ Stacked
  BY DEF Unwind
<1>3. inProgress' = {}
  BY <1>2 DEF IndInv, InProgressIsStacked
<1>4. /\ r.ok <=> Resolvable(r.path)
      /\ r.cycle # <<>> => CircularFrom(r.path, r.cycle)
  BY <1>1
<1> HIDE DEF r
<1> QED
  BY <1>1, <1>2, <1>3, <1>4, SameCache, AnswerInv

\* A frame that is opened for the file the innermost frame has come to.
LEMMA OpenInv ==
  ASSUME IndInv, NEW path, Opens(path), Open(path), systemPaths' \subseteq Files,
         \/ stack = <<>>
         \/ MoreIncludes /\ path = findInclude(Top.file, Directive)
              /\ Candidates(Top.file, Directive) # {}
  PROVE  IndInv'
<1> DEFINE n == Len(stack)
           new == [file |-> path, done |-> 0, defs |-> <<>>]
<1>1. /\ stack \in Seq(Frames) /\ n \in Nat /\ DOMAIN stack = 1 .. n
      /\ path \in Parsed /\ path \notin DOMAIN cache /\ path \notin inProgress
  BY DEF IndInv, ResolverTypeOK, Opens, Cached, Parsed
<1>2. /\ new \in Frames /\ new.file = path /\ new.done = 0 /\ new.defs = <<>>
  BY <1>1 DEF Frames
<1>3. /\ stack' = Append(stack, new) /\ inProgress' = inProgress \cup {path}
      /\ includes' = includes /\ cache' = cache /\ result' = result
  BY DEF Open
<1> HIDE DEF new
<1>4. /\ stack' \in Seq(Frames) /\ Len(stack') = n + 1 /\ DOMAIN stack' = 1 .. n + 1
      /\ stack'[n + 1] = new
      /\ \A i \in 1 .. n : stack'[i] = stack[i]
  BY ONLY <1>1, <1>2, <1>3
<1> HIDE DEF n
<1>5. \A i \in 1 .. n + 1 : i \in 1 .. n \/ i = n + 1
  BY ONLY <1>1
<1>6. ResolverTypeOK'
  <2>1. \A i \in DOMAIN stack' : stack'[i].done <= Len(includes'[stack'[i].file])
    <3>1. includes[path] \in Seq(Directives)
      BY <1>1, DirectiveType DEF Parsed, IndInv
    <3>2. 0 <= Len(includes[path])
      BY <3>1
    <3>3. \A i \in 1 .. n : stack[i].done <= Len(includes[stack[i].file])
      BY <1>1 DEF IndInv, ResolverTypeOK
    <3> QED
      BY ONLY <1>2, <1>3, <1>4, <1>5, <3>2, <3>3
  <2>2. inProgress' \subseteq Parsed
    BY <1>1, <1>3 DEF IndInv, ResolverTypeOK
  <2> QED
    BY <1>3, <1>4, <2>1, <2>2 DEF IndInv, ResolverTypeOK
<1>7. InProgressIsStacked'
  <2>1. Stacked' = Stacked \cup {path}
    BY <1>1, <1>2, <1>4, <1>5 DEF Stacked
  <2>2. path \notin Stacked
    BY <1>1 DEF IndInv, InProgressIsStacked
  <2>3. ASSUME NEW i \in 1 .. n + 1, NEW j \in 1 .. n + 1, i # j
        PROVE  stack'[i].file # stack'[j].file
    <3>1. \A k \in 1 .. n : stack[k].file # path
      BY <1>1, <2>2 DEF Stacked
    <3>2. CASE i \in 1 .. n /\ j \in 1 .. n
      BY <1>1, <1>4, <2>3, <3>2 DEF IndInv, InProgressIsStacked
    <3>3. CASE i = n + 1 \/ j = n + 1
      BY ONLY <1>2, <1>4, <1>5, <2>3, <3>1, <3>3
    <3> QED
      BY <1>5, <3>2, <3>3
  <2>4. inProgress' \cap DOMAIN cache' = {}
    BY <1>1, <1>3 DEF IndInv, InProgressIsStacked
  <2> QED
    BY <1>3, <1>4, <2>1, <2>3, <2>4 DEF IndInv, InProgressIsStacked
<1>8. FramesLinked'
  <2>1. ASSUME NEW i \in 1 .. n
        PROVE  /\ stack[i].done < Len(includes[stack[i].file])
               /\ IsFound(stack[i].file, stack[i].done + 1)
               /\ stack'[i + 1].file =
                    findInclude(stack[i].file, includes[stack[i].file][stack[i].done + 1])
    <3>1. CASE i = n
      <4>1. stack # <<>>
        BY <1>1, <3>1 DEF n
      <4>2. stack[i] = Top
        BY <3>1 DEF n, Top
      <4> QED
        BY <1>2, <1>4, <3>1, <4>1, <4>2 DEF MoreIncludes, IsFound, Directive
    <3>2. CASE i # n
      <4>1. i \in 1 .. n - 1 /\ i + 1 \in 1 .. n
        BY ONLY <1>1, <3>2, i \in 1 .. n
      <4>2. stack'[i + 1] = stack[i + 1]
        BY <1>4, <4>1
      <4> QED
        BY <4>1, <4>2 DEF IndInv, FramesLinked, n
    <3> QED
      BY <3>1, <3>2
  <2>2. Len(stack') - 1 = n
    BY <1>1, <1>4
  <2> QED
    BY <1>3, <1>4, <2>1, <2>2, GraphFixed DEF FramesLinked
<1>9. FramesClosed'
  <2>1. Collected(new)'
    BY <1>2 DEF Collected, ClosedList
  <2>2. ASSUME NEW i \in 1 .. n PROVE Collected(stack[i])'
    <3>1. Collected(stack[i])
      BY <1>1 DEF IndInv, FramesClosed
    <3> QED
      BY <1>3, <1>4, <3>1, GraphFixed DEF Collected
  <2> QED
    BY <1>3, <1>4, <1>5, <2>1, <2>2 DEF FramesClosed
<1>10. DefinitionsClosed'
  BY <1>3, GraphFixed DEF IndInv, DefinitionsClosed
<1>11. ReportedCyclesExist'
  BY <1>3, GraphFixed DEF IndInv, ReportedCyclesExist
<1>12. AnswerDependsOnFilesAlone'
  BY <1>3, GraphFixed DEF IndInv, AnswerDependsOnFilesAlone
<1> QED
  BY <1>6, <1>7, <1>8, <1>9, <1>10, <1>11, <1>12 DEF IndInv

LEMMA Prefix ==
  ASSUME NEW S, NEW s \in Seq(S), NEW m \in 0 .. Len(s)
  PROVE  /\ SubSeq(s, 1, m) \in Seq(S) /\ Len(SubSeq(s, 1, m)) = m
         /\ \A i \in 1 .. m : SubSeq(s, 1, m)[i] = s[i]
  OBVIOUS

\* The frames after an included file's definitions were taken.
LEMMA ResumedFrames ==
  ASSUME NEW s \in Seq(Frames), Len(s) # 0, NEW d \in Seq(Parsed)
  PROVE  /\ Resumed(s, d) \in Seq(Frames) /\ Len(Resumed(s, d)) = Len(s)
         /\ \A i \in 1 .. Len(s) - 1 : Resumed(s, d)[i] = s[i]
         /\ Resumed(s, d)[Len(s)].file = s[Len(s)].file
         /\ Resumed(s, d)[Len(s)].done = s[Len(s)].done + 1
         /\ Resumed(s, d)[Len(s)].defs = s[Len(s)].defs \o d
<1> DEFINE n == Len(s)
           r == Resumed(s, d)
           t == SubSeq(s, 1, n - 1)
           new == [file |-> s[n].file, done |-> s[n].done + 1, defs |-> s[n].defs \o d]
<1>1. n \in Nat /\ n - 1 \in 0 .. Len(s) /\ n \in 1 .. Len(s)
  OBVIOUS
<1>2. s[n].file \in Parsed /\ s[n].done \in Nat /\ s[n].defs \in Seq(Parsed)
  BY <1>1, FrameType
<1>3. s[n].defs \o d \in Seq(Parsed) /\ s[n].done + 1 \in Nat
  BY <1>2
<1>4. new \in Frames /\ new.file = s[n].file /\ new.done = s[n].done + 1
      /\ new.defs = s[n].defs \o d
  BY <1>2, <1>3 DEF Frames
<1>5. t \in Seq(Frames) /\ Len(t) = n - 1 /\ \A i \in 1 .. n - 1 : t[i] = s[i]
  BY ONLY <1>1, s \in Seq(Frames), Prefix
<1>6. r = Append(t, new)
  BY DEF Resumed
<1> HIDE DEF n, r, t, new
<1>7. /\ r \in Seq(Frames) /\ Len(r) = n /\ r[n] = new
      /\ \A i \in 1 .. n - 1 : r[i] = s[i]
  BY ONLY <1>1, <1>4, <1>5, <1>6
<1>8. /\ r[n].file = s[n].file /\ r[n].done = s[n].done + 1
      /\ r[n].defs = s[n].defs \o d
  BY ONLY <1>4, <1>7
<1> QED
  BY ONLY <1>7, <1>8 DEF n, r

\* What a resumed frame has collected.
LEMMA ResumedCollected ==
  ASSUME NEW frame, NEW new, NEW d \in Seq(Parsed), NEW m \in 1 .. Len(d),
         frame.done \in Nat, frame.defs \in Seq(Parsed), Collected(frame),
         new.file = frame.file, new.done = frame.done + 1,
         new.defs = frame.defs \o d,
         ClosedList(d), IsFound(frame.file, frame.done + 1),
         d[m] = findInclude(frame.file, includes[frame.file][frame.done + 1])
  PROVE  Collected(new)
<1> DEFINE f == frame.file
           s == frame.defs
           u == s \o d
<1>1. ClosedList(u)
  BY ClosedConcat DEF Collected
<1>2. s \in Seq(Parsed) /\ Len(s) \in Nat /\ Len(d) \in Nat
      /\ u \in Seq(Parsed) /\ Len(u) = Len(s) + Len(d)
      /\ \A j \in 1 .. Len(s) : u[j] = s[j]
  OBVIOUS
<1>4. u[Len(s) + m] = d[m]
  OBVIOUS
<1> HIDE DEF f, s, u
<1>3. ASSUME NEW k \in 1 .. frame.done + 1
      PROVE  Precedes(f, k, u, Len(u))
  <2>1. CASE k \in 1 .. frame.done
    <3>1. Precedes(f, k, s, Len(s))
      BY <2>1 DEF Collected, f, s
    <3>2. Len(s) <= Len(u) /\ Len(u) \in Nat
      BY ONLY <1>2
    <3> QED
      BY <1>2, <3>1, <3>2, PrecedesLonger
  <2>2. CASE k = frame.done + 1
    <3>1. Len(s) + m \in 1 .. Len(u)
      BY ONLY <1>2, m \in 1 .. Len(d)
    <3>2. d[m] = findInclude(f, includes[f][k])
      BY <2>2 DEF f
    <3>3. u[Len(s) + m] = findInclude(f, includes[f][k])
      BY ONLY <1>4, <3>2
    <3> QED
      BY <2>2, <3>1, <3>3 DEF Precedes, f
  <2> QED
    BY <2>1, <2>2
<1> QED
  BY <1>1, <1>3 DEF Collected, f, s, u

\* One of the frames goes on with the definitions of the file it waits for.
LEMMA ResumeInv ==
  ASSUME IndInv, includes' = includes,
         NEW m \in 1 .. Len(stack), NEW d \in Seq(Parsed), ClosedList(d),
         NEW l \in 1 .. Len(d),
         stack[m].done < Len(includes[stack[m].file]),
         IsFound(stack[m].file, stack[m].done + 1),
         d[l] = findInclude(stack[m].file, includes[stack[m].file][stack[m].done + 1]),
         stack' = Resumed(SubSeq(stack, 1, m), d)
  PROVE  /\ stack' \in Seq(Frames)
         /\ \A i \in DOMAIN stack' : stack'[i].done <= Len(includes[stack'[i].file])
         /\ DOMAIN stack' = 1 .. m
         /\ \A i \in 1 .. m : stack'[i].file = stack[i].file
         /\ FramesLinked' /\ FramesClosed'
<1> DEFINE s == SubSeq(stack, 1, m)
           n == Len(stack)
<1>1. stack \in Seq(Frames) /\ n \in Nat /\ DOMAIN stack = 1 .. n
  BY DEF IndInv, ResolverTypeOK
<1>2. /\ s \in Seq(Frames) /\ Len(s) = m /\ s # <<>> /\ m \in Nat /\ m \in 1 .. m
      /\ \A i \in 1 .. m : s[i] = stack[i]
  <2>1. m \in Nat /\ m \in 0 .. Len(stack) /\ m # 0
    BY <1>1
  <2>2. /\ s \in Seq(Frames) /\ Len(s) = m
        /\ \A i \in 1 .. m : s[i] = stack[i]
    BY ONLY <1>1, <2>1, Prefix
  <2> HIDE DEF s
  <2> QED
    BY ONLY <2>1, <2>2
<1>13. stack' = Resumed(s, d)
  OBVIOUS
<1> HIDE DEF s
<1>3. /\ stack' \in Seq(Frames) /\ Len(stack') = m
      /\ \A i \in 1 .. m - 1 : stack'[i] = s[i]
      /\ stack'[m].file = s[m].file
      /\ stack'[m].done = s[m].done + 1
      /\ stack'[m].defs = s[m].defs \o d
  <2>1. s \in Seq(Frames) /\ m \in Nat /\ m = Len(s) /\ m # 0 /\ d \in Seq(Parsed)
    BY <1>2
  <2> DEFINE r == stack'
  <2>2. r = Resumed(s, d)
    BY ONLY <1>13
  <2> HIDE DEF r
  <2>3. /\ r \in Seq(Frames) /\ Len(r) = m
        /\ \A i \in 1 .. m - 1 : r[i] = s[i]
        /\ r[m].file = s[m].file
        /\ r[m].done = s[m].done + 1
        /\ r[m].defs = s[m].defs \o d
    BY ONLY <2>1, <2>2, ResumedFrames
  <2> QED
    BY ONLY <2>3 DEF r
<1>4. /\ \A i \in 1 .. m - 1 : stack'[i] = stack[i]
      /\ stack'[m].file = stack[m].file
      /\ stack'[m].done = stack[m].done + 1
      /\ stack'[m].defs = stack[m].defs \o d
      /\ DOMAIN stack' = 1 .. m
  <2>1. DOMAIN stack' = 1 .. m
    BY ONLY <1>3
  <2>2. \A i \in 1 .. m - 1 : i \in 1 .. m
    BY ONLY <1>2
  <2> QED
    BY ONLY <1>2, <1>3, <2>1, <2>2
<1>5. \A i \in 1 .. m : i \in 1 .. m - 1 \/ i = m
  BY <1>2
<1>6. \A i \in 1 .. m : i \in 1 .. n
  BY <1>1, <1>2 DEF n
<1>7. \A i \in 1 .. m : stack'[i].file = stack[i].file
  BY <1>4, <1>5
<1>8. stack[m].done \in Nat /\ stack[m].defs \in Seq(Parsed)
      /\ stack[m].file \in Files /\ Len(includes[stack[m].file]) \in Nat
  <2>1. stack[m].done \in Nat /\ stack[m].defs \in Seq(Parsed) /\ stack[m].file \in Files
    BY <1>1, FrameType
  <2>2. includes[stack[m].file] \in Seq(Directives)
    BY <2>1, DirectiveType DEF IndInv
  <2> QED
    BY <2>1, <2>2
<1>9. \A i \in DOMAIN stack' : stack'[i].done <= Len(includes[stack'[i].file])
  <2>1. \A i \in 1 .. m - 1 : stack[i].done <= Len(includes[stack[i].file])
    <3>1. \A i \in DOMAIN stack : stack[i].done <= Len(includes[stack[i].file])
      BY DEF IndInv, ResolverTypeOK
    <3>2. \A i \in 1 .. m - 1 : i \in 1 .. m
      BY ONLY <1>2
    <3> QED
      BY ONLY <1>1, <1>6, <3>1, <3>2
  <2>2. stack[m].done + 1 <= Len(includes[stack[m].file])
    BY <1>8
  <2> QED
    BY <1>4, <1>5, <2>1, <2>2
<1>10. FramesLinked'
  <2>1. ASSUME NEW i \in 1 .. m - 1
        PROVE  /\ stack'[i].done < Len(includes[stack'[i].file])
               /\ IsFound(stack'[i].file, stack'[i].done + 1)
               /\ stack'[i + 1].file =
                    findInclude(stack'[i].file, includes[stack'[i].file][stack'[i].done + 1])
    <3>1. i \in 1 .. n - 1 /\ i + 1 \in 1 .. m
      BY <1>1, <1>2 DEF n
    <3>2. stack'[i] = stack[i] /\ stack'[i + 1].file = stack[i + 1].file
      BY <1>4, <1>7, <3>1
    <3> QED
      BY <3>1, <3>2 DEF IndInv, FramesLinked, n
  <2> QED
    BY <1>3, <2>1, GraphFixed DEF FramesLinked
<1>11. FramesClosed'
  <2>1. Collected(stack'[m])
    <3>1. Collected(stack[m])
      BY <1>1 DEF IndInv, FramesClosed
    <3> QED
      BY <1>4, <1>8, <3>1, ResumedCollected
  <2>2. \A i \in 1 .. m - 1 : Collected(stack'[i])
    BY <1>1, <1>2, <1>4, <1>6 DEF IndInv, FramesClosed
  <2>3. \A i \in 1 .. m : Collected(stack'[i])
    BY <1>5, <2>1, <2>2
  <2>4. \A frame : Collected(frame)' <=> Collected(frame)
    BY GraphFixed DEF Collected
  <2> QED
    BY <1>4, <2>3, <2>4 DEF FramesClosed
<1> QED
  BY <1>3, <1>4, <1>7, <1>9, <1>10, <1>11

LEMMA ResolveFileInv ==
  ASSUME IndInv, NEW path \in Paths, ResolveFile(path)
  PROVE  IndInv'
<1>1. stack = <<>> /\ systemPaths' \subseteq Files
  BY DEF ResolveFile, IndInv, ResolverTypeOK
<1>2. inProgress = {}
  BY <1>1 DEF IndInv, InProgressIsStacked, Stacked
<1>3. CASE /\ Cached(path)
           /\ result' = <<[path |-> path, ok |-> TRUE, cycle |-> <<>>]>>
           /\ UNCHANGED <<includes, cache, inProgress, stack>>
  <2> DEFINE r == [path |-> path, ok |-> TRUE, cycle |-> <<>>]
             c == cache[path]
  <2>1. r \in Results /\ r.ok = TRUE /\ r.path = path /\ r.cycle = <<>>
    BY DEF Results
  <2>2. c.defs \in Seq(Parsed) /\ c.ownStart \in Nat
    BY <1>3 DEF Cached, IndInv, ResolverTypeOK
  <2>3. Len(c.defs) = c.ownStart + 1 /\ c.defs[c.ownStart + 1] = path /\ ClosedList(c.defs)
    BY <1>3 DEF Cached, IndInv, DefinitionsClosed
  <2>4. c.ownStart + 1 \in DOMAIN c.defs
    BY <2>2, <2>3
  <2> HIDE DEF r, c
  <2>5. Resolvable(path)
    BY <2>2, <2>3, <2>4, ClosedListResolves
  <2>6. result' = <<r>> /\ stack' = <<>> /\ inProgress' = {}
        /\ includes' = includes /\ cache' = cache
    BY <1>1, <1>2, <1>3 DEF r
  <2>7. /\ r.ok <=> Resolvable(r.path)
        /\ r.cycle # <<>> => CircularFrom(r.path, r.cycle)
    BY <2>1, <2>5
  <2> QED
    BY <1>1, <2>1, <2>6, <2>7, SameCache, AnswerInv
<1>4. CASE Opens(path) /\ Open(path)
  BY <1>1, <1>4, OpenInv
<1>5. CASE ~Cached(path) /\ ~Opens(path) /\ Unwind(path, <<>>)
  <2>1. path \notin Parsed
    BY <1>2, <1>5 DEF Opens, Parsed
  <2>2. ~Resolvable(path)
    BY <2>1 DEF Resolvable
  <2>3. <<>> \in Seq(Paths)
    OBVIOUS
  <2> QED
    BY <1>1, <1>5, <2>2, <2>3, UnwindInv
<1> QED
  BY <1>3, <1>4, <1>5 DEF ResolveFile

LEMMA IncludeMissingInv ==
  ASSUME IndInv, IncludeMissing
  PROVE  IndInv'
<1>1. /\ MoreIncludes /\ Candidates(Top.file, Directive) = {}
      /\ Unwind(stack[1].file, <<>>) /\ systemPaths' = systemPaths
  BY DEF IncludeMissing
<1>2. stack[1].file \in Paths
  BY <1>1, NextDirective DEF IndInv
<1>3. ~Resolvable(stack[1].file)
  BY <1>1, MissingDooms DEF IndInv
<1>4. <<>> \in Seq(Paths) /\ systemPaths' \subseteq Files
  BY <1>1 DEF IndInv, ResolverTypeOK
<1> QED
  BY <1>1, <1>2, <1>3, <1>4, UnwindInv

LEMMA ResolveIncludeInv ==
  ASSUME IndInv, ResolveInclude
  PROVE  IndInv'
<1> DEFINE path == findInclude(Top.file, Directive)
<1>1. MoreIncludes /\ Candidates(Top.file, Directive) # {}
  BY DEF ResolveInclude
<1>2. path \in Files
  BY <1>1, TopIncludes DEF IndInv
<1>3. systemPaths' \subseteq Files
  BY <1>2 DEF ResolveInclude, IndInv, ResolverTypeOK
<1>4. /\ stack \in Seq(Frames) /\ Len(stack) \in Nat
      /\ Len(stack) \in 1 .. Len(stack) /\ DOMAIN stack = 1 .. Len(stack)
      /\ stack[1].file \in Paths
  BY <1>1, NextDirective DEF IndInv, ResolverTypeOK
<1>5. CASE /\ Cached(path)
           /\ stack' = Resumed(stack, cache[path].defs)
           /\ UNCHANGED <<includes, cache, inProgress, result>>
  <2> DEFINE d == cache[path].defs
             n == Len(stack)
  <2>1. d \in Seq(Parsed) /\ cache[path].ownStart \in Nat
    BY <1>5 DEF Cached, IndInv, ResolverTypeOK
  <2>2. Len(d) = cache[path].ownStart + 1 /\ d[cache[path].ownStart + 1] = path
        /\ ClosedList(d)
    BY <1>5 DEF Cached, IndInv, DefinitionsClosed
  <2>3. Len(d) \in 1 .. Len(d) /\ d[Len(d)] = path
    BY <2>1, <2>2
  <2>4. SubSeq(stack, 1, n) = stack
    BY <1>4
  <2>5. /\ stack[n].done < Len(includes[stack[n].file])
        /\ IsFound(stack[n].file, stack[n].done + 1)
        /\ path = findInclude(stack[n].file, includes[stack[n].file][stack[n].done + 1])
    BY <1>1 DEF MoreIncludes, Top, Directive, IsFound
  <2> HIDE DEF d, path
  <2>6. stack' = Resumed(SubSeq(stack, 1, n), d) /\ includes' = includes
    BY <1>5, <2>4 DEF d
  <2>7. d[Len(d)] = findInclude(stack[n].file, includes[stack[n].file][stack[n].done + 1])
    BY <2>3, <2>5
  <2>8. /\ stack' \in Seq(Frames)
        /\ \A i \in DOMAIN stack' : stack'[i].done <= Len(includes[stack'[i].file])
        /\ DOMAIN stack' = 1 .. n
        /\ \A i \in 1 .. n : stack'[i].file = stack[i].file
        /\ FramesLinked' /\ FramesClosed'
    BY <1>4, <2>1, <2>2, <2>3, <2>5, <2>6, <2>7, ResumeInv
  <2>9. /\ cache' = cache /\ inProgress' = inProgress /\ result' = result
        /\ includes' = includes
    BY <1>5
  <2>10. ResolverTypeOK'
    BY <1>3, <2>8, <2>9 DEF IndInv, ResolverTypeOK
  <2>11. InProgressIsStacked'
    <3>1. Stacked' = Stacked
      BY <1>4, <2>8 DEF Stacked
    <3> QED
      BY <1>4, <2>8, <2>9, <3>1 DEF IndInv, InProgressIsStacked
  <2>12. DefinitionsClosed'
    BY <2>9, GraphFixed DEF IndInv, DefinitionsClosed
  <2>13. ReportedCyclesExist'
    BY <2>9, GraphFixed DEF IndInv, ReportedCyclesExist
  <2>14. AnswerDependsOnFilesAlone'
    BY <2>9, GraphFixed DEF IndInv, AnswerDependsOnFilesAlone
  <2> QED
    BY <2>8, <2>10, <2>11, <2>12, <2>13, <2>14 DEF IndInv
<1>6. CASE Opens(path) /\ Open(path)
  BY <1>1, <1>3, <1>6, OpenInv
<1>7. CASE /\ ~Cached(path) /\ ~Opens(path)
           /\ Unwind(stack[1].file, IF path \in inProgress THEN Chain(path) ELSE <<>>)
  <2>1. CASE path \in inProgress
    <3>1. path \in Stacked
      BY <2>1 DEF IndInv, InProgressIsStacked
    <3>2. /\ Chain(path) \in Seq(Paths)
          /\ CircularFrom(stack[1].file, Chain(path))
      BY <1>1, <3>1, ChainIsCircular DEF IndInv
    <3>3. ~Resolvable(stack[1].file)
      BY <1>1, <3>1, CycleDooms DEF IndInv
    <3>4. Unwind(stack[1].file, Chain(path))
      BY <1>7, <2>1
    <3> HIDE DEF path
    <3> QED
      BY <1>3, <1>4, <3>2, <3>3, <3>4, UnwindInv
  <2>2. CASE path \notin inProgress
    <3>1. path \notin Parsed
      BY <1>7, <2>2 DEF Opens, Parsed
    <3>2. ~Resolvable(stack[1].file)
      BY <1>1, <3>1, MissingDooms DEF IndInv
    <3>3. Unwind(stack[1].file, <<>>) /\ <<>> \in Seq(Paths)
      BY <1>7, <2>2
    <3> HIDE DEF path
    <3> QED
      BY <1>3, <1>4, <3>2, <3>3, UnwindInv
  <2> QED
    BY <2>1, <2>2
<1> QED
  BY <1>5, <1>6, <1>7 DEF ResolveInclude

LEMMA ReturnInv ==
  ASSUME IndInv, Return
  PROVE  IndInv'
<1> DEFINE n == Len(stack)
           f == Top.file
           s == Top.defs
           d == Append(s, f)
<1>1. /\ stack \in Seq(Frames) /\ n \in Nat /\ n \in 1 .. n /\ DOMAIN stack = 1 .. n
      /\ stack[n] = Top /\ stack # <<>> /\ ~MoreIncludes
  BY DEF Return, Top, IndInv, ResolverTypeOK
<1>2. /\ f \in Parsed /\ f \in Files /\ Top.done \in Nat /\ s \in Seq(Parsed)
      /\ includes[f] \in Seq(Directives)
  <2>1. f \in Parsed /\ f \in Files /\ Top.done \in Nat /\ s \in Seq(Parsed)
    BY ONLY <1>1, FrameType
  <2> QED
    BY <2>1, DirectiveType DEF IndInv
<1>3. /\ DOMAIN includes[f] = 1 .. Top.done
  <2>1. Top.done <= Len(includes[f])
    BY <1>1 DEF IndInv, ResolverTypeOK
  <2>2. ~ (Top.done < Len(includes[f]))
    BY <1>1 DEF MoreIncludes
  <2> QED
    BY <1>2, <2>1, <2>2
<1>4. Collected(Top)
  BY <1>1 DEF IndInv, FramesClosed
<1>5. ClosedList(d)
  BY <1>2, <1>3, <1>4, ClosedAppend DEF Collected
<1>6. d \in Seq(Parsed) /\ Len(d) \in 1 .. Len(d) /\ d[Len(d)] = f /\ Len(d) = Len(s) + 1
      /\ Len(s) \in Nat
  BY <1>2
<1>7. /\ Merged(Top).defs = d /\ Merged(Top).ownStart = Len(s)
      /\ Merged(Top) \in [defs : Seq(Parsed), ownStart : Nat]
  BY <1>6 DEF Merged
<1>8. /\ includes' = includes /\ systemPaths' \subseteq Files
      /\ inProgress' = inProgress \ {f}
      /\ cache' = [g \in DOMAIN cache \cup {f} |->
                     IF g = f THEN Merged(Top) ELSE cache[g]]
  BY DEF Return, IndInv, ResolverTypeOK
<1>9. f \in Stacked /\ f \notin DOMAIN cache
  BY <1>1 DEF Stacked, IndInv, InProgressIsStacked
<1> DEFINE callers == SubSeq(stack, 1, n - 1)
<1>10. \/ /\ callers = <<>> /\ stack' = <<>>
          /\ result' = <<[path |-> f, ok |-> TRUE, cycle |-> <<>>]>>
       \/ callers # <<>> /\ stack' = Resumed(callers, d) /\ result' = result
  BY <1>7 DEF Return
<1> HIDE DEF f, s, d
<1>11. /\ DOMAIN cache' = DOMAIN cache \cup {f} /\ cache'[f] = Merged(Top)
       /\ \A g \in DOMAIN cache : cache'[g] = cache[g]
  BY <1>8, <1>9
<1>12. CacheTypeOK'
  BY <1>2, <1>7, <1>11 DEF IndInv, ResolverTypeOK, CacheTypeOK
<1>13. DefinitionsClosed'
  <2>1. /\ Len(cache'[f].defs) = cache'[f].ownStart + 1
        /\ cache'[f].defs[cache'[f].ownStart + 1] = f
        /\ ClosedList(cache'[f].defs)
    BY <1>5, <1>6, <1>7, <1>11
  <2>2. ASSUME NEW g \in DOMAIN cache
        PROVE  /\ Len(cache'[g].defs) = cache'[g].ownStart + 1
               /\ cache'[g].defs[cache'[g].ownStart + 1] = g
               /\ ClosedList(cache'[g].defs)
    BY <1>11 DEF IndInv, DefinitionsClosed
  <2> QED
    BY <1>8, <1>11, <2>1, <2>2, GraphFixed DEF DefinitionsClosed
<1>14. CASE callers = <<>> /\ stack' = <<>>
            /\ result' = <<[path |-> f, ok |-> TRUE, cycle |-> <<>>]>>
  <2>1. n = 1
    <3>1. n - 1 \in 0 .. Len(stack)
      BY <1>1
    <3>2. Len(callers) = n - 1
      BY ONLY <1>1, <3>1, Prefix
    <3>3. Len(callers) = 0
      <4>1. callers = <<>>
        BY <1>14
      <4> HIDE DEF callers
      <4> QED
        BY ONLY <4>1
    <3> QED
      BY ONLY <1>1, <3>2, <3>3
  <2>2. inProgress' = {}
    BY <1>1, <1>8, <2>1 DEF IndInv, InProgressIsStacked, Stacked, f
  <2> DEFINE r == [path |-> f, ok |-> TRUE, cycle |-> <<>>]
  <2>3. r \in Results /\ r.ok = TRUE /\ r.path = f /\ r.cycle = <<>>
    BY <1>2, IncludeAssumption DEF Results
  <2>4. Resolvable(f)
    BY <1>5, <1>6, ClosedListResolves
  <2>5. result' = <<r>>
    BY <1>14
  <2> HIDE DEF r
  <2>6. /\ r.ok <=> Resolvable(r.path)
        /\ r.cycle # <<>> => CircularFrom(r.path, r.cycle)
    BY <2>3, <2>4
  <2> QED
    BY <1>8, <1>12, <1>13, <1>14, <2>2, <2>3, <2>5, <2>6, AnswerInv
<1>15. CASE callers # <<>> /\ stack' = Resumed(callers, d) /\ result' = result
  <2> DEFINE m == n - 1
  <2>1. m \in 1 .. n /\ m \in 1 .. n - 1 /\ m + 1 = n /\ m \in Nat
    <3>1. n # 1
      <4>1. n = 1 => callers = <<>>
        BY <1>1
      <4> QED
        BY ONLY <1>15, <4>1
    <3> QED
      BY ONLY <1>1, <3>1
  <2>2. stack' = Resumed(SubSeq(stack, 1, m), d)
    BY <1>15
  <2> HIDE DEF m
  <2>3. /\ stack[m].done < Len(includes[stack[m].file])
        /\ IsFound(stack[m].file, stack[m].done + 1)
        /\ stack[n].file =
             findInclude(stack[m].file, includes[stack[m].file][stack[m].done + 1])
    BY <2>1 DEF IndInv, FramesLinked
  <2>4. d[Len(d)] =
          findInclude(stack[m].file, includes[stack[m].file][stack[m].done + 1])
    BY <1>1, <1>6, <2>3 DEF f
  <2> HIDE DEF n
  <2>5. m \in 1 .. Len(stack)
    BY <2>1 DEF n
  <2>6. /\ stack' \in Seq(Frames)
        /\ \A i \in DOMAIN stack' : stack'[i].done <= Len(includes[stack'[i].file])
        /\ DOMAIN stack' = 1 .. m
        /\ \A i \in 1 .. m : stack'[i].file = stack[i].file
        /\ FramesLinked' /\ FramesClosed'
    BY <1>5, <1>6, <1>8, <2>2, <2>3, <2>4, <2>5, ResumeInv
  <2>7. ResolverTypeOK'
    <3>1. inProgress' \subseteq Parsed /\ result' \in Seq(Results)
      BY <1>8, <1>15 DEF IndInv, ResolverTypeOK
    <3>2. includes' \in Graphs
      BY <1>8 DEF IndInv, ResolverTypeOK
    <3> QED
      BY <1>8, <1>12, <2>6, <3>1, <3>2 DEF ResolverTypeOK, CacheTypeOK
  <2>8. InProgressIsStacked'
    <3>1. \A i \in 1 .. n : \A j \in 1 .. n : i # j => stack[i].file # stack[j].file
      BY <1>1 DEF IndInv, InProgressIsStacked
    <3>2. \A i \in 1 .. m : i \in 1 .. n /\ i # n
      BY ONLY <1>1, <2>1
    <3>3. \A i \in 1 .. n : i \in 1 .. m \/ i = n
      BY ONLY <1>1, <2>1
    <3>4. Stacked = {stack[i].file : i \in 1 .. n}
      BY <1>1 DEF Stacked
    <3>5. Stacked' = {stack[i].file : i \in 1 .. m}
      BY <2>6 DEF Stacked
    <3>6. stack[n].file = f /\ n \in 1 .. n
      BY <1>1 DEF f
    <3>7. Stacked' = Stacked \ {f}
      BY ONLY <3>1, <3>2, <3>3, <3>4, <3>5, <3>6
    <3>8. inProgress' = Stacked'
      BY <1>8, <3>7 DEF IndInv, InProgressIsStacked
    <3>9. \A i \in DOMAIN stack' : \A j \in DOMAIN stack' :
            i # j => stack'[i].file # stack'[j].file
      BY ONLY <2>6, <3>1, <3>2
    <3>10. inProgress' \cap DOMAIN cache' = {}
      BY <1>8, <1>11 DEF IndInv, InProgressIsStacked
    <3> QED
      BY <3>8, <3>9, <3>10 DEF InProgressIsStacked
  <2>9. ReportedCyclesExist'
    BY <1>8, <1>15, GraphFixed DEF IndInv, ReportedCyclesExist
  <2>10. AnswerDependsOnFilesAlone'
    BY <1>8, <1>15, GraphFixed DEF IndInv, AnswerDependsOnFilesAlone
  <2> QED
    BY <1>13, <2>6, <2>7, <2>8, <2>9, <2>10 DEF IndInv
<1> QED
  BY <1>10, <1>14, <1>15

LEMMA StutterInv ==
  ASSUME IndInv, UNCHANGED resolverVars
  PROVE  IndInv'
<1>1. /\ includes' = includes /\ cache' = cache /\ inProgress' = inProgress
      /\ systemPaths' = systemPaths /\ stack' = stack /\ result' = result
  BY DEF resolverVars
<1>2. ResolverTypeOK'
  BY <1>1 DEF IndInv, ResolverTypeOK
<1>3. InProgressIsStacked'
  BY <1>1 DEF IndInv, InProgressIsStacked, Stacked
<1>4. FramesLinked'
  BY <1>1, GraphFixed DEF IndInv, FramesLinked
<1>5. FramesClosed'
  <2>1. \A frame : Collected(frame)' <=> Collected(frame)
    BY <1>1, GraphFixed DEF Collected
  <2> QED
    BY <1>1, <2>1 DEF IndInv, FramesClosed
<1>6. DefinitionsClosed' /\ ReportedCyclesExist' /\ AnswerDependsOnFilesAlone'
  BY <1>1, GraphFixed
     DEF IndInv, DefinitionsClosed, ReportedCyclesExist, AnswerDependsOnFilesAlone
<1> QED
  BY <1>2, <1>3, <1>4, <1>5, <1>6 DEF IndInv

LEMMA NextInv == IndInv /\ [RNext]_resolverVars => IndInv'
<1> SUFFICES ASSUME IndInv, [RNext]_resolverVars PROVE IndInv'
  OBVIOUS
<1>1. CASE \E path \in Paths : ResolveFile(path)
  BY <1>1, ResolveFileInv
<1>2. CASE IncludeMissing
  BY <1>2, IncludeMissingInv
<1>3. CASE ResolveInclude
  BY <1>3, ResolveIncludeInv
<1>4. CASE Return
  BY <1>4, ReturnInv
<1>5. CASE UNCHANGED resolverVars
  BY <1>5, StutterInv
<1> QED
  BY <1>1, <1>2, <1>3, <1>4, <1>5 DEF RNext, RStep

LEMMA Invariance == RSpec => []IndInv
<1> QED
  BY InitInv, NextInv, PTL DEF RSpec

-----------------------------------------------------------------------------
(***************************************************************************)
(* Theorems                                                                *)
(***************************************************************************)
\* The resolver's state stays in its types on every include graph, and no
\* frame of ResolveFile runs past the includes of its file.
THEOREM ResolverTypes == RSpec => []ResolverTypeOK
<1>1. IndInv => ResolverTypeOK
  BY DEF IndInv
<1> QED
  BY Invariance, <1>1, PTL

\* inProgress is the set of files on the call stack, each once and none of
\* them cached, also after calls that failed at any depth.
THEOREM ProgressIsStack == RSpec => []InProgressIsStacked
<1>1. IndInv => InProgressIsStacked
  BY DEF IndInv
<1> QED
  BY Invariance, <1>1, PTL

\* Every cached file has what it may use in front of its own definitions, on
\* every graph and after every sequence of calls.
THEOREM DefinitionsComplete == RSpec => []DefinitionsClosed
<1>1. IndInv => DefinitionsClosed
  BY DEF IndInv
<1> QED
  BY Invariance, <1>1, PTL

\* A reported circular include is a circle of includes on disk.
THEOREM CyclesAreReal == RSpec => []ReportedCyclesExist
<1>1. IndInv => ReportedCyclesExist
  BY DEF IndInv
<1> QED
  BY Invariance, <1>1, PTL

\* ResolveFile succeeds exactly for the files that are there with all they
\* include and without a circle, whatever was called before.
THEOREM AnswersFollowFiles == RSpec => []AnswerDependsOnFilesAlone
<1>1. IndInv => AnswerDependsOnFilesAlone
  BY DEF IndInv
<1> QED
  BY Invariance, <1>1, PTL
=============================================================================
