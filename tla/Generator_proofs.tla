--------------------------- MODULE Generator_proofs ---------------------------
(***************************************************************************)
(* What holds of the output directory for any files, any calls, and        *)
(* wherever programs fail.                                                 *)
(***************************************************************************)
EXTENDS Generator, WellFoundedInduction, TLAPS

\* What was generated for or found in a package is known to the process.
EmittedCoversDisk ==
  \A p \in DOMAIN emitted : scanExistingDecls(p) \subseteq emitted[p]

\* Where the process is with its files.
FilesAccountedFor ==
  /\ Elements(inputs) = processed \cup Elements(queue)
  /\ cached = UNION {Reached(f) : f \in processed}
  /\ systemPaths = UNION {Angled[f] : f \in cached}
  /\ phase = "idle" => processed = {}
  /\ IF phase = "included" THEN queue = <<>> ELSE included = {}
  /\ included \subseteq IncludedFiles
  /\ ToGenerate(Elements(inputs)) \subseteq asked
  /\ units \subseteq asked \X Seq(Modules)

IndInv ==
  /\ GeneratorTypeOK
  /\ DeclaredOnce
  /\ EmittedCoversDisk
  /\ FilesAccountedFor
  /\ OwnDefinitionsOnly

-----------------------------------------------------------------------------
(***************************************************************************)
(* Lemmas                                                                  *)
(***************************************************************************)
LEMMA PackageType ==
  ASSUME NEW d \in Definitions
  PROVE  Package(d) \in Seq(Modules) /\ GoName(d) \in GoNames
<1> DEFINE flat == flattenModPath(d.module)
<1>1. d.module \in Seq(Modules) /\ d.name \in IdlNames
  BY DEF Definitions
<1>2. flat \in Seq(Modules)
  <2>1. CASE Len(d.module) >= 3
    BY <1>1, <2>1 DEF flattenModPath
  <2>2. CASE ~ (Len(d.module) >= 3)
    BY <1>1, <2>2 DEF flattenModPath
  <2> QED
    BY <2>1, <2>2
<1> HIDE DEF flat
<1>3. [i \in DOMAIN flat |-> Lower[flat[i]]] \in Seq(Modules)
  <2>1. Len(flat) \in Nat /\ DOMAIN flat = 1 .. Len(flat)
    BY <1>2
  <2>2. \A i \in 1 .. Len(flat) : Lower[flat[i]] \in Modules
    BY <1>2, GeneratorAssumption
  <2> QED
    BY <2>1, <2>2
<1>4. Package(d) = [i \in DOMAIN flat |-> Lower[flat[i]]]
  BY DEF Package, flat
<1> QED
  BY <1>1, <1>3, <1>4, GeneratorAssumption DEF GoName

\* The definitions and packages of a file.
LEMMA OwnDefs ==
  ASSUME NEW f \in Files
  PROVE  /\ \A i \in DOMAIN ownDefs(f) :
              ownDefs(f)[i] \in Definitions /\ Name(f, i) \in GoNames
         /\ \A i \in DOMAIN ownDefs(f) : i \in Nat
         /\ collectUnits(f) \subseteq {f} \X Seq(Modules)
<1>1. ownDefs(f) \in Seq(Definitions)
  BY GeneratorAssumption DEF ownDefs
<1>2. \A i \in DOMAIN ownDefs(f) : ownDefs(f)[i] \in Definitions /\ i \in Nat
  BY <1>1
<1>3. \A i \in DOMAIN ownDefs(f) : Name(f, i) \in GoNames
  BY <1>2, PackageType DEF Name
<1>4. collectUnits(f) \subseteq {f} \X Seq(Modules)
  BY <1>2, PackageType DEF collectUnits, Elements
<1> QED
  BY <1>2, <1>3, <1>4

\* What dedup keeps: new names, each once, of the unit.
LEMMA KeptNew ==
  ASSUME NEW f \in Files, NEW p
  PROVE  /\ Kept(f, p) \subseteq Definitions
         /\ \A d \in Kept(f, p) : /\ d \in Elements(Own[f]) /\ Package(d) = p
                                  /\ GoName(d) \notin Seen(p)
         /\ \A d \in Kept(f, p), e \in Kept(f, p) : GoName(d) = GoName(e) => d = e
<1>1. \A i \in DOMAIN ownDefs(f) : ownDefs(f)[i] \in Definitions /\ i \in Nat
  BY OwnDefs
<1>2. ASSUME NEW d \in Kept(f, p)
      PROVE  \E i \in UnitDefs(f, p) :
               /\ i \in DOMAIN ownDefs(f) /\ d = ownDefs(f)[i] /\ Package(d) = p
               /\ GoName(d) \notin Seen(p)
               /\ \A j \in UnitDefs(f, p) : j < i => Name(f, j) # GoName(d)
  BY DEF Kept, UnitDefs, Name
<1>3. ASSUME NEW d \in Kept(f, p), NEW e \in Kept(f, p), GoName(d) = GoName(e)
      PROVE  d = e
  <2>1. PICK i \in UnitDefs(f, p) :
               /\ i \in DOMAIN ownDefs(f) /\ d = ownDefs(f)[i]
               /\ \A j \in UnitDefs(f, p) : j < i => Name(f, j) # GoName(d)
    BY <1>2
  <2>2. PICK k \in UnitDefs(f, p) :
               /\ k \in DOMAIN ownDefs(f) /\ e = ownDefs(f)[k]
               /\ \A j \in UnitDefs(f, p) : j < k => Name(f, j) # GoName(e)
    BY <1>2
  <2>3. Name(f, i) = GoName(d) /\ Name(f, k) = GoName(e)
    BY <2>1, <2>2 DEF Name
  <2>4. ~ (i < k) /\ ~ (k < i)
    BY <1>3, <2>1, <2>2, <2>3
  <2>5. i \in Nat /\ k \in Nat
    BY <1>1, <2>1, <2>2
  <2>6. i = k
    BY ONLY <2>4, <2>5
  <2> QED
    BY <2>1, <2>2, <2>6
<1> QED
  BY <1>1, <1>2, <1>3 DEF Elements, ownDefs

\* A unit's file is written, whole or in part: no name is then declared twice,
\* and every definition is one of a file that was asked for.
LEMMA WriteKeeps ==
  ASSUME IndInv, NEW u \in units, NEW defs \in SUBSET Kept(u[1], u[2]),
         disk' = Written(Slot(u[1], u[2]), defs), asked' = asked
  PROVE  /\ DOMAIN disk' \subseteq Seq(Modules) \X BaseNames
         /\ \A s \in DOMAIN disk' : disk'[s] \subseteq Definitions
         /\ DeclaredOnce' /\ OwnDefinitionsOnly'
         /\ \A p : scanExistingDecls(p)' \subseteq
                     scanExistingDecls(p) \cup (IF p = u[2] THEN {GoName(d) : d \in defs} ELSE {})
<1> DEFINE f == u[1]
           p == u[2]
           slot == Slot(f, p)
<1>1. f \in asked /\ f \in Files /\ p \in Seq(Modules)
  BY DEF IndInv, GeneratorTypeOK, FilesAccountedFor
<1>2. slot \in Seq(Modules) \X BaseNames /\ slot[1] = p
  BY <1>1, GeneratorAssumption DEF Slot
<1>3. /\ DOMAIN disk' = DOMAIN disk \cup {slot} /\ disk'[slot] = defs
      /\ \A s \in DOMAIN disk : s # slot => disk'[s] = disk[s]
  BY DEF Written
<1>4. /\ defs \subseteq Definitions
      /\ \A d \in defs : /\ d \in Elements(Own[f]) /\ Package(d) = p
                         /\ GoName(d) \notin Seen(p)
      /\ \A d \in defs, e \in defs : GoName(d) = GoName(e) => d = e
  BY <1>1, KeptNew
<1>5. slot = Slot(f, p)
  OBVIOUS
<1> HIDE DEF f, p, slot
<1>6. \A s \in DOMAIN disk : \A d \in disk[s] : s[1] = p => GoName(d) \in Seen(p)
  <2>1. ASSUME NEW s \in DOMAIN disk, NEW d \in disk[s], s[1] = p
        PROVE  GoName(d) \in scanExistingDecls(p)
    BY <2>1 DEF scanExistingDecls
  <2> QED
    BY <2>1 DEF Seen, IndInv, EmittedCoversDisk
<1>7. \A s \in DOMAIN disk' : disk'[s] \subseteq Definitions
  BY <1>3, <1>4 DEF IndInv, GeneratorTypeOK
<1>8. DeclaredOnce'
  <2>1. SUFFICES ASSUME NEW s \in DOMAIN disk', NEW t \in DOMAIN disk',
                        NEW d \in disk'[s], NEW e \in disk'[t],
                        s[1] = t[1], GoName(d) = GoName(e)
                 PROVE  s = t /\ d = e
    BY DEF DeclaredOnce, GoName
  <2>2. CASE s = slot /\ t = slot
    BY <1>3, <1>4, <2>1, <2>2
  <2>3. CASE s = slot /\ t # slot
    BY <1>2, <1>3, <1>4, <1>6, <2>1, <2>3
  <2>4. CASE s # slot /\ t = slot
    BY <1>2, <1>3, <1>4, <1>6, <2>1, <2>4
  <2>5. CASE s # slot /\ t # slot
    BY <1>3, <2>1, <2>5 DEF IndInv, DeclaredOnce
  <2> QED
    BY <2>2, <2>3, <2>4, <2>5
<1>9. OwnDefinitionsOnly'
  <2>1. SUFFICES ASSUME NEW s \in DOMAIN disk', NEW d \in disk'[s]
                 PROVE  \E g \in asked : d \in Elements(Own[g]) /\ s = Slot(g, Package(d))
    BY DEF OwnDefinitionsOnly
  <2>2. CASE s = slot
    BY <1>1, <1>3, <1>4, <1>5, <2>2
  <2>3. CASE s # slot
    BY <1>3, <2>3 DEF IndInv, OwnDefinitionsOnly
  <2> QED
    BY <2>2, <2>3
<1>10. ASSUME NEW q
       PROVE  scanExistingDecls(q)' \subseteq
                scanExistingDecls(q) \cup (IF q = u[2] THEN {GoName(d) : d \in defs} ELSE {})
  <2>1. ASSUME NEW s \in DOMAIN disk', s[1] = q, NEW d \in disk'[s]
        PROVE  GoName(d) \in
                 scanExistingDecls(q) \cup (IF q = u[2] THEN {GoName(e) : e \in defs} ELSE {})
    <3>1. CASE s = slot
      BY <1>2, <1>3, <2>1, <3>1 DEF p
    <3>2. CASE s # slot
      BY <1>3, <2>1, <3>2 DEF scanExistingDecls
    <3> QED
      BY <3>1, <3>2
  <2>2. \A x \in scanExistingDecls(q)' :
          \E s \in DOMAIN disk' : s[1] = q /\ \E d \in disk'[s] : x = GoName(d)
    BY DEF scanExistingDecls, GoName
  <2> QED
    BY <2>1, <2>2
<1> QED
  BY <1>2, <1>3, <1>7, <1>8, <1>9, <1>10 DEF IndInv, GeneratorTypeOK

\* A process that ended knows nothing; the directory is as it left it.
LEMMA EndInv ==
  ASSUME IndInv, NEW how \in {"ok", "failed"}, End(how), promised' \subseteq Files,
         DOMAIN disk' \subseteq Seq(Modules) \X BaseNames,
         \A s \in DOMAIN disk' : disk'[s] \subseteq Definitions,
         DeclaredOnce', OwnDefinitionsOnly'
  PROVE  IndInv'
<1>1. /\ phase' = "idle" /\ status' = how /\ inputs' = <<>> /\ queue' = <<>>
      /\ processed' = {} /\ cached' = {} /\ systemPaths' = {} /\ included' = {}
      /\ units' = {} /\ emitted' = noNames /\ calls' = calls /\ asked' = asked
  BY DEF End
<1>2. DOMAIN emitted' = {}
  BY <1>1 DEF noNames
<1>3. GeneratorTypeOK'
  BY <1>1, <1>2 DEF IndInv, GeneratorTypeOK
<1>4. EmittedCoversDisk'
  BY <1>2 DEF EmittedCoversDisk
<1>5. FilesAccountedFor'
  <2>1. Elements(inputs)' = {} /\ Elements(queue)' = {}
    BY <1>1 DEF Elements
  <2>2. ToGenerate(Elements(inputs))' = {}
    BY <2>1 DEF ToGenerate
  <2> QED
    BY <1>1, <2>1, <2>2 DEF FilesAccountedFor
<1> QED
  BY <1>3, <1>4, <1>5 DEF IndInv

\* The same for a step that leaves the directory alone.
LEMMA SameDisk ==
  ASSUME IndInv, disk' = disk, asked \subseteq asked'
  PROVE  /\ DOMAIN disk' \subseteq Seq(Modules) \X BaseNames
         /\ \A s \in DOMAIN disk' : disk'[s] \subseteq Definitions
         /\ DeclaredOnce' /\ OwnDefinitionsOnly'
         /\ emitted' = emitted => EmittedCoversDisk'
<1>1. DeclaredOnce'
  BY DEF IndInv, DeclaredOnce, GoName
<1>2. OwnDefinitionsOnly'
  BY DEF IndInv, OwnDefinitionsOnly
<1>3. emitted' = emitted => EmittedCoversDisk'
  BY DEF IndInv, EmittedCoversDisk, scanExistingDecls, GoName
<1> QED
  BY <1>1, <1>2, <1>3 DEF IndInv, GeneratorTypeOK

LEMMA ReachedType ==
  \A f \in Files : Reached(f) \subseteq Files /\ f \in Reached(f)
BY DEF Reached

LEMMA ToGenerateType ==
  ASSUME NEW S \in SUBSET Files
  PROVE  ToGenerate(S) \subseteq Files
BY ReachedType DEF ToGenerate

LEMMA HeadTail ==
  ASSUME NEW s \in Seq(Files), s # <<>>
  PROVE  /\ Head(s) \in Files /\ Tail(s) \in Seq(Files)
         /\ Elements(s) = {Head(s)} \cup Elements(Tail(s))
<1>1. /\ Head(s) \in Files /\ Tail(s) \in Seq(Files) /\ Len(s) \in Nat \ {0}
      /\ Len(Tail(s)) = Len(s) - 1 /\ Head(s) = s[1]
      /\ \A i \in 1 .. Len(s) - 1 : Tail(s)[i] = s[i + 1]
      /\ DOMAIN s = 1 .. Len(s) /\ DOMAIN Tail(s) = 1 .. Len(s) - 1
  OBVIOUS
<1> DEFINE n == Len(s)
           t == Tail(s)
<1>2. n \in Nat \ {0} /\ \A i \in 1 .. n - 1 : t[i] = s[i + 1]
  BY <1>1
<1>3. DOMAIN s = 1 .. n /\ DOMAIN t = 1 .. n - 1
  BY <1>1
<1> HIDE DEF n, t
<1>4. \A i \in 1 .. n : i = 1 \/ (i - 1 \in 1 .. n - 1 /\ (i - 1) + 1 = i)
  BY ONLY <1>2
<1>5. \A i \in 1 .. n - 1 : i + 1 \in 1 .. n
  BY ONLY <1>2
<1>6. 1 \in 1 .. n
  BY ONLY <1>2
<1>7. \A i \in DOMAIN s : s[i] = s[1] \/ \E j \in DOMAIN t : s[i] = t[j]
  BY ONLY <1>2, <1>3, <1>4
<1>8. \A j \in DOMAIN t : \E i \in DOMAIN s : t[j] = s[i]
  BY ONLY <1>2, <1>3, <1>5
<1>9. Elements(s) = {s[1]} \cup Elements(t)
  BY <1>3, <1>6, <1>7, <1>8 DEF Elements
<1> QED
  BY <1>1, <1>9 DEF t

LEMMA StartInv == ASSUME IndInv, Start PROVE IndInv'
<1>1. /\ calls \in Seq(Seq(Files)) /\ calls # <<>> /\ phase = "idle"
      /\ calls' = Tail(calls) /\ inputs' = Head(calls) /\ queue' = Head(calls)
      /\ asked' = asked \cup ToGenerate(Elements(Head(calls)))
      /\ disk' = disk /\ processed' = processed /\ cached' = cached
      /\ systemPaths' = systemPaths /\ included' = included /\ units' = units
      /\ emitted' = emitted /\ promised' = promised
  BY DEF Start, IndInv, GeneratorTypeOK
<1>2. Head(calls) \in Seq(Files) /\ Tail(calls) \in Seq(Seq(Files))
  BY <1>1
<1>3. ToGenerate(Elements(Head(calls))) \subseteq Files
  <2>1. Elements(Head(calls)) \subseteq Files
    BY <1>2 DEF Elements
  <2> QED
    BY <2>1, ToGenerateType
<1>4. phase' \in {"idle", "inputs"} /\ status' \in {"running", "failed"}
  BY DEF Start
<1>5. GeneratorTypeOK'
  BY <1>1, <1>2, <1>3, <1>4 DEF IndInv, GeneratorTypeOK
<1>6. FilesAccountedFor'
  <2>1. processed = {}
    BY <1>1 DEF IndInv, FilesAccountedFor
  <2>2. /\ Elements(inputs)' = Elements(Head(calls))
        /\ Elements(queue)' = Elements(Head(calls))
    BY <1>1 DEF Elements
  <2>3. ToGenerate(Elements(inputs))' \subseteq asked'
    BY <1>1, <2>2 DEF ToGenerate
  <2>4. IncludedFiles' = IncludedFiles
    BY <1>1 DEF IncludedFiles
  <2> QED
    BY <1>1, <1>4, <2>1, <2>2, <2>3, <2>4 DEF IndInv, FilesAccountedFor
<1>7. /\ DOMAIN disk' \subseteq Seq(Modules) \X BaseNames
      /\ \A s \in DOMAIN disk' : disk'[s] \subseteq Definitions
      /\ DeclaredOnce' /\ OwnDefinitionsOnly'
      /\ EmittedCoversDisk'
  BY <1>1, SameDisk
<1> QED
  BY <1>5, <1>6, <1>7 DEF IndInv

LEMMA ProcessInputInv == ASSUME IndInv, ProcessInput PROVE IndInv'
<1> DEFINE f == Head(queue)
<1>1. /\ queue \in Seq(Files) /\ queue # <<>> /\ phase = "inputs"
      /\ units' = collectUnits(f) /\ processed' = processed \cup {f}
      /\ cached' = cached \cup Reached(f)
      /\ systemPaths' = systemPaths \cup UNION {Angled[g] : g \in Reached(f)}
      /\ queue' = Tail(queue)
      /\ disk' = disk /\ calls' = calls /\ phase' = phase /\ inputs' = inputs
      /\ included' = included /\ emitted' = emitted /\ status' = status
      /\ asked' = asked /\ promised' = promised
  BY DEF ProcessInput, NextInput, IndInv, GeneratorTypeOK
<1>2. /\ f \in Files /\ queue' \in Seq(Files)
      /\ Elements(queue) = {f} \cup Elements(Tail(queue))
  BY <1>1, HeadTail
<1> HIDE DEF f
<1>3. Reached(f) \subseteq Files /\ f \in Reached(f)
  BY <1>2, ReachedType
<1>4. f \in asked
  <2>1. f \in Elements(inputs)
    BY <1>2 DEF IndInv, FilesAccountedFor
  <2> QED
    BY <2>1 DEF IndInv, FilesAccountedFor, ToGenerate
<1>5. units' \subseteq asked \X Seq(Modules)
  BY <1>1, <1>2, <1>4, OwnDefs
<1>6. GeneratorTypeOK'
  <2>1. systemPaths' \subseteq Files
    BY <1>1, <1>3, GeneratorAssumption DEF IndInv, GeneratorTypeOK
  <2>2. units' \subseteq Files \X Seq(Modules)
    BY <1>1, <1>2, OwnDefs
  <2> QED
    BY <1>1, <1>2, <1>3, <2>1, <2>2 DEF IndInv, GeneratorTypeOK
<1>7. FilesAccountedFor'
  <2>1. Elements(inputs)' = Elements(inputs) /\ Elements(queue)' = Elements(Tail(queue))
    BY <1>1 DEF Elements
  <2>2. Elements(inputs)' = processed' \cup Elements(queue)'
    BY <1>1, <1>2, <2>1 DEF IndInv, FilesAccountedFor
  <2>3. cached' = UNION {Reached(g) : g \in processed'}
    BY <1>1 DEF IndInv, FilesAccountedFor
  <2>4. systemPaths' = UNION {Angled[g] : g \in cached'}
    BY <1>1 DEF IndInv, FilesAccountedFor
  <2>5. included' = {}
    BY <1>1 DEF IndInv, FilesAccountedFor
  <2>6. ToGenerate(Elements(inputs))' \subseteq asked'
    BY <1>1, <2>1 DEF ToGenerate, IndInv, FilesAccountedFor
  <2> QED
    BY <1>1, <1>5, <2>2, <2>3, <2>4, <2>5, <2>6 DEF FilesAccountedFor
<1>8. /\ DOMAIN disk' \subseteq Seq(Modules) \X BaseNames
      /\ \A s \in DOMAIN disk' : disk'[s] \subseteq Definitions
      /\ DeclaredOnce' /\ OwnDefinitionsOnly'
      /\ EmittedCoversDisk'
  BY <1>1, SameDisk
<1> QED
  BY <1>6, <1>7, <1>8 DEF IndInv

\* Included files to come are to be generated.
LEMMA IncludedAsked ==
  ASSUME IndInv, queue = <<>>
  PROVE  IncludedFiles \subseteq asked /\ IncludedFiles \subseteq Files
<1>1. Elements(queue) = {}
  BY DEF Elements
<1>2. Elements(inputs) = processed
  BY <1>1 DEF IndInv, FilesAccountedFor
<1>3. cached = UNION {Reached(f) : f \in Elements(inputs)}
  BY <1>2 DEF IndInv, FilesAccountedFor
<1>4. ASSUME NEW g \in IncludedFiles
      PROVE  g \in ToGenerate(Elements(inputs))
  <2>1. g \in cached /\ \A f \in cached : g \notin Angled[f]
    BY DEF IncludedFiles, IndInv, FilesAccountedFor
  <2> QED
    BY <1>3, <2>1 DEF ToGenerate
<1> QED
  BY <1>4 DEF IndInv, FilesAccountedFor, GeneratorTypeOK, IncludedFiles

LEMMA TakeIncludedInv == ASSUME IndInv, TakeIncluded PROVE IndInv'
<1>1. /\ queue = <<>> /\ units = {} /\ phase = "inputs" /\ phase' = "included"
      /\ included' = IncludedFiles
      /\ disk' = disk /\ calls' = calls /\ inputs' = inputs /\ queue' = queue
      /\ processed' = processed /\ cached' = cached /\ systemPaths' = systemPaths
      /\ units' = units /\ emitted' = emitted /\ status' = status
      /\ asked' = asked /\ promised' = promised
  BY DEF TakeIncluded
<1>2. GeneratorTypeOK'
  BY <1>1, IncludedAsked DEF IndInv, GeneratorTypeOK
<1>3. FilesAccountedFor'
  <2>1. Elements(inputs)' = Elements(inputs) /\ Elements(queue)' = Elements(queue)
        /\ IncludedFiles' = IncludedFiles
    BY <1>1 DEF Elements, IncludedFiles
  <2>2. ToGenerate(Elements(inputs))' \subseteq asked'
    BY <1>1, <2>1 DEF ToGenerate, IndInv, FilesAccountedFor
  <2> QED
    BY <1>1, <2>1, <2>2 DEF IndInv, FilesAccountedFor
<1>4. /\ DOMAIN disk' \subseteq Seq(Modules) \X BaseNames
      /\ \A s \in DOMAIN disk' : disk'[s] \subseteq Definitions
      /\ DeclaredOnce' /\ OwnDefinitionsOnly'
      /\ EmittedCoversDisk'
  BY <1>1, SameDisk
<1> QED
  BY <1>2, <1>3, <1>4 DEF IndInv

LEMMA ProcessIncludedInv == ASSUME IndInv, ProcessIncluded PROVE IndInv'
<1>1. PICK f \in included :
        /\ phase = "included"
        /\ units' = collectUnits(f) /\ included' = included \ {f}
        /\ disk' = disk /\ calls' = calls /\ phase' = phase /\ inputs' = inputs
        /\ queue' = queue /\ processed' = processed /\ cached' = cached
        /\ systemPaths' = systemPaths /\ emitted' = emitted /\ status' = status
        /\ asked' = asked /\ promised' = promised
  BY DEF ProcessIncluded, NextIncluded
<1>2. queue = <<>> /\ f \in IncludedFiles
  BY <1>1 DEF IndInv, FilesAccountedFor
<1>3. f \in asked /\ f \in Files
  BY <1>2, IncludedAsked
<1>4. units' \subseteq asked \X Seq(Modules) /\ units' \subseteq Files \X Seq(Modules)
  BY <1>1, <1>3, OwnDefs
<1>5. GeneratorTypeOK'
  BY <1>1, <1>4 DEF IndInv, GeneratorTypeOK
<1>6. FilesAccountedFor'
  <2>1. Elements(inputs)' = Elements(inputs) /\ Elements(queue)' = Elements(queue)
        /\ IncludedFiles' = IncludedFiles
    BY <1>1 DEF Elements, IncludedFiles
  <2>2. ToGenerate(Elements(inputs))' \subseteq asked'
    BY <1>1, <2>1 DEF ToGenerate, IndInv, FilesAccountedFor
  <2>3. included' \subseteq IncludedFiles'
    BY <1>1, <2>1 DEF IndInv, FilesAccountedFor
  <2> QED
    BY <1>1, <1>4, <2>1, <2>2, <2>3 DEF IndInv, FilesAccountedFor
<1>7. /\ DOMAIN disk' \subseteq Seq(Modules) \X BaseNames
      /\ \A s \in DOMAIN disk' : disk'[s] \subseteq Definitions
      /\ DeclaredOnce' /\ OwnDefinitionsOnly'
      /\ EmittedCoversDisk'
  BY <1>1, SameDisk
<1> QED
  BY <1>5, <1>6, <1>7 DEF IndInv

LEMMA GenerateUnitInv == ASSUME IndInv, GenerateUnit PROVE IndInv'
<1>1. PICK u \in units :
        /\ disk' = Written(Slot(u[1], u[2]), Kept(u[1], u[2]))
        /\ emitted' = [p \in DOMAIN emitted \cup {u[2]} |->
             IF p = u[2] THEN Seen(p) \cup {Name(u[1], i) : i \in UnitDefs(u[1], p)}
                         ELSE emitted[p]]
        /\ units' = units \ {u}
        /\ calls' = calls /\ phase' = phase /\ inputs' = inputs /\ queue' = queue
        /\ processed' = processed /\ cached' = cached /\ systemPaths' = systemPaths
        /\ included' = included /\ status' = status /\ asked' = asked
        /\ promised' = promised
  BY DEF GenerateUnit
<1> DEFINE f == u[1]
           p == u[2]
<1>2. f \in Files /\ p \in Seq(Modules)
  BY DEF IndInv, GeneratorTypeOK
<1>3. /\ DOMAIN disk' \subseteq Seq(Modules) \X BaseNames
      /\ \A s \in DOMAIN disk' : disk'[s] \subseteq Definitions
      /\ DeclaredOnce' /\ OwnDefinitionsOnly'
      /\ \A q : scanExistingDecls(q)' \subseteq
                  scanExistingDecls(q) \cup
                    (IF q = u[2] THEN {GoName(d) : d \in Kept(f, p)} ELSE {})
  BY <1>1, WriteKeeps
<1>4. /\ DOMAIN emitted' = DOMAIN emitted \cup {p}
      /\ emitted'[p] = Seen(p) \cup {Name(f, i) : i \in UnitDefs(f, p)}
      /\ \A q \in DOMAIN emitted : q # p => emitted'[q] = emitted[q]
  BY <1>1
<1>5. \A d \in Kept(f, p) : GoName(d) \in {Name(f, i) : i \in UnitDefs(f, p)}
  BY DEF Kept, Name
<1> HIDE DEF f
<1>6. scanExistingDecls(p) \subseteq Seen(p)
  BY DEF Seen, IndInv, EmittedCoversDisk
<1>7. Seen(p) \subseteq GoNames
  <2>1. \A d \in Definitions : GoName(d) \in GoNames
    BY PackageType
  <2>2. scanExistingDecls(p) \subseteq GoNames
    BY <2>1 DEF scanExistingDecls, IndInv, GeneratorTypeOK
  <2> QED
    BY <2>2 DEF Seen, IndInv, GeneratorTypeOK
<1>8. GeneratorTypeOK'
  <2>1. {Name(f, i) : i \in UnitDefs(f, p)} \subseteq GoNames
    BY <1>2, OwnDefs DEF UnitDefs
  <2>2. \A q \in DOMAIN emitted' : emitted'[q] \subseteq GoNames
    BY <1>4, <1>7, <2>1 DEF IndInv, GeneratorTypeOK
  <2> QED
    BY <1>1, <1>2, <1>3, <1>4, <2>2 DEF IndInv, GeneratorTypeOK
<1>9. EmittedCoversDisk'
  <2>1. SUFFICES ASSUME NEW q \in DOMAIN emitted'
                 PROVE  scanExistingDecls(q)' \subseteq emitted'[q]
    BY DEF EmittedCoversDisk
  <2>2. CASE q = p
    <3>1. scanExistingDecls(p)' \subseteq
            scanExistingDecls(p) \cup {GoName(d) : d \in Kept(f, p)}
      BY <1>3, <2>2
    <3>2. scanExistingDecls(p)' \subseteq emitted'[p]
      BY <1>4, <1>5, <1>6, <3>1
    <3>3. scanExistingDecls(q)' = scanExistingDecls(p)'
      BY <2>2 DEF scanExistingDecls
    <3> QED
      BY <2>2, <3>2, <3>3
  <2>3. CASE q # p
    <3>1. scanExistingDecls(q)' \subseteq scanExistingDecls(q)
      BY <1>3, <2>3
    <3> QED
      BY <1>4, <2>3, <3>1 DEF IndInv, EmittedCoversDisk
  <2> QED
    BY <2>2, <2>3
<1>10. FilesAccountedFor'
  <2>1. Elements(inputs)' = Elements(inputs) /\ Elements(queue)' = Elements(queue)
        /\ IncludedFiles' = IncludedFiles
    BY <1>1 DEF Elements, IncludedFiles
  <2>2. ToGenerate(Elements(inputs))' \subseteq asked'
    BY <1>1, <2>1 DEF ToGenerate, IndInv, FilesAccountedFor
  <2> QED
    BY <1>1, <2>1, <2>2 DEF IndInv, FilesAccountedFor
<1> QED
  BY <1>3, <1>8, <1>9, <1>10 DEF IndInv

LEMMA FailsInv == ASSUME IndInv, Fails PROVE IndInv'
<1>1. End("failed") /\ disk' = disk /\ promised' = promised
  BY DEF Fails
<1>2. asked' = asked /\ promised' \subseteq Files
  BY <1>1 DEF End, IndInv, GeneratorTypeOK
<1> QED
  BY <1>1, <1>2, SameDisk, EndInv

LEMMA InterruptedInv == ASSUME IndInv, Interrupted PROVE IndInv'
<1>1. End("failed") /\ asked' = asked /\ promised' \subseteq Files
  BY DEF Interrupted, End, IndInv, GeneratorTypeOK
<1>2. CASE disk' = disk
  BY <1>1, <1>2, SameDisk, EndInv
<1>3. CASE \E u \in units : \E part \in SUBSET Kept(u[1], u[2]) :
             disk' = Written(Slot(u[1], u[2]), part)
  BY <1>1, <1>3, WriteKeeps, EndInv
<1> QED
  BY <1>2, <1>3 DEF Interrupted

LEMMA FinishInv == ASSUME IndInv, Finish PROVE IndInv'
<1>1. End("ok") /\ disk' = disk
      /\ promised' = promised \cup ToGenerate(Elements(inputs))
  BY DEF Finish
<1>2. ToGenerate(Elements(inputs)) \subseteq Files
  <2>1. Elements(inputs) \subseteq Files
    BY DEF Elements, IndInv, GeneratorTypeOK
  <2> QED
    BY <2>1, ToGenerateType
<1>3. promised' \subseteq Files
  BY <1>1, <1>2 DEF IndInv, GeneratorTypeOK
<1>4. asked' = asked
  BY <1>1 DEF End
<1> QED
  BY <1>1, <1>3, <1>4, SameDisk, EndInv

LEMMA InitInv == GInit => IndInv
<1> SUFFICES ASSUME GInit PROVE IndInv
  OBVIOUS
<1>1. /\ DOMAIN disk = {} /\ calls \in Calls /\ phase = "idle" /\ status = "none"
      /\ asked = {} /\ promised = {} /\ inputs = <<>> /\ queue = <<>>
      /\ processed = {} /\ cached = {} /\ systemPaths = {} /\ included = {}
      /\ units = {} /\ DOMAIN emitted = {}
  BY DEF GInit, noNames
<1>2. GeneratorTypeOK
  BY <1>1, GeneratorAssumption DEF GeneratorTypeOK
<1>3. Elements(inputs) = {} /\ Elements(queue) = {}
  BY <1>1 DEF Elements
<1>4. FilesAccountedFor
  BY <1>1, <1>3 DEF FilesAccountedFor, ToGenerate
<1> QED
  BY <1>1, <1>2, <1>4
     DEF IndInv, DeclaredOnce, EmittedCoversDisk, OwnDefinitionsOnly

LEMMA StutterInv == ASSUME IndInv, UNCHANGED generatorVars PROVE IndInv'
<1>1. /\ disk' = disk /\ emitted' = emitted /\ asked' = asked
      /\ calls' = calls /\ phase' = phase /\ inputs' = inputs /\ queue' = queue
      /\ processed' = processed /\ cached' = cached /\ systemPaths' = systemPaths
      /\ included' = included /\ units' = units /\ status' = status
      /\ promised' = promised
  BY DEF generatorVars, program
<1>2. GeneratorTypeOK'
  BY <1>1 DEF IndInv, GeneratorTypeOK
<1>3. FilesAccountedFor'
  <2>1. Elements(inputs)' = Elements(inputs) /\ Elements(queue)' = Elements(queue)
        /\ IncludedFiles' = IncludedFiles
    BY <1>1 DEF Elements, IncludedFiles
  <2>2. ToGenerate(Elements(inputs))' \subseteq asked'
    BY <1>1, <2>1 DEF ToGenerate, IndInv, FilesAccountedFor
  <2> QED
    BY <1>1, <2>1, <2>2 DEF IndInv, FilesAccountedFor
<1>4. DeclaredOnce' /\ OwnDefinitionsOnly' /\ EmittedCoversDisk'
  BY <1>1, SameDisk
<1> QED
  BY <1>2, <1>3, <1>4 DEF IndInv

LEMMA Invariance == GSpec => []IndInv
<1>1. IndInv /\ [GNext]_generatorVars => IndInv'
  <2> SUFFICES ASSUME IndInv, [GNext]_generatorVars PROVE IndInv'
    OBVIOUS
  <2>1. CASE Start
    BY <2>1, StartInv
  <2>2. CASE ProcessInput
    BY <2>2, ProcessInputInv
  <2>3. CASE TakeIncluded
    BY <2>3, TakeIncludedInv
  <2>4. CASE ProcessIncluded
    BY <2>4, ProcessIncludedInv
  <2>5. CASE GenerateUnit
    BY <2>5, GenerateUnitInv
  <2>6. CASE Fails
    BY <2>6, FailsInv
  <2>7. CASE Finish
    BY <2>7, FinishInv
  <2>8. CASE Interrupted
    BY <2>8, InterruptedInv
  <2>9. CASE UNCHANGED generatorVars
    BY <2>9, StutterInv
  <2> QED
    BY <2>1, <2>2, <2>3, <2>4, <2>5, <2>6, <2>7, <2>8, <2>9 DEF GNext, GStep
<1> QED
  BY <1>1, InitInv, PTL DEF GSpec

-----------------------------------------------------------------------------
(***************************************************************************)
(* Theorems                                                                *)
(***************************************************************************)
\* The programs' state and the directory stay in their types.
THEOREM GeneratorTypes == GSpec => []GeneratorTypeOK
<1>1. IndInv => GeneratorTypeOK
  BY DEF IndInv
<1> QED
  BY Invariance, <1>1, PTL

\* Whatever programs run, succeed, fail or are killed on a directory, no
\* package declares a Go name twice.
THEOREM NoRedeclaration == GSpec => []DeclaredOnce
<1>1. IndInv => DeclaredOnce
  BY DEF IndInv
<1> QED
  BY Invariance, <1>1, PTL

\* Nothing is generated from a file only included with angle brackets, and
\* nothing of a file in another file's output.
THEOREM OwnOnly == GSpec => []OwnDefinitionsOnly
<1>1. IndInv => OwnDefinitionsOnly
  BY DEF IndInv
<1> QED
  BY Invariance, <1>1, PTL

-----------------------------------------------------------------------------
(***************************************************************************)
(* Programs that take each file once lose nothing                          *)
(***************************************************************************)
\* The files whose packages the running program has begun to generate.
Taken == processed \cup (IF phase = "included" THEN IncludedFiles \ included ELSE {})

FilesTakenOnce ==
  /\ TakenOnce(calls)
  /\ Injective(queue) /\ Elements(queue) \cap processed = {}
  /\ \A f, g \in Batch(inputs) : f # g => Apart(f, g)
  /\ \A i \in DOMAIN calls : \A f \in Batch(inputs), g \in Batch(calls[i]) : Apart(f, g)
  /\ Taken \subseteq Batch(inputs)
  /\ \A u \in units : u[1] \in Taken /\ Slot(u[1], u[2]) \in Targets(u[1])

\* Nothing that is on disk is still to be written.
NothingWrittenTwice ==
  \A s \in DOMAIN disk :
    /\ \A i \in DOMAIN calls : \A f \in Batch(calls[i]) : s \notin Targets(f)
    /\ \A f \in Batch(inputs) \ Taken : s \notin Targets(f)
    /\ \A u \in units : s # Slot(u[1], u[2])

\* What the process takes for declared is.
EmittedOnDisk == \A p \in DOMAIN emitted : emitted[p] \subseteq scanExistingDecls(p)

\* The packages that are done declare all definitions of their files.
TakenDeclared ==
  \A f \in Taken : \A d \in Elements(Own[f]) :
    <<f, Package(d)>> \notin units => Declares(Package(d), GoName(d))

OnceInv ==
  /\ IndInv
  /\ FilesTakenOnce
  /\ NothingWrittenTwice
  /\ EmittedOnDisk
  /\ TakenDeclared
  /\ DefinitionsDeclared

\* The first definition of a name is there to be kept.
LEMMA FirstExists ==
  ASSUME NEW T \in SUBSET Nat, T # {}
  PROVE  \E x \in T : \A y \in T : ~(y < x)
<1>1. IsWellFoundedOn({p \in Nat \X Nat : p[1] < p[2]}, Nat)
  BY NatLessThanWellFounded DEF OpToRel
<1>2. PICK x \in T : \A y \in T : <<y, x>> \notin {p \in Nat \X Nat : p[1] < p[2]}
  BY <1>1, WFMin
<1> QED
  BY <1>2

\* After a unit, each of its names was seen before or is declared by its file.
LEMMA NamesKept ==
  ASSUME NEW f \in Files, NEW p, NEW i \in UnitDefs(f, p), Name(f, i) \notin Seen(p)
  PROVE  \E d \in Kept(f, p) : GoName(d) = Name(f, i)
<1> DEFINE T == {j \in UnitDefs(f, p) : Name(f, j) = Name(f, i)}
<1>1. T \in SUBSET Nat /\ i \in T
  BY OwnDefs DEF UnitDefs
<1>2. PICK k \in T : \A j \in T : ~(j < k)
  BY <1>1, FirstExists
<1>3. /\ k \in UnitDefs(f, p) /\ Name(f, k) = Name(f, i)
      /\ \A j \in UnitDefs(f, p) : j < k => Name(f, j) # Name(f, k)
  BY <1>2
<1> HIDE DEF T
<1>4. ownDefs(f)[k] \in Kept(f, p)
  BY <1>3 DEF Kept
<1> QED
  BY <1>3, <1>4 DEF Name

\* A unit's file is written where no file was: nothing that was declared is lost.
LEMMA WriteAdds ==
  ASSUME NothingWrittenTwice, NEW u \in units, NEW defs,
         disk' = Written(Slot(u[1], u[2]), defs)
  PROVE  /\ DOMAIN disk' = DOMAIN disk \cup {Slot(u[1], u[2])}
         /\ disk'[Slot(u[1], u[2])] = defs
         /\ \A p, name : Declares(p, name) => Declares(p, name)'
         /\ \A p : scanExistingDecls(p) \subseteq scanExistingDecls(p)'
<1> DEFINE slot == Slot(u[1], u[2])
<1>1. slot \notin DOMAIN disk
  BY DEF NothingWrittenTwice
<1>2. /\ DOMAIN disk' = DOMAIN disk \cup {slot} /\ disk'[slot] = defs
      /\ \A s \in DOMAIN disk : disk'[s] = disk[s]
  BY <1>1 DEF Written
<1> HIDE DEF slot
<1>3. ASSUME NEW p, NEW name, Declares(p, name)
      PROVE  Declares(p, name)'
  BY <1>2, <1>3 DEF Declares, GoName
<1>4. ASSUME NEW p
      PROVE  scanExistingDecls(p) \subseteq scanExistingDecls(p)'
  <2>1. \A x \in scanExistingDecls(p) :
          \E s \in DOMAIN disk : s[1] = p /\ \E d \in disk[s] : x = GoName(d)
    BY DEF scanExistingDecls
  <2>2. ASSUME NEW s \in DOMAIN disk, s[1] = p, NEW d \in disk[s]
        PROVE  GoName(d) \in scanExistingDecls(p)'
    BY <1>2, <2>2 DEF scanExistingDecls, GoName
  <2> QED
    BY <2>1, <2>2
<1> QED
  BY <1>2, <1>3, <1>4 DEF slot

\* A process that ended leaves only what it wrote.
LEMMA EndOnce ==
  ASSUME OnceInv, IndInv', NEW how \in {"ok", "failed"}, End(how), DefinitionsDeclared',
         \/ disk' = disk
         \/ \E u \in units : DOMAIN disk' = DOMAIN disk \cup {Slot(u[1], u[2])}
  PROVE  OnceInv'
<1>1. /\ phase' = "idle" /\ inputs' = <<>> /\ queue' = <<>> /\ processed' = {}
      /\ units' = {} /\ emitted' = noNames /\ calls' = calls
  BY DEF End
<1>2. Elements(<<>>) = {} /\ Batch(<<>>) = {}
  BY DEF Elements, Batch, ToGenerate
<1>3. Taken' = {}
  BY <1>1 DEF Taken
<1>4. TakenOnce(calls') /\ Injective(queue')
  BY <1>1 DEF OnceInv, FilesTakenOnce, Injective
<1>5. FilesTakenOnce'
  BY <1>1, <1>2, <1>3, <1>4 DEF FilesTakenOnce
<1>6. NothingWrittenTwice'
  <2>1. ASSUME NEW s \in DOMAIN disk', NEW i \in DOMAIN calls, NEW f \in Batch(calls[i])
        PROVE  s \notin Targets(f)
    <3>1. CASE s \in DOMAIN disk
      BY <3>1 DEF OnceInv, NothingWrittenTwice
    <3>2. CASE \E u \in units : s = Slot(u[1], u[2])
      <4>1. PICK u \in units : s = Slot(u[1], u[2])
        BY <3>2
      <4>2. s \in Targets(u[1]) /\ u[1] \in Batch(inputs)
        BY <4>1 DEF OnceInv, FilesTakenOnce
      <4>3. Apart(u[1], f)
        BY <4>2 DEF OnceInv, FilesTakenOnce
      <4> QED
        BY <4>2, <4>3 DEF Apart
    <3> QED
      BY <3>1, <3>2
  <2> QED
    BY <1>1, <1>2, <2>1 DEF NothingWrittenTwice
<1>7. EmittedOnDisk'
  BY <1>1 DEF EmittedOnDisk, noNames
<1>8. TakenDeclared'
  BY <1>3 DEF TakenDeclared
<1> QED
  BY <1>5, <1>6, <1>7, <1>8 DEF OnceInv

\* A step that leaves the directory and what is known of it alone.
LEMMA SameDeclared ==
  ASSUME OnceInv, disk' = disk
  PROVE  /\ \A p, name : Declares(p, name)' <=> Declares(p, name)
         /\ \A p : scanExistingDecls(p)' = scanExistingDecls(p)
         /\ emitted' = emitted => EmittedOnDisk'
         /\ promised' = promised => DefinitionsDeclared'
<1>1. \A p, name : Declares(p, name)' <=> Declares(p, name)
  BY DEF Declares, GoName
<1>2. \A p : scanExistingDecls(p)' = scanExistingDecls(p)
  BY DEF scanExistingDecls, GoName
<1>3. emitted' = emitted => EmittedOnDisk'
  BY <1>2 DEF OnceInv, EmittedOnDisk
<1>4. promised' = promised => DefinitionsDeclared'
  BY <1>1 DEF OnceInv, DefinitionsDeclared, GoName, Package
<1> QED
  BY <1>1, <1>2, <1>3, <1>4


LEMMA TailOf ==
  ASSUME NEW S, NEW s \in Seq(S), s # <<>>
  PROVE  /\ 1 \in DOMAIN s /\ Head(s) = s[1]
         /\ \A i \in DOMAIN Tail(s) : i + 1 \in DOMAIN s /\ Tail(s)[i] = s[i + 1] /\ i + 1 # 1
         /\ \A i, j \in DOMAIN Tail(s) : i + 1 = j + 1 => i = j
<1>1. /\ Len(s) \in Nat \ {0} /\ Head(s) = s[1]
      /\ DOMAIN s = 1 .. Len(s) /\ DOMAIN Tail(s) = 1 .. Len(s) - 1
      /\ \A i \in 1 .. Len(s) - 1 : Tail(s)[i] = s[i + 1]
  OBVIOUS
<1> DEFINE n == Len(s)
           t == Tail(s)
<1>2. n \in Nat \ {0} /\ DOMAIN s = 1 .. n /\ DOMAIN t = 1 .. n - 1
  BY <1>1
<1>3. \A i \in 1 .. n - 1 : t[i] = s[i + 1]
  BY <1>1
<1> HIDE DEF n, t
<1>4. \A i \in 1 .. n - 1 : i + 1 \in 1 .. n /\ i + 1 # 1
  BY ONLY <1>2
<1>5. \A i, j \in 1 .. n - 1 : i + 1 = j + 1 => i = j
  BY ONLY <1>2
<1>6. 1 \in 1 .. n
  BY ONLY <1>2
<1>7. \A i \in DOMAIN t : i + 1 \in DOMAIN s /\ t[i] = s[i + 1] /\ i + 1 # 1
  BY <1>2, <1>3, <1>4, Zenon
<1>8. \A i, j \in DOMAIN t : i + 1 = j + 1 => i = j
  BY <1>2, <1>5, Zenon
<1>9. 1 \in DOMAIN s /\ Head(s) = s[1]
  BY <1>1, <1>2, <1>6, Zenon
<1> QED
  BY <1>7, <1>8, <1>9, Zenon DEF t

LEMMA StartOnce == ASSUME OnceInv, Start, IndInv' PROVE OnceInv'
<1>1. /\ calls \in Seq(Seq(Files)) /\ calls # <<>> /\ phase = "idle"
      /\ calls' = Tail(calls) /\ inputs' = Head(calls) /\ queue' = Head(calls)
      /\ disk' = disk /\ processed' = processed /\ cached' = cached
      /\ systemPaths' = systemPaths /\ included' = included /\ units' = units
      /\ emitted' = emitted /\ promised' = promised /\ phase' # "included"
  BY DEF Start, OnceInv, IndInv, GeneratorTypeOK
<1>2. processed = {} /\ Taken = {} /\ Taken' = {}
  BY <1>1 DEF OnceInv, IndInv, FilesAccountedFor, Taken
<1>3. units = {}
  BY <1>2 DEF OnceInv, FilesTakenOnce
<1>4. /\ 1 \in DOMAIN calls /\ Head(calls) = calls[1]
      /\ \A i \in DOMAIN Tail(calls) : /\ i + 1 \in DOMAIN calls /\ i + 1 # 1
                                       /\ Tail(calls)[i] = calls[i + 1]
      /\ \A i, j \in DOMAIN Tail(calls) : i + 1 = j + 1 => i = j
  BY <1>1, TailOf
<1>5. TakenOnce(calls)
  BY DEF OnceInv, FilesTakenOnce
<1>6. TakenOnce(Tail(calls))
  BY <1>4, <1>5, Zenon DEF TakenOnce
<1>7. /\ Injective(Head(calls))
      /\ \A f, g \in Batch(Head(calls)) : f # g => Apart(f, g)
      /\ \A i \in DOMAIN Tail(calls) :
           \A f \in Batch(Head(calls)), g \in Batch(Tail(calls)[i]) : Apart(f, g)
  BY <1>4, <1>5, Zenon DEF TakenOnce
<1>8. FilesTakenOnce'
  BY <1>1, <1>2, <1>3, <1>6, <1>7 DEF FilesTakenOnce
<1>9. NothingWrittenTwice'
  <2>1. ASSUME NEW s \in DOMAIN disk
        PROVE  /\ \A i \in DOMAIN Tail(calls) : \A f \in Batch(Tail(calls)[i]) : s \notin Targets(f)
               /\ \A f \in Batch(Head(calls)) : s \notin Targets(f)
    BY <1>4, <2>1 DEF OnceInv, NothingWrittenTwice
  <2> QED
    BY <1>1, <1>3, <2>1 DEF NothingWrittenTwice
<1>10. EmittedOnDisk' /\ DefinitionsDeclared'
  BY <1>1, SameDeclared
<1>11. TakenDeclared'
  BY <1>2 DEF TakenDeclared
<1> QED
  BY <1>8, <1>9, <1>10, <1>11 DEF OnceInv

\* The packages of a file that is taken: they are to be written, and were not yet.
LEMMA UnitsOf ==
  ASSUME NEW f \in Files, f \notin Unresolved
  PROVE  /\ \A u \in collectUnits(f) : u[1] = f /\ Slot(u[1], u[2]) \in Targets(f)
         /\ \A d \in Elements(Own[f]) : <<f, Package(d)>> \in collectUnits(f)
  BY DEF collectUnits, ownDefs, Targets

LEMMA TakeOnce ==
  ASSUME OnceInv, IndInv', NEW f \in Files, f \notin Unresolved, f \in Batch(inputs),
         f \notin Taken, Taken' = Taken \cup {f}, units = {}, units' = collectUnits(f),
         Injective(queue'), Elements(queue') \cap processed' = {},
         UNCHANGED <<disk, calls, inputs, emitted, promised>>
  PROVE  OnceInv'
<1>1. /\ \A u \in units' : u[1] = f /\ Slot(u[1], u[2]) \in Targets(f)
      /\ \A d \in Elements(Own[f]) : <<f, Package(d)>> \in units'
  BY UnitsOf
<1>2. FilesTakenOnce'
  <2>1. /\ TakenOnce(calls') /\ Taken' \subseteq Batch(inputs')
        /\ \A g, h \in Batch(inputs') : g # h => Apart(g, h)
        /\ \A i \in DOMAIN calls' : \A g \in Batch(inputs'), h \in Batch(calls'[i]) : Apart(g, h)
    BY DEF OnceInv, FilesTakenOnce
  <2>2. \A u \in units' : u[1] \in Taken' /\ Slot(u[1], u[2]) \in Targets(u[1])
    BY <1>1
  <2> QED
    BY <2>1, <2>2 DEF FilesTakenOnce
<1>3. NothingWrittenTwice'
  <2>1. ASSUME NEW s \in DOMAIN disk
        PROVE  /\ \A i \in DOMAIN calls : \A g \in Batch(calls[i]) : s \notin Targets(g)
               /\ \A g \in Batch(inputs) \ Taken : s \notin Targets(g)
    BY DEF OnceInv, NothingWrittenTwice
  <2>2. \A s \in DOMAIN disk : \A u \in units' : s # Slot(u[1], u[2])
    BY <1>1, <2>1
  <2> QED
    BY <2>1, <2>2 DEF NothingWrittenTwice
<1>4. EmittedOnDisk' /\ DefinitionsDeclared'
      /\ \A p, name : Declares(p, name)' <=> Declares(p, name)
  BY SameDeclared
<1>5. TakenDeclared'
  <2>1. ASSUME NEW g \in Taken', NEW d \in Elements(Own[g]), <<g, Package(d)>> \notin units'
        PROVE  Declares(Package(d), GoName(d))
    BY <1>1, <2>1 DEF OnceInv, TakenDeclared
  <2> QED
    BY <1>4, <2>1 DEF TakenDeclared, Package, GoName
<1> QED
  BY <1>2, <1>3, <1>4, <1>5 DEF OnceInv

LEMMA ProcessInputOnce == ASSUME OnceInv, ProcessInput, IndInv' PROVE OnceInv'
<1> DEFINE f == Head(queue)
<1>1. /\ queue \in Seq(Files) /\ queue # <<>> /\ phase = "inputs" /\ phase' = phase
      /\ units = {} /\ f \notin Unresolved /\ units' = collectUnits(f)
      /\ processed' = processed \cup {f} /\ queue' = Tail(queue)
      /\ UNCHANGED <<disk, calls, inputs, emitted, promised>>
  BY DEF ProcessInput, NextInput, OnceInv, IndInv, GeneratorTypeOK
<1>2. /\ f \in Files /\ Elements(queue) = {f} \cup Elements(Tail(queue))
  BY <1>1, HeadTail
<1>3. /\ 1 \in DOMAIN queue /\ f = queue[1]
      /\ \A i \in DOMAIN Tail(queue) : /\ i + 1 \in DOMAIN queue /\ i + 1 # 1
                                       /\ Tail(queue)[i] = queue[i + 1]
      /\ \A i, j \in DOMAIN Tail(queue) : i + 1 = j + 1 => i = j
  BY <1>1, TailOf
<1> HIDE DEF f
<1>4. /\ Injective(queue) /\ Elements(queue) \cap processed = {}
  BY DEF OnceInv, FilesTakenOnce
<1>5. Injective(Tail(queue)) /\ f \notin Elements(Tail(queue))
  <2>1. ASSUME NEW i \in DOMAIN Tail(queue), NEW j \in DOMAIN Tail(queue),
               Tail(queue)[i] = Tail(queue)[j]
        PROVE  i = j
    <3>1. i + 1 \in DOMAIN queue /\ j + 1 \in DOMAIN queue /\ queue[i + 1] = queue[j + 1]
      BY <1>3, <2>1
    <3>2. i + 1 = j + 1
      BY <1>4, <3>1, Zenon DEF Injective
    <3> QED
      BY <1>3, <3>2, Zenon
  <2>2. ASSUME NEW i \in DOMAIN Tail(queue), f = Tail(queue)[i]
        PROVE  FALSE
    <3>1. i + 1 \in DOMAIN queue /\ i + 1 # 1 /\ queue[i + 1] = queue[1]
      BY <1>3, <2>2
    <3> QED
      BY <1>3, <1>4, <3>1, Zenon DEF Injective
  <2>3. Injective(Tail(queue))
    BY <2>1 DEF Injective
  <2>4. f \notin Elements(Tail(queue))
    BY <2>2, Zenon DEF Elements
  <2> QED
    BY <2>3, <2>4
<1>6. Elements(queue') \cap processed' = {} /\ Injective(queue') /\ f \notin processed
  BY <1>1, <1>2, <1>4, <1>5
<1>7. f \in Batch(inputs)
  BY <1>2 DEF OnceInv, IndInv, FilesAccountedFor, Batch, ToGenerate
<1>8. f \notin Taken /\ Taken' = Taken \cup {f}
  BY <1>1, <1>6 DEF Taken
<1> QED
  BY <1>1, <1>2, <1>6, <1>7, <1>8, TakeOnce

LEMMA TakeIncludedOnce == ASSUME OnceInv, TakeIncluded, IndInv' PROVE OnceInv'
<1>1. /\ phase = "inputs" /\ phase' = "included" /\ included' = IncludedFiles
      /\ disk' = disk /\ calls' = calls /\ inputs' = inputs /\ queue' = queue
      /\ processed' = processed /\ cached' = cached /\ systemPaths' = systemPaths
      /\ units' = units /\ emitted' = emitted /\ promised' = promised
  BY DEF TakeIncluded
<1>2. IncludedFiles' = IncludedFiles
  BY <1>1 DEF IncludedFiles
<1>3. Taken' = Taken
  BY <1>1, <1>2 DEF Taken
<1>4. FilesTakenOnce'
  BY <1>1, <1>3 DEF OnceInv, FilesTakenOnce
<1>5. NothingWrittenTwice'
  BY <1>1, <1>3 DEF OnceInv, NothingWrittenTwice
<1>6. EmittedOnDisk' /\ DefinitionsDeclared'
      /\ \A p, name : Declares(p, name)' <=> Declares(p, name)
  BY <1>1, SameDeclared
<1>7. TakenDeclared'
  BY <1>1, <1>3, <1>6 DEF OnceInv, TakenDeclared, Package, GoName
<1> QED
  BY <1>4, <1>5, <1>6, <1>7 DEF OnceInv

\* What is still included at the end of the inputs is to be generated.
LEMMA IncludedInBatch ==
  ASSUME IndInv, phase = "included"
  PROVE  IncludedFiles \subseteq Batch(inputs) /\ IncludedFiles \subseteq Files
<1>1. Elements(queue) = {} /\ queue = <<>>
  BY DEF Elements, IndInv, FilesAccountedFor
<1>2. Elements(inputs) = processed
  BY <1>1 DEF IndInv, FilesAccountedFor
<1>3. cached = UNION {Reached(f) : f \in Elements(inputs)}
  BY <1>2 DEF IndInv, FilesAccountedFor
<1>4. ASSUME NEW g \in IncludedFiles
      PROVE  g \in ToGenerate(Elements(inputs))
  <2>1. g \in cached /\ \A f \in cached : g \notin Angled[f]
    BY DEF IncludedFiles, IndInv, FilesAccountedFor
  <2> QED
    BY <1>3, <2>1 DEF ToGenerate
<1> QED
  BY <1>1, <1>4, IncludedAsked DEF Batch

LEMMA ProcessIncludedOnce == ASSUME OnceInv, ProcessIncluded, IndInv' PROVE OnceInv'
<1>1. PICK f \in included :
        /\ phase = "included" /\ phase' = phase /\ units = {} /\ f \notin Unresolved
        /\ units' = collectUnits(f) /\ included' = included \ {f}
        /\ UNCHANGED <<queue, processed, cached, systemPaths>>
        /\ UNCHANGED <<disk, calls, inputs, emitted, promised>>
  BY DEF ProcessIncluded, NextIncluded
<1>2. included \subseteq IncludedFiles /\ IncludedFiles' = IncludedFiles
  BY <1>1 DEF OnceInv, IndInv, FilesAccountedFor, IncludedFiles
<1>3. f \in Batch(inputs) /\ f \in Files
  BY <1>1, <1>2, IncludedInBatch DEF OnceInv
<1>4. f \notin processed
  BY <1>2 DEF IncludedFiles
<1>5. f \notin Taken /\ Taken' = Taken \cup {f}
  BY <1>1, <1>2, <1>4 DEF Taken
<1>6. Injective(queue') /\ Elements(queue') \cap processed' = {}
  BY <1>1 DEF OnceInv, FilesTakenOnce
<1> QED
  BY <1>1, <1>3, <1>5, <1>6, TakeOnce

LEMMA GenerateUnitOnce == ASSUME OnceInv, GenerateUnit, IndInv' PROVE OnceInv'
<1>1. PICK u \in units :
        /\ disk' = Written(Slot(u[1], u[2]), Kept(u[1], u[2]))
        /\ emitted' = [p \in DOMAIN emitted \cup {u[2]} |->
             IF p = u[2] THEN Seen(p) \cup {Name(u[1], i) : i \in UnitDefs(u[1], p)}
                         ELSE emitted[p]]
        /\ units' = units \ {u}
        /\ calls' = calls /\ phase' = phase /\ inputs' = inputs /\ queue' = queue
        /\ processed' = processed /\ cached' = cached /\ systemPaths' = systemPaths
        /\ included' = included /\ promised' = promised
  BY DEF GenerateUnit
<1> DEFINE f == u[1]
           p == u[2]
           slot == Slot(f, p)
<1>2. f \in Files /\ f \in Taken /\ f \in Batch(inputs) /\ slot \in Targets(f) /\ u = <<f, p>>
  BY DEF OnceInv, IndInv, GeneratorTypeOK, FilesTakenOnce
<1>3. /\ DOMAIN disk' = DOMAIN disk \cup {slot} /\ disk'[slot] = Kept(f, p)
      /\ \A q, name : Declares(q, name) => Declares(q, name)'
      /\ \A q : scanExistingDecls(q) \subseteq scanExistingDecls(q)'
  BY <1>1, WriteAdds DEF OnceInv
<1>4. /\ DOMAIN emitted' = DOMAIN emitted \cup {p}
      /\ emitted'[p] = Seen(p) \cup {Name(f, i) : i \in UnitDefs(f, p)}
      /\ \A q \in DOMAIN emitted : q # p => emitted'[q] = emitted[q]
  BY <1>1
<1>5. slot[1] = p /\ \A q : Slot(f, q) = slot => q = p
  BY DEF Slot
<1>6. \A v \in units : v = <<v[1], v[2]>>
  BY DEF OnceInv, IndInv, GeneratorTypeOK
<1> HIDE DEF f, p, slot
<1>7. Taken' = Taken
  <2>1. IncludedFiles' = IncludedFiles
    BY <1>1 DEF IncludedFiles
  <2> QED
    BY <1>1, <2>1 DEF Taken
<1>8. FilesTakenOnce'
  BY <1>1, <1>7 DEF OnceInv, FilesTakenOnce
<1>9. NothingWrittenTwice'
  <2>1. ASSUME NEW s \in DOMAIN disk'
        PROVE  /\ \A i \in DOMAIN calls : \A g \in Batch(calls[i]) : s \notin Targets(g)
               /\ \A g \in Batch(inputs) \ Taken : s \notin Targets(g)
               /\ \A v \in units' : s # Slot(v[1], v[2])
    <3>1. CASE s \in DOMAIN disk
      BY <1>1, <3>1 DEF OnceInv, NothingWrittenTwice
    <3>2. CASE s = slot
      <4>1. \A i \in DOMAIN calls : \A g \in Batch(calls[i]) : Apart(f, g)
        BY <1>2 DEF OnceInv, FilesTakenOnce
      <4>2. \A g \in Batch(inputs) : g # f => Apart(f, g)
        BY <1>2 DEF OnceInv, FilesTakenOnce
      <4>3. ASSUME NEW v \in units', Slot(v[1], v[2]) = slot
            PROVE  FALSE
        <5>1. v \in units /\ v # u
          BY <1>1
        <5>2. v[1] \in Batch(inputs) /\ slot \in Targets(v[1])
          BY <4>3, <5>1 DEF OnceInv, FilesTakenOnce
        <5>3. v[1] = f
          BY <1>2, <4>2, <5>2 DEF Apart
        <5>4. v[2] = p
          BY <1>5, <4>3, <5>3
        <5> QED
          BY <1>2, <1>6, <5>1, <5>3, <5>4
      <4> QED
        BY <1>2, <3>2, <4>1, <4>2, <4>3 DEF Apart
    <3> QED
      BY <1>3, <2>1, <3>1, <3>2
  <2> QED
    BY <1>1, <1>7, <2>1 DEF NothingWrittenTwice
<1>10. \A d \in Kept(f, p) : GoName(d) \in scanExistingDecls(p)'
  BY <1>3, <1>5 DEF scanExistingDecls, GoName
<1>11. Seen(p) \subseteq scanExistingDecls(p)
  BY DEF Seen, OnceInv, EmittedOnDisk
<1>12. \A i \in UnitDefs(f, p) : Name(f, i) \in scanExistingDecls(p)'
  <2>1. ASSUME NEW i \in UnitDefs(f, p)
        PROVE  Name(f, i) \in scanExistingDecls(p)'
    <3>1. CASE Name(f, i) \in Seen(p)
      BY <1>3, <1>11, <3>1
    <3>2. CASE Name(f, i) \notin Seen(p)
      BY <1>2, <1>10, <3>2, NamesKept
    <3> QED
      BY <3>1, <3>2
  <2> QED
    BY <2>1
<1>13. EmittedOnDisk'
  <2>1. ASSUME NEW q \in DOMAIN emitted'
        PROVE  emitted'[q] \subseteq scanExistingDecls(q)'
    <3>1. CASE q = p
      <4>1. emitted'[p] \subseteq scanExistingDecls(p)'
        BY <1>3, <1>4, <1>11, <1>12
      <4>2. scanExistingDecls(q)' = scanExistingDecls(p)'
        BY <3>1 DEF scanExistingDecls
      <4> QED
        BY <3>1, <4>1, <4>2
    <3>2. CASE q # p
      <4>1. q \in DOMAIN emitted /\ emitted'[q] = emitted[q]
        BY <1>4, <3>2
      <4> QED
        BY <1>3, <4>1 DEF OnceInv, EmittedOnDisk
    <3> QED
      BY <3>1, <3>2
  <2> QED
    BY <2>1 DEF EmittedOnDisk
<1>14. TakenDeclared'
  <2>1. ASSUME NEW g \in Taken, NEW d \in Elements(Own[g]), <<g, Package(d)>> \notin units'
        PROVE  Declares(Package(d), GoName(d))'
    <3>1. CASE <<g, Package(d)>> \notin units
      BY <1>3, <3>1 DEF OnceInv, TakenDeclared
    <3>2. CASE <<g, Package(d)>> = u
      <4>1. g = f /\ Package(d) = p
        BY <1>2, <3>2
      <4>2. PICK i \in DOMAIN Own[f] : d = Own[f][i]
        BY <4>1 DEF Elements
      <4>3. i \in UnitDefs(f, p) /\ Name(f, i) = GoName(d)
        BY <4>1, <4>2 DEF UnitDefs, ownDefs, Name
      <4>4. GoName(d) \in scanExistingDecls(p)'
        BY <1>12, <4>3
      <4> QED
        BY <4>1, <4>4 DEF scanExistingDecls, Declares, GoName
    <3> QED
      BY <1>1, <2>1, <3>1, <3>2
  <2> QED
    BY <1>7, <2>1 DEF TakenDeclared, Package, GoName
<1>15. DefinitionsDeclared'
  BY <1>1, <1>3 DEF OnceInv, DefinitionsDeclared, Package, GoName
<1> QED
  BY <1>8, <1>9, <1>13, <1>14, <1>15 DEF OnceInv

LEMMA FailsOnce == ASSUME OnceInv, Fails, IndInv' PROVE OnceInv'
<1>1. End("failed") /\ disk' = disk /\ promised' = promised
  BY DEF Fails
<1> QED
  BY <1>1, SameDeclared, EndOnce

LEMMA InterruptedOnce == ASSUME OnceInv, Interrupted, IndInv' PROVE OnceInv'
<1>1. End("failed") /\ promised' = promised
  BY DEF Interrupted
<1>2. CASE disk' = disk
  BY <1>1, <1>2, SameDeclared, EndOnce
<1>3. CASE \E u \in units : \E part \in SUBSET Kept(u[1], u[2]) :
             disk' = Written(Slot(u[1], u[2]), part)
  <2>1. PICK u \in units : \E part \in SUBSET Kept(u[1], u[2]) :
          disk' = Written(Slot(u[1], u[2]), part)
    BY <1>3
  <2>2. /\ DOMAIN disk' = DOMAIN disk \cup {Slot(u[1], u[2])}
        /\ \A p, name : Declares(p, name) => Declares(p, name)'
    BY <2>1, WriteAdds DEF OnceInv
  <2>3. DefinitionsDeclared'
    BY <1>1, <2>2 DEF OnceInv, DefinitionsDeclared, Package, GoName
  <2> QED
    BY <1>1, <2>2, <2>3, EndOnce
<1> QED
  BY <1>2, <1>3 DEF Interrupted

\* At the end of main, all that was to be generated was taken.
LEMMA FinishOnce == ASSUME OnceInv, Finish, IndInv' PROVE OnceInv'
<1>1. /\ phase = "included" /\ units = {} /\ included = {}
      /\ End("ok") /\ disk' = disk
      /\ promised' = promised \cup ToGenerate(Elements(inputs))
  BY DEF Finish
<1>2. Elements(inputs) = processed
  <2>1. Elements(queue) = {}
    BY <1>1 DEF Elements, OnceInv, IndInv, FilesAccountedFor
  <2> QED
    BY <2>1 DEF OnceInv, IndInv, FilesAccountedFor
<1>3. /\ cached = UNION {Reached(f) : f \in processed}
      /\ systemPaths = UNION {Angled[f] : f \in cached}
  BY DEF OnceInv, IndInv, FilesAccountedFor
<1>4. ToGenerate(Elements(inputs)) \subseteq Taken
  <2>1. ASSUME NEW g \in ToGenerate(processed)
        PROVE  g \in Taken
    <3>1. CASE g \in processed
      BY <3>1 DEF Taken
    <3>2. CASE g \notin processed
      <4>1. g \in cached /\ \A f \in cached : g \notin Angled[f]
        BY <1>3, <3>2 DEF ToGenerate
      <4>2. g \in IncludedFiles
        BY <1>3, <3>2, <4>1 DEF IncludedFiles
      <4> QED
        BY <1>1, <4>2 DEF Taken
    <3> QED
      BY <3>1, <3>2
  <2> QED
    BY <1>2, <2>1
<1>5. DefinitionsDeclared
  BY DEF OnceInv
<1>6. \A f \in promised' : \A d \in Elements(Own[f]) : Declares(Package(d), GoName(d))
  BY <1>1, <1>4, <1>5 DEF OnceInv, TakenDeclared, DefinitionsDeclared
<1>7. DefinitionsDeclared'
  <2>1. \A p, name : Declares(p, name)' <=> Declares(p, name)
    BY <1>1, SameDeclared
  <2> QED
    BY <1>6, <2>1 DEF DefinitionsDeclared, Package, GoName
<1> QED
  BY <1>1, <1>7, EndOnce

LEMMA StutterOnce == ASSUME OnceInv, UNCHANGED generatorVars, IndInv' PROVE OnceInv'
<1>1. /\ disk' = disk /\ emitted' = emitted /\ calls' = calls /\ phase' = phase
      /\ inputs' = inputs /\ queue' = queue /\ processed' = processed
      /\ cached' = cached /\ systemPaths' = systemPaths /\ included' = included
      /\ units' = units /\ promised' = promised
  BY DEF generatorVars, program
<1>2. Taken' = Taken
  BY <1>1 DEF Taken, IncludedFiles
<1>3. FilesTakenOnce'
  BY <1>1, <1>2 DEF OnceInv, FilesTakenOnce
<1>4. NothingWrittenTwice'
  BY <1>1, <1>2 DEF OnceInv, NothingWrittenTwice
<1>5. EmittedOnDisk' /\ DefinitionsDeclared'
      /\ \A p, name : Declares(p, name)' <=> Declares(p, name)
  BY <1>1, SameDeclared
<1>6. TakenDeclared'
  BY <1>1, <1>2, <1>5 DEF OnceInv, TakenDeclared, Package, GoName
<1> QED
  BY <1>3, <1>4, <1>5, <1>6 DEF OnceInv

LEMMA InitOnce == GInit /\ TakenOnce(calls) => OnceInv
<1> SUFFICES ASSUME GInit, TakenOnce(calls) PROVE OnceInv
  OBVIOUS
<1>1. /\ DOMAIN disk = {} /\ phase = "idle" /\ inputs = <<>> /\ queue = <<>>
      /\ processed = {} /\ units = {} /\ DOMAIN emitted = {} /\ promised = {}
  BY DEF GInit, noNames
<1>2. Taken = {} /\ Elements(queue) = {} /\ Batch(inputs) = {} /\ Injective(queue)
  BY <1>1 DEF Taken, Elements, Batch, ToGenerate, Injective
<1>3. FilesTakenOnce
  BY <1>1, <1>2 DEF FilesTakenOnce
<1> QED
  BY <1>1, <1>2, <1>3, InitInv
     DEF OnceInv, NothingWrittenTwice, EmittedOnDisk, TakenDeclared, DefinitionsDeclared

LEMMA OnceInvariance == GSpec /\ TakenOnce(calls) => []OnceInv
<1>1. OnceInv /\ IndInv' /\ [GNext]_generatorVars => OnceInv'
  <2> SUFFICES ASSUME OnceInv, IndInv', [GNext]_generatorVars PROVE OnceInv'
    OBVIOUS
  <2>1. CASE Start
    BY <2>1, StartOnce
  <2>2. CASE ProcessInput
    BY <2>2, ProcessInputOnce
  <2>3. CASE TakeIncluded
    BY <2>3, TakeIncludedOnce
  <2>4. CASE ProcessIncluded
    BY <2>4, ProcessIncludedOnce
  <2>5. CASE GenerateUnit
    BY <2>5, GenerateUnitOnce
  <2>6. CASE Fails
    BY <2>6, FailsOnce
  <2>7. CASE Finish
    BY <2>7, FinishOnce
  <2>8. CASE Interrupted
    BY <2>8, InterruptedOnce
  <2>9. CASE UNCHANGED generatorVars
    BY <2>9, StutterOnce
  <2> QED
    BY <2>1, <2>2, <2>3, <2>4, <2>5, <2>6, <2>7, <2>8, <2>9 DEF GNext, GStep
<1> QED
  BY <1>1, InitOnce, Invariance, PTL DEF GSpec

\* If no generated file is written for two IDL files or by two programs, then
\* after a program that ended well all that any program promised is declared:
\* all units, those of included files too, were generated, and what dedup left
\* out because its name was seen is declared by the file where it was seen.
THEOREM SuccessIsComplete == GSpec /\ TakenOnce(calls) => []SuccessDeclaresAll
<1>1. OnceInv => SuccessDeclaresAll
  BY DEF OnceInv, SuccessDeclaresAll
<1> QED
  BY OnceInvariance, <1>1, PTL

\* Under the same condition a program that fails, or is killed in the middle of
\* a file, loses no definition of the programs that ended well before it.
THEOREM FailureLosesNothing == GSpec /\ TakenOnce(calls) => []FailureKeepsDefinitions
<1>1. OnceInv => FailureKeepsDefinitions
  BY DEF OnceInv, FailureKeepsDefinitions
<1> QED
  BY OnceInvariance, <1>1, PTL
=============================================================================
