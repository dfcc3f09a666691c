------------------------------ MODULE Generator ------------------------------
(***************************************************************************)
(* cmd/go-dds-idlgen/main.go and internal/generator/generator.go: programs *)
(* that run one after the other on an output directory.  Each resolves its *)
(* inputs and generates their packages, in any order, then those of the    *)
(* files they include.  Definitions whose names were generated before, or  *)
(* are found in the directory, are left out.                               *)
(*                                                                         *)
(* A generated file is the set of the definitions it declares.             *)
(***************************************************************************)
EXTENDS Naturals, Sequences

CONSTANTS
  Files,                        \* IDL files, by absolute path
  Modules, Lower,               \* module names; strings.ToLower
  IdlNames, GoNames, PascalCase,
  Own,                          \* file -> its own definitions, in the order of dedup
  BaseNames, Base,              \* file -> its name without directory and extension
  Quoted, Angled,               \* file -> the files it includes, in "" and in <>
  Broken,                       \* files not parsed, or including what is not found
  Unresolved,                   \* files with a reference ResolveTypes does not find
  Unformatted,                  \* definitions whose Go text go/format refuses
  Rank,                         \* the order of the files' paths
  Calls                         \* the inputs of one program after the other

Definitions == [module : Seq(Modules), name : IdlNames]

ASSUME GeneratorAssumption ==
  /\ Lower \in [Modules -> Modules]
  /\ PascalCase \in [IdlNames -> GoNames]
  /\ Own \in [Files -> Seq(Definitions)]
  /\ Base \in [Files -> BaseNames]
  /\ Quoted \in [Files -> SUBSET Files] /\ Angled \in [Files -> SUBSET Files]
  /\ Broken \subseteq Files /\ Unresolved \subseteq Files
  /\ Unformatted \subseteq Definitions
  /\ Rank \in [Files -> Nat]
  /\ Calls \subseteq Seq(Seq(Files))

VARIABLES
  disk,         \* <<package, base name>> -> definitions, of the generated files
  calls,        \* programs to be run
  phase,        \* "idle", "inputs" or "included"
  inputs,       \* the inputs of the program
  queue,        \* those to come
  processed,    \* those resolved
  cached,       \* files in the include resolver's cache
  systemPaths,  \* files included with angle brackets
  included,     \* included files to come
  units,        \* <<file, package>> to be generated, of one file
  emitted,      \* package -> Go names generated or found there
  status,       \* how the last program ended
  asked,        \* history: the files that programs were to generate
  promised      \* history: those of the programs that ended well

program == <<inputs, queue, processed, cached, systemPaths, included, units, emitted>>
generatorVars == <<disk, calls, phase, program, status, asked, promised>>

noNames == [p \in {} |-> {}]

GInit ==
  /\ disk = [s \in {} |-> {}]
  /\ calls \in Calls
  /\ phase = "idle" /\ status = "none" /\ asked = {} /\ promised = {}
  /\ inputs = <<>> /\ queue = <<>> /\ processed = {} /\ cached = {}
  /\ systemPaths = {} /\ included = {} /\ units = {} /\ emitted = noNames

-----------------------------------------------------------------------------
\* Mutant: names as they are in the IDL.
IdlName(def) == def.name

GoName(def) == PascalCase[def.name]

\* Modules three deep or more become one package with their parent.
flattenModPath(path) ==
  IF Len(path) >= 3 THEN SubSeq(path, 1, Len(path) - 1) ELSE path
Package(def) ==
  LET flat == flattenModPath(def.module) IN [i \in DOMAIN flat |-> Lower[flat[i]]]

Elements(list) == {list[i] : i \in DOMAIN list}

\* The files ResolveFile reads for a file.
Reached(file) ==
  {g \in Files : \A S \in SUBSET Files :
     file \in S /\ (\A f \in S : Quoted[f] \cup Angled[f] \subseteq S) => g \in S}

\* Mutant: the definitions that came with an include, too.
DefsWithIncluded(file) ==
  LET direct == Quoted[file] \cup Angled[file]
  IN  IF direct = {} THEN Own[file] ELSE Own[CHOOSE g \in direct : TRUE] \o Own[file]

\* collectUnits: the definitions behind OwnStart, by package.
ownDefs(file) == Own[file]
collectUnits(file) == {<<file, Package(d)>> : d \in Elements(ownDefs(file))}
UnitDefs(file, p) == {i \in DOMAIN ownDefs(file) : Package(ownDefs(file)[i]) = p}

\* The names in the package's generated files.
scanExistingDecls(p) ==
  {GoName(d) : d \in UNION {disk[s] : s \in {s \in DOMAIN disk : s[1] = p}}}

\* Mutant: only what this process generated counts.
SeenInProcess(p) == IF p \in DOMAIN emitted THEN emitted[p] ELSE {}

\* The directory is scanned when the first of a package's files is generated.
Seen(p) == IF p \in DOMAIN emitted THEN emitted[p] ELSE scanExistingDecls(p)

\* dedup: of the definitions with a Go name not seen yet, the first of each name.
Name(file, i) == GoName(ownDefs(file)[i])
Kept(file, p) ==
  {ownDefs(file)[i] : i \in
     {i \in UnitDefs(file, p) :
        /\ Name(file, i) \notin Seen(p)
        /\ \A j \in UnitDefs(file, p) : j < i => Name(file, j) # Name(file, i)}}

Slot(file, p) == <<p, Base[file]>>

\* Mutant: the package's directory is emptied first.
WrittenAlone(slot, defs) ==
  [s \in {s \in DOMAIN disk : s[1] # slot[1]} \cup {slot} |->
     IF s = slot THEN defs ELSE disk[s]]

Written(slot, defs) ==
  [s \in DOMAIN disk \cup {slot} |-> IF s = slot THEN defs ELSE disk[s]]

-----------------------------------------------------------------------------
\* The files a program is to generate: its inputs, and what they include unless
\* some file includes it with angle brackets.
ToGenerate(files) ==
  LET all == UNION {Reached(f) : f \in files}
  IN  files \cup {g \in all : \A f \in all : g \notin Angled[f]}

\* The process ends; what is left is on disk.
End(how) ==
  /\ phase' = "idle" /\ status' = how
  /\ inputs' = <<>> /\ queue' = <<>> /\ processed' = {} /\ cached' = {}
  /\ systemPaths' = {} /\ included' = {} /\ units' = {} /\ emitted' = noNames
  /\ UNCHANGED <<calls, asked>>

\* main, with files as arguments or found under the include paths, there once
\* for each path that leads to them.
Start ==
  /\ phase = "idle" /\ calls # <<>>
  /\ calls' = Tail(calls)
  /\ inputs' = Head(calls) /\ queue' = Head(calls)
  /\ IF Head(calls) = <<>> THEN phase' = "idle" /\ status' = "failed"
                           ELSE phase' = "inputs" /\ status' = "running"
  /\ asked' = asked \cup ToGenerate(Elements(Head(calls)))
  /\ UNCHANGED <<disk, processed, cached, systemPaths, included, units, emitted, promised>>

\* Files are taken one at a time, when the packages of the one before are done.
NextInput == phase = "inputs" /\ units = {} /\ queue # <<>>
Resolvable(file) == Reached(file) \cap Broken = {}

\* ResolveFile and processFile of the next input.
ProcessInput ==
  /\ NextInput
  /\ LET file == Head(queue)
     IN  /\ Resolvable(file) /\ file \notin Unresolved
         /\ units' = collectUnits(file)
         /\ processed' = processed \cup {file}
         /\ cached' = cached \cup Reached(file)
         /\ systemPaths' = systemPaths \cup UNION {Angled[f] : f \in Reached(file)}
  /\ queue' = Tail(queue)
  /\ UNCHANGED <<disk, calls, phase, inputs, included, emitted, status, asked, promised>>

\* Mutant: the inputs are not left out.
IncludedFilesAll == cached \ systemPaths

IncludedFiles == (cached \ processed) \ systemPaths

\* All inputs are done.
TakeIncluded ==
  /\ phase = "inputs" /\ units = {} /\ queue = <<>>
  /\ phase' = "included"
  /\ included' = IncludedFiles
  /\ UNCHANGED <<disk, calls, inputs, queue, processed, cached, systemPaths, units,
                 emitted, status, asked, promised>>

NextIncluded(file) ==
  /\ phase = "included" /\ units = {}
  /\ file \in included /\ \A g \in included : Rank[file] <= Rank[g]

\* processFile of the next included file.
ProcessIncluded ==
  \E file \in included :
    /\ NextIncluded(file) /\ file \notin Unresolved
    /\ units' = collectUnits(file)
    /\ included' = included \ {file}
    /\ UNCHANGED <<disk, calls, phase, inputs, queue, processed, cached, systemPaths,
                   emitted, status, asked, promised>>

\* Generate, for one of the packages.
GenerateUnit ==
  \E u \in units :
    /\ Kept(u[1], u[2]) \cap Unformatted = {}
    /\ disk' = Written(Slot(u[1], u[2]), Kept(u[1], u[2]))
    /\ emitted' = [p \in DOMAIN emitted \cup {u[2]} |->
                     IF p = u[2] THEN Seen(p) \cup {Name(u[1], i) : i \in UnitDefs(u[1], p)}
                                 ELSE emitted[p]]
    /\ units' = units \ {u}
    /\ UNCHANGED <<calls, phase, inputs, queue, processed, cached, systemPaths,
                   included, status, asked, promised>>

\* log.Fatalf: what was written stays.
Fails ==
  /\ \/ NextInput /\ (~Resolvable(Head(queue)) \/ Head(queue) \in Unresolved)
     \/ \E file \in included : NextIncluded(file) /\ file \in Unresolved
     \/ \E u \in units : Kept(u[1], u[2]) \cap Unformatted # {}
  /\ End("failed")
  /\ UNCHANGED <<disk, promised>>

\* The process is killed or cannot write, also in the middle of a file.
Interrupted ==
  /\ phase # "idle"
  /\ \/ UNCHANGED disk
     \/ \E u \in units :
          /\ Kept(u[1], u[2]) \cap Unformatted = {}
          /\ \E part \in SUBSET Kept(u[1], u[2]) :
               disk' = Written(Slot(u[1], u[2]), part)
  /\ End("failed")
  /\ UNCHANGED promised

\* The end of main.
Finish ==
  /\ phase = "included" /\ units = {} /\ included = {}
  /\ promised' = promised \cup ToGenerate(Elements(inputs))
  /\ End("ok")
  /\ UNCHANGED disk

GStep == ProcessInput \/ TakeIncluded \/ ProcessIncluded \/ GenerateUnit \/ Fails \/ Finish
GNext == Start \/ GStep \/ Interrupted

GSpec == GInit /\ [][GNext]_generatorVars

-----------------------------------------------------------------------------
(***************************************************************************)
(* Properties                                                              *)
(***************************************************************************)
GeneratorTypeOK ==
  /\ DOMAIN disk \subseteq Seq(Modules) \X BaseNames
  /\ \A s \in DOMAIN disk : disk[s] \subseteq Definitions
  /\ calls \in Seq(Seq(Files))
  /\ phase \in {"idle", "inputs", "included"}
  /\ inputs \in Seq(Files) /\ queue \in Seq(Files)
  /\ processed \subseteq Files /\ cached \subseteq Files /\ systemPaths \subseteq Files
  /\ included \subseteq Files /\ promised \subseteq Files
  /\ units \subseteq Files \X Seq(Modules)
  /\ DOMAIN emitted \subseteq Seq(Modules)
  /\ \A p \in DOMAIN emitted : emitted[p] \subseteq GoNames
  /\ status \in {"none", "running", "ok", "failed"}

\* No Go name is declared twice in a package, whatever was generated there
\* before, by this program or by earlier ones, finished or not.
DeclaredOnce ==
  \A s, t \in DOMAIN disk : \A d \in disk[s], e \in disk[t] :
    s[1] = t[1] /\ GoName(d) = GoName(e) => s = t /\ d = e

\* A file declares definitions of an IDL file of its name that a program was
\* to generate, in their package: none that came with an include, and none of
\* a file that is included with angle brackets.
OwnDefinitionsOnly ==
  \A s \in DOMAIN disk : \A d \in disk[s] :
    \E f \in asked : d \in Elements(Own[f]) /\ s = Slot(f, Package(d))

Declares(p, name) ==
  \E s \in DOMAIN disk : s[1] = p /\ \E d \in disk[s] : GoName(d) = name

\* After a program that ended well, everything the user asked for is declared:
\* the definitions of all inputs and of the files they include, those of
\* earlier programs too.
DefinitionsDeclared ==
  \A f \in promised : \A d \in Elements(Own[f]) : Declares(Package(d), GoName(d))
SuccessDeclaresAll == status = "ok" => DefinitionsDeclared

\* A program that failed or was killed has not lost what others declared.
FailureKeepsDefinitions == phase = "idle" /\ status = "failed" => DefinitionsDeclared

-----------------------------------------------------------------------------
(***************************************************************************)
(* Calls that take each file once: those for which the last two invariants *)
(* are proved.  A file that is written again is left without what was kept *)
(* of it the first time, which dedup finds declared, in that very file.    *)
(***************************************************************************)
Injective(list) == \A i, j \in DOMAIN list : list[i] = list[j] => i = j

\* What a program with these inputs is to generate.
Batch(files) == ToGenerate(Elements(files))

\* The generated files that an IDL file is written to.
Targets(f) ==
  IF f \in Unresolved THEN {} ELSE {Slot(f, Package(d)) : d \in Elements(Own[f])}
Apart(f, g) == Targets(f) \cap Targets(g) = {}

\* No generated file is written for two IDL files or by two programs.
TakenOnce(programs) ==
  /\ \A i \in DOMAIN programs :
       /\ Injective(programs[i])
       /\ \A f, g \in Batch(programs[i]) : f # g => Apart(f, g)
  /\ \A i, j \in DOMAIN programs : i # j =>
       \A f \in Batch(programs[i]), g \in Batch(programs[j]) : Apart(f, g)
=============================================================================
