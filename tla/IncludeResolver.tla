--------------------------- MODULE IncludeResolver ---------------------------
(***************************************************************************)
(* internal/resolver/include.go: ResolveFile calls itself for each         *)
(* #include and merges the definitions of the included files in front of   *)
(* the file's own.  The Go call stack is a variable; a step is what        *)
(* happens between two calls or returns.  One resolver serves any number   *)
(* of top-level calls, also after one that failed.                         *)
(*                                                                         *)
(* The definitions of a file are one block, named by the file.             *)
(***************************************************************************)
EXTENDS Naturals, Sequences

CONSTANTS
  Paths,          \* absolute paths
  Files,          \* those where os.Stat finds a file
  Unusable,       \* files that cannot be read or parsed
  Dirs, Names,    \* directories; what an #include may say
  Join,           \* filepath.Abs(filepath.Join(dir, name))
  Dir,            \* filepath.Dir
  IncludePaths,   \* the -I flags
  Graphs          \* file -> its #include directives: what the disk may hold

Directives == [path : Names, system : BOOLEAN]

ASSUME IncludeAssumption ==
  /\ Files \subseteq Paths
  /\ Unusable \subseteq Files
  /\ Join \in [Dirs \X Names -> Paths]
  /\ Dir \in [Files -> Dirs]
  /\ IncludePaths \in Seq(Dirs)
  /\ \A g \in Graphs : g \in [Files -> Seq(Directives)]

VARIABLES
  includes,     \* the graph on disk
  cache,        \* file -> [defs, ownStart], of the files resolved
  inProgress,   \* files whose ResolveFile has not returned
  systemPaths,  \* files included with angle brackets
  stack,        \* frames of ResolveFile, the innermost last: [file, done, defs]
  result        \* <<>>, or <<the last top-level call>>: [path, ok, cycle]

resolverVars ==
  <<includes, cache, inProgress, systemPaths, stack, result>>

\* NewIncludeResolver
RInit ==
  /\ includes \in Graphs
  /\ cache = [f \in {} |-> [defs |-> <<>>, ownStart |-> 0]]
  /\ inProgress = {}
  /\ systemPaths = {}
  /\ stack = <<>>
  /\ result = <<>>

-----------------------------------------------------------------------------
\* findInclude: the directory of the including file, then the include paths.
SearchPath(file) == <<Dir[file]>> \o IncludePaths

Target(file, inc, i) == Join[<<SearchPath(file)[i], inc.path>>]
Candidates(file, inc) == {i \in DOMAIN SearchPath(file) : Target(file, inc, i) \in Files}
findInclude(file, inc) ==
  Target(file, inc, CHOOSE i \in Candidates(file, inc) :
                      \A j \in Candidates(file, inc) : i <= j)

Top == stack[Len(stack)]
Stacked == {stack[i].file : i \in DOMAIN stack}
Directive == includes[Top.file][Top.done + 1]

Cached(path) == path \in DOMAIN cache

\* Mutant: a file that cannot be parsed is taken as it is.
OpensUnparsed(path) == ~Cached(path) /\ path \notin inProgress /\ path \in Files

\* The path is neither cached nor in progress, and the file can be parsed.
Opens(path) ==
  ~Cached(path) /\ path \notin inProgress /\ path \in Files \ Unusable

\* Mutant: an error leaves the files in progress.
UnwindForgetful(path, cycle) ==
  /\ stack' = <<>>
  /\ result' = <<[path |-> path, ok |-> FALSE, cycle |-> cycle]>>
  /\ UNCHANGED <<includes, cache, inProgress>>

\* An error goes through every frame; each deletes its file from inProgress.
Unwind(path, cycle) ==
  /\ stack' = <<>>
  /\ inProgress' = inProgress \ Stacked
  /\ result' = <<[path |-> path, ok |-> FALSE, cycle |-> cycle]>>
  /\ UNCHANGED <<includes, cache>>

\* Mutant: the file enters the cache when it is parsed.
OpenCaching(path) ==
  /\ inProgress' = inProgress \cup {path}
  /\ cache' = [g \in DOMAIN cache \cup {path} |->
                IF g = path THEN [defs |-> <<path>>, ownStart |-> 0] ELSE cache[g]]
  /\ stack' = Append(stack, [file |-> path, done |-> 0, defs |-> <<>>])
  /\ UNCHANGED <<includes, result>>

\* A further frame of ResolveFile.
Open(path) ==
  /\ inProgress' = inProgress \cup {path}
  /\ stack' = Append(stack, [file |-> path, done |-> 0, defs |-> <<>>])
  /\ UNCHANGED <<includes, cache, result>>

\* Mutant: the frame stays at the include.
ResumedAgain(frames, defs) == frames

\* The innermost of the frames goes on with an included file's definitions.
Resumed(frames, defs) ==
  LET n == Len(frames)
  IN  Append(SubSeq(frames, 1, n - 1),
             [file |-> frames[n].file, done |-> frames[n].done + 1,
              defs |-> frames[n].defs \o defs])

\* Top-level ResolveFile.
ResolveFile(path) ==
  /\ stack = <<>>
  /\ UNCHANGED systemPaths
  /\ \/ /\ Cached(path)
        /\ result' = <<[path |-> path, ok |-> TRUE, cycle |-> <<>>]>>
        /\ UNCHANGED <<includes, cache, inProgress, stack>>
     \/ Opens(path) /\ Open(path)
     \/ ~Cached(path) /\ ~Opens(path) /\ Unwind(path, <<>>)

MoreIncludes == stack # <<>> /\ Top.done < Len(includes[Top.file])

\* The next #include of the innermost file names no file.
IncludeMissing ==
  /\ MoreIncludes
  /\ Candidates(Top.file, Directive) = {}
  /\ Unwind(stack[1].file, <<>>)
  /\ UNCHANGED systemPaths

\* A circular include: the error names the path; the files of the frames it
\* goes through, of which the path is one, are kept as history.
Chain(path) == Append([i \in DOMAIN stack |-> stack[i].file], path)

\* The next #include names a file: resolved before, to be resolved, or an error.
ResolveInclude ==
  /\ MoreIncludes
  /\ Candidates(Top.file, Directive) # {}
  /\ LET path == findInclude(Top.file, Directive)
     IN  /\ systemPaths' = IF Directive.system THEN systemPaths \cup {path}
                           ELSE systemPaths
         /\ \/ /\ Cached(path)
               /\ stack' = Resumed(stack, cache[path].defs)
               /\ UNCHANGED <<includes, cache, inProgress, result>>
            \/ Opens(path) /\ Open(path)
            \/ /\ ~Cached(path) /\ ~Opens(path)
               /\ Unwind(stack[1].file,
                         IF path \in inProgress THEN Chain(path) ELSE <<>>)

\* Mutant: the file's own definitions come first.
OwnFirst(frame) == [defs |-> <<frame.file>> \o frame.defs, ownStart |-> 0]

\* The definitions of a file all of whose includes are resolved.
Merged(frame) ==
  [defs |-> Append(frame.defs, frame.file), ownStart |-> Len(frame.defs)]

\* All includes are resolved: the file enters the cache and its frame returns.
Return ==
  /\ stack # <<>> /\ ~MoreIncludes
  /\ LET f       == Top.file
         callers == SubSeq(stack, 1, Len(stack) - 1)
     IN  /\ cache' = [g \in DOMAIN cache \cup {f} |->
                        IF g = f THEN Merged(Top) ELSE cache[g]]
         /\ inProgress' = inProgress \ {f}
         /\ \/ /\ callers = <<>>
               /\ stack' = <<>>
               /\ result' = <<[path |-> f, ok |-> TRUE, cycle |-> <<>>]>>
            \/ /\ callers # <<>>
               /\ stack' = Resumed(callers, Merged(Top).defs)
               /\ UNCHANGED result
  /\ UNCHANGED <<includes, systemPaths>>

\* IncludedFiles, before sorting.
IncludedFiles(exclude) == (DOMAIN cache \ exclude) \ systemPaths

RStep == IncludeMissing \/ ResolveInclude \/ Return
RNext == (\E path \in Paths : ResolveFile(path)) \/ RStep

\* Between a call and its return the resolver's code runs on.
RSpec == RInit /\ [][RNext]_resolverVars /\ WF_resolverVars(RStep)

-----------------------------------------------------------------------------
(***************************************************************************)
(* Properties                                                              *)
(***************************************************************************)
Parsed == Files \ Unusable
Frames == [file : Parsed, done : Nat, defs : Seq(Parsed)]
Results == [path : Paths, ok : BOOLEAN, cycle : Seq(Paths)]

\* Types; a frame has taken no more includes than its file has.
ResolverTypeOK ==
  /\ includes \in Graphs
  /\ DOMAIN cache \subseteq Parsed
  /\ \A f \in DOMAIN cache : cache[f] \in [defs : Seq(Parsed), ownStart : Nat]
  /\ inProgress \subseteq Parsed
  /\ systemPaths \subseteq Files
  /\ stack \in Seq(Frames)
  /\ \A i \in DOMAIN stack : stack[i].done <= Len(includes[stack[i].file])
  /\ result \in Seq(Results)

\* The k-th #include of f names a file; it names g.
IsFound(f, k) == Candidates(f, includes[f][k]) # {}
IncludesTo(f, g) ==
  \E k \in DOMAIN includes[f] : IsFound(f, k) /\ g = findInclude(f, includes[f][k])

\* A file is in progress exactly while its ResolveFile is on the stack, once,
\* and not in the cache: also after errors, which skip everything but the
\* deferred deletes, so a later call is not taken for a cycle.
InProgressIsStacked ==
  /\ inProgress = Stacked
  /\ \A i, j \in DOMAIN stack : i # j => stack[i].file # stack[j].file
  /\ inProgress \cap DOMAIN cache = {}

\* The k-th #include of f names one of the first n files of a list.
Precedes(f, k, list, n) ==
  IsFound(f, k) /\ \E j \in 1 .. n : list[j] = findInclude(f, includes[f][k])
ClosedList(list) ==
  \A i \in DOMAIN list :
    \A k \in DOMAIN includes[list[i]] : Precedes(list[i], k, list, i - 1)

\* Whatever the order of calls and whichever of them failed, a file in the
\* cache has every definition it may use in front of its own: the blocks of
\* all its includes, each behind those it needs in turn.  Its own block is
\* the one ownStart points at.
DefinitionsClosed ==
  \A f \in DOMAIN cache :
    /\ Len(cache[f].defs) = cache[f].ownStart + 1
    /\ cache[f].defs[cache[f].ownStart + 1] = f
    /\ ClosedList(cache[f].defs)

\* Following includes from a file leads along c to a file of c again.
CircularFrom(path, c) ==
  /\ c[1] = path
  /\ \E i \in 1 .. Len(c) - 1 : c[i] = c[Len(c)]
  /\ \A i \in 1 .. Len(c) - 1 : IncludesTo(c[i], c[i + 1])

\* A circular include is reported only where there is one, and not for a file
\* that is merely included twice or was left over from a failed call.
ReportedCyclesExist ==
  \A n \in DOMAIN result :
    result[n].cycle # <<>> => CircularFrom(result[n].path, result[n].cycle)

\* The files and includes a call for f has to do with, and when they allow it
\* to succeed: all are there, and no files include each other in a circle.
Closed(S) == \A f \in S : \A g \in Files : IncludesTo(f, g) => g \in S
Resolvable(path) ==
  \E S \in SUBSET Parsed :
    /\ path \in S /\ Closed(S)
    /\ \A f \in S : \A k \in DOMAIN includes[f] : IsFound(f, k)
    /\ \A T \in SUBSET S : T # {} => \E f \in T : \A g \in T : ~IncludesTo(f, g)

\* The answer to a call depends on the files alone, not on what was resolved,
\* cached or refused before.
AnswerDependsOnFilesAlone ==
  \A n \in DOMAIN result : result[n].ok <=> Resolvable(result[n].path)

\* ResolveFile returns, on cyclic graphs too.
CallsReturn == (stack # <<>>) ~> (stack = <<>>)
=============================================================================
