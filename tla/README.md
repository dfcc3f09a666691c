# Verification of go-dds-idlgen

TLA+ models of [go-dds-idlgen](../src/README.md), a generator of Go types and of
their XCDR2 codecs from OMG IDL, with TLC configurations and TLAPS proofs.

The program has two lives. At *build time* the command line reads `.idl` files,
resolves includes and types, and writes Go files from templates. At *run time*
the generated `MarshalCDR` and `UnmarshalCDR` methods use the `cdr` package to
put samples on the wire and to take them from it, on different machines, built
from different versions of the IDL, with a transport in between. The second is
where an error is silent, so it is modelled first.

## Inventory

| Part | State | Operations | Hard behaviour | What makes it correct |
|---|---|---|---|---|
| `cdr.Encoder` (`cdr/encoder.go`) | buffer, position, byte order | writes with alignment, `BeginDHeader`/`FinishDHeader`, `WriteEMHeader`, `Reset` | headers are patched after their bodies, in nested calls, with positions kept in the callers' frames | position = length; a patch touches its own placeholder; announced sizes stay right |
| `cdr.Decoder` (`cdr/decoder.go`) | data, cursor, byte order | reads with alignment, `ReadEMHeader`, `Skip` | lengths come from the data; calls go on after failed ones | no read beyond the data; reads make progress |
| Encapsulation kinds (`cdr/types.go`) | none | byte order of a kind, kind of an extensibility | native byte order of the publisher | reader and writer agree on the order |
| Struct codecs (`templates/marshal_*.go.tmpl`) | the object | `EncodeCDR`, `DecodeCDR` for FINAL, APPENDABLE, MUTABLE | presence flags, delimited bodies, member headers, sub-encoders, other versions of the type, reused objects | a sample arrives whole or is refused |
| Union codec (`templates/union.go.tmpl`) | the case and its value | `EncodeCDR`, `DecodeCDR` | failing in the middle of a message; several labels; the default case | the case written is the case read |
| Typedef and enum codecs, constants (`templates/typedef.go.tmpl`, `enum.go.tmpl`) | none | as the array or `uint32` they stand for | enum values are counted in two places | as for structs; both counts agree |
| Key extraction (`cdr/keys.go`, `templates/key_extract.go.tmpl`, `helpers.go`) | none | static offsets, run-time scan | two computations of positions besides the encoder's | offsets are where the encoder put the keys |
| Generator (`internal/generator`) | output directory, names emitted per package | one file per input and package, definitions already emitted or on disk left out | several programs, several inputs, a failure or a kill in between | everything asked for is declared, once |
| Include resolver (`resolver/include.go`) | cache, in-progress set, set of system includes | depth-first parsing of includes | diamonds, cycles, calls after failed ones | definitions complete and in order; a cycle is reported, a diamond is not |
| Type resolver (`resolver/types.go`) | tree of scopes; the reference nodes of all files | registration, lookup from inner to outer scopes, writing of the results | files share the nodes of what they include | every name stands for its innermost declaration in the file in hand |
| Lexer, parser, AST (`internal/parser`, `internal/ast`) | current token, errors | recursive descent with error recovery | recovery never rolls back; expect consumes what it did not expect | it ends; what is accepted is what was written |
| References and imports (`generator.go:369`) | none | names as a package writes them | modules flattened into packages, twice | a reference means in Go what it means in IDL |
| XTypes information (`internal/xtypes`) | per package: a cache of identifiers by name | type objects, hashes, dependencies, serialization | a recursion cut by a cache that is filled behind it | equal types have equal identifiers; nothing is missing |
| Command line (`cmd/go-dds-idlgen`) | processed files | the phases in order | a failure after output was written | no input is half processed silently |

Nothing in the repository runs concurrently. What is hard is the distance
between two computations that must agree: encoder and decoder, static and
run-time offsets, this version of a type and the next one, this run and the one
before; what one file made of nodes it shares with the next. `PROJECT.json` lists
the hazards line by line.

## Modules

| Module | Models | Built on |
|---|---|---|
| `CdrOps` | the methods of `Encoder` and `Decoder` as operators on `[buf, pos, order]` and `[data, pos, order]` | |
| `CdrEncoder` | one Encoder and the nested `EncodeCDR` calls that use it: an action per method | `CdrOps` |
| `CdrDecoder` | one Decoder over bytes it did not choose: an action per method | `CdrOps` |
| `ValueChannel` | abstract: what the two promise a topic's ends | |
| `CdrWire` | a writer, a payload that may be cut, a reader | `CdrEncoder`, `CdrDecoder`; implements `ValueChannel` |
| `TypeCodec` | the codec generated for one struct, union, sequence, array or typedef, given the codecs of the types it is made of | `CdrOps` |
| `GenCodec` | the codecs of an IDL file: `TypeCodec` over itself, level by level | `TypeCodec` |
| `SampleExchange` | publisher, transport and subscriber of samples, also of different versions of a type | `TypeCodec` |
| `KeyExtract` | where a payload holds its keys: the generator's static offsets, the generated scan, the key bytes `SerializedKeyExtractor` collects | `TypeCodec` |
| `IncludeResolver` | the recursion of `ResolveFile`, with the Go call stack as a variable: a step is what happens between two calls or returns | |
| `Generator` | programs that run one after the other on an output directory: the phases of `main`, packages, deduplication, failures and kills | |
| `Parser` | the parse functions over the tokens of a file, with the Go call stack as a variable: a step is one call of `next`, `accept` or `expect`, one assignment, or the entry into a function | |
| `IdlText` | the text of declarations, damage to it, and what parsing must give | `Parser` |
| `TypeScopes` | the phases between parsing and rendering: scopes, lookup, and the references and imports of each package | |
| `TypeObjects` | the layout of type identifiers, type objects and type information | `CdrOps` |
| `EnumValues` | the values of enums, as type objects and as Go constants count them | |
| `TypeInfo` | the memoised recursion that computes type information while packages are rendered, and dependencies | `TypeScopes`, `TypeObjects`, `EnumValues` |
| `CdrContract`, `TypeContract` | what the calls of an encoder and a decoder, and the codecs of types, promise one another: the vocabulary of the proofs | `CdrOps`, `TypeCodec` |
| `CdrOps_proofs`, `CdrCoders_proofs`, `CdrWire_proofs`, `TypeCodec_proofs`, `SampleExchange_proofs`, `IncludeResolver_proofs`, `Generator_proofs`, `TypeInfo_proofs` | lemmas and theorems | the modules they are named for; `CdrCoders_proofs` is about `CdrEncoder` and `CdrDecoder`, `TypeInfo_proofs` also about `TypeScopes` |
| `MCEncoder`, `MCDecoder`, `MCWire`, `MCCodec`, `MCExchangeTypes`, `MCExchange`, `MCKeys`, `MCInclude`, `MCGenerator`, `MCParser`, `MCTypes` | values for TLC | |

**State.** `enc` and `dec` are the Go structs; a `bytes.Buffer` is a sequence of
bytes. `open` is what the code keeps in the local variables `dh` of the
`EncodeCDR` frames on the Go stack; `bodies`, `script`, `slots`, `got`, `took`
are history variables that properties need and no guard reads, except that the
reader of `CdrWire` follows `script`: that is the generated code of the same IDL.
In `IncludeResolver`, `stack` holds a frame for each `ResolveFile` that has not
returned: its file, how many includes it has taken, and `includedDefs` so far; an
error empties it, and each frame's deferred `delete` with it. In `Generator`,
`disk` outlives the programs; the other variables are those of `main`, of its
resolver (`cached`, `systemPaths`) and of its generator (`emitted`), and end with
the process; `asked` and `promised` are history.

In `Parser`, `work` lists what the parse functions that have not returned still
have to do, the next item first: a call is replaced by the body of the function,
chosen by the current token as its branches do. `vals` holds their local
variables. In `TypeScopes`, `at` is the place `resolveDefs` has reached, and
`resolved` what is written in the reference nodes, which outlives the file;
`written` is history. In `TypeInfo`, `frames` holds a frame for each
`compute...TypeIdentifier` that has not returned, with the member identifiers it
has so far; `cache` lives as long as one package; `objects`, `computed` and `infos`
are history, except that a hash is an index into `objects`.

**Data.** A scalar is the sequence of its bytes, most significant first, and the
byte order decides how they reach the wire: signs, floats and widths play no
other part. A size, length or header word is a number, turned into four bytes by
`Word`. A type is a record (`TypeCodec`), a Go value is a sequence: an
`@optional` member is `<<>>` (nil) or `<<value>>`, a union is `<<>>` (no value)
or `<<case, value>>`. Enums are 4-byte scalars. A typedef of an array is a kind of its own, because it
encodes by its own methods and the generator aligns it as a named type; other
typedefs are the types they name. The generated methods of a type call those of the
types it is made of; in `TypeCodec` these are the constant operators `EncodePart`,
`DecodePart` and so on. `GenCodec` puts `TypeCodec` on top of itself, from the
types of level 0, which are made of no others, to those of level 3; the
configurations of `SampleExchange` and `KeyExtract` give these operators the codecs of
level 3 (`MCCodec`), so what is sent is at most five levels deep. Recursive operators would do as well for TLC,
but nothing could be proved about them. `KeyExtract` keeps the found keys as records
`[offset, size]` and leaves the type hints out.
The definitions an IDL file holds are one block in `IncludeResolver`, where only
their order among files counts, and a sequence of names with their modules in
`Generator`, where a generated file is the set of definitions it declares.
`Generator` takes what an input reaches through includes as a set (`Reached`):
how it is found is the subject of `IncludeResolver`.
A token of `Parser` is a value; which characters make it is the lexer's. An AST
node is a tuple. In `TypeScopes` a definition is a number, its declaration a
record of `world.decls`, and the type of its i-th member is known as `<<d, i>>`: two
files that hold the number d share the node. In `TypeObjects` what is written is a sequence of items, the encoder's calls;
`WriteItems` makes bytes of them with the operators of `CdrOps` and keeps the
DHEADERs that are open on a stack. Names are bytes by `Text`, and `NameHash`
gives their MD5 prefix. MD5 is taken to be injective: a hash is the index of the
object among all, as four bytes and zeros.

**Errors.** A read returns `ok` and the decoder it leaves, with the cursor where
the failed call left it. `DecodeCDR` returns at the first error, with the members
decoded so far assigned. Encoding fails only for a union without a value; the
error unwinds every caller, none of which patches its header (`Unwind`).
The transport is external: it delivers, cuts (`CutShort`) or loses (`Lose`) a
payload; DDS neither repeats nor reorders the bytes of one.
`log.Fatalf` ends a program with what it has written left on disk (`Fails`);
`Interrupted` ends it anywhere, also with part of a file written, of which the
scan of the next program finds the declarations that are there.

## Runs

| Run | Shows |
|---|---|
| `encoder` | type invariant, `PosIsLength`, `OpenHeadersInBuffer`, `DHeadersDelimitBodies`, `BodiesNest`, `OnlyOpenHeadersRewritten` for all orders of operations. No operation starts beyond byte 12 and two headers may be open: enough for two nested bodies with every misalignment in front of each, a sibling after a finished body, and a failure between. One little- and one big-endian kind, and encoders without a header. |
| `decoder` | `CursorBounded`, `ReadsStayInside`, `ReadsMakeProgress` for all inputs of up to five bytes over {0, 1, 2, 64} and longer ones whose lengths and length codes lie, all calls following all others. The state space is not cut: the cursor is bounded by the property itself. |
| `wire` | `ImplementsChannel`, `CursorsMeet` for all messages of up to three calls, with headers nested at most two deep, delivered whole or cut at any byte. Three calls suffice for a value to be misaligned by a first, and read after a second. |
| `exchange` | `SampleArrives`, `AcceptedJustIfWhole`, `HeadersTilePayload`, `PresentMembersShown` for four types that hold every kind of member the templates tell apart, and for two versions of a MUTABLE type that drop, add and reorder members, in both directions. Samples have each optional member absent and present, sequences of 0 to 2 elements and each case of a union; both byte orders; two samples, into new or reused objects, of which one (`MaxFaults`) may be lost or cut at any byte: the least that lets a half decoded object meet a whole sample. |
| `keys` | `KeyFieldsLocated`, `CutPayloadHasNoKeys` for two types with static offsets and four that are scanned, with keys behind padding, presence flags, sequences, unions, nested structs and unknown members of another version; both byte orders; one sample, whole or cut at any byte. |
| `include` | `InProgressIsStacked`, `DefinitionsClosed`, `ReportedCyclesExist`, `AnswerDependsOnFilesAlone` and the liveness property `CallsReturn` for any number of calls, on three kinds of disk: every graph of up to two includes per file over a few files, with a file in an include directory that is shadowed by one beside the including file, one that cannot be parsed and one that is missing. |
| `generate` | `DeclaredOnce`, `OwnDefinitionsOnly`, `SuccessDeclaresAll`, `FailureKeepsDefinitions` for one to three programs over one directory, in several orders and splits, each of which may be killed at any point or fail: at a reference that is not found, at text `go/format` refuses, at a file that cannot be parsed, without inputs. Each file that can be generated is an input once at most; two Go names clash across modules that become one package. |
| `parser` | `ParseInvertsPrint`, `AcceptedReadsBack` and the liveness property `ParseReturns` for four files that between them hold every construct, a text of include guards and skipped declarations, and all texts one token away from these: one left out, put in, put in place of another, or the end cut off anywhere. One wrong token is enough to put every parse function out of step once. Files are written in the grammar's order, the outermost array size first, and have one-dimensional arrays only; two more texts, with an array of arrays and with two default cases, and what damage makes of them, are checked for `AcceptedReadsBack` (where `Lenient` does not leave them out) and `ParseReturns`. |
| `types` | `TypesTypeOK`, `ResolvedInScope`, `ReferencesDenote`, `IdentifiersMatchStructure`, `OneIdentityPerType`, `InformationReadable`, `DependenciesComplete`, `EnumLiteralsAgree` and the liveness property `GenerationEnds` for four kinds of world: two packages whose types hold one another's, with the members of one struct in all 24 orders (so each type is first met by another way), files that share them and a diamond of includes; types that differ in one thing; a file that hides a name from a struct the next file shares; modules of three levels with capitals, and a name nobody declares. |

Three runs expect a violation. Each is a disagreement between the code and what
the repository says of it; `PROJECT.json` quotes both sides.

| Run | The code |
|---|---|
| `evolve_appendable` | ignores the size in an APPENDABLE type's DHEADER, so appending a member to a nested type breaks readers of the old version, and old payloads new readers |
| `union_labels` | generates an empty Go `case` for all but the last label of a union case, and writes the first: the value is not read, and what follows is read from its bytes |
| `key_bytes` | applies offsets that count from behind the encapsulation header to data that begins with it: different keys can have the same bytes |

`SampleArrives`, `KeyFieldsLocated`, `SuccessDeclaresAll` and the properties of
`types` are thus properties of the types, calls and worlds of their passing runs.
Further disagreements that reading the code showed, which the runs leave out:

At run time:

- An absent `@optional` member is not reset, so a reused object shows the earlier
  sample's (`docs/dds_specification.md:161`). `PresentMembersShown` is what
  remains true of reused objects.
- The generated decoder of a MUTABLE type counts NEXTINT twice for the length
  codes 5 to 7 (`marshal_mutable.go.tmpl:142`; `docs/dds_specification.md:123`), and
  `EMFieldSize` does not scale it for 6 and 7. The encoder writes codes 0 to 4.
- An `@id` beyond 28 bits is masked by the encoder (`encoder.go:226`) but not by the
  comparison in the decoder, which skips the member.
- The default case of a union writes the discriminator its wrapper holds, also one
  that is another case's label (`union.go.tmpl:52`).
- A sequence's length is allocated before its elements are known to be there
  (`marshal_final.go.tmpl:190`); a present `@optional` array of a MUTABLE type is
  decoded through a nil pointer (`marshal_mutable.go.tmpl:200`).
- A string key behind members of fixed size gets a static offset with the size 0
  (`helpers.go:712`), where `cdr/types.go:116` says that it is the serialized size.
- Key offsets count nested structs as FINAL (no DHEADER), named types as aligned
  at 4, and elements as if their size were a multiple of their alignment; the scan
  does not skip arrays whose elements vary in size; and keys of a MUTABLE type
  come in the order of the payload. `KeyFieldsLocated` fails for such types.

In files and packages:

- A second run of a command finds its definitions in the file it is about to
  write, and overwrites it without them (`generator.go:230`); a file given twice or
  found below two include paths is generated twice, the second time without its
  definitions (`main.go:54`); inputs of one base name and package overwrite each
  other's output (`generator.go:312`). `SuccessDeclaresAll` fails for such inputs.
- Different definitions whose Go names agree, in modules that become one package,
  are taken for one, and the second is dropped (`generator.go:255`).
- Merged definitions come once per path of includes, so diamonds in a row double
  them (`include.go:84`). What they mean is unchanged: the last one counts.

In names and types:

- The parser builds array dimensions inside out: `long m[2][3]` becomes three arrays
  of two (`parser.go:615`). It loses without an error an `@id` that is no decimal number
  (`parser.go:298`), enum values that are no integers, expressions as annotation
  parameters, an unclosed include path and the first of two default cases.
  `ParseInvertsPrint` fails for files with arrays of arrays, or with an `@id` like `0x2`;
  `Lenient` of `IdlText` says where `AcceptedReadsBack` does not hold.
- A scoped name is looked up from the root only (`resolver/types.go:61`); relative
  ones, which IDL allows, end the program. A simple name for a type of an enclosing
  module becomes an unqualified Go name of the wrong package, and packages whose
  last segments agree share one import (`generator.go:376`).
- The type information of a root is computed from names as its package writes
  them, that of the types it holds from names as in the IDL: with nested or
  capital modules one type gets two cache keys (`compute.go:757`).
- Labels that are names of enum values become 0 in type objects (`compute.go:786`),
  so unions that differ only there look alike. Base types are ignored
  (`compute.go:206`). Types behind typedefs of sequences and arrays are missing from
  the dependencies (`compute.go:585`), against the comment at 538. A collection of a
  collection is never marked EK_BOTH (`compute.go:653`;
  `docs/dds_specification.md:464`).
- A struct that holds itself through a sequence, which IDL allows, and a cycle of
  typedefs let the generator recurse until its stack is full (`compute.go:147`,
  `helpers.go:16`).
- A comment says that FINAL is the default (`helpers.go:218`); the code returns
  APPENDABLE.

**Fairness.** Three specifications assume that the program runs on by itself:
`IncludeResolver` (`WF(RStep)`: between a call and its return; that anyone calls is
not assumed), `Parser` (`WF(Step)`) and `TypeInfo`. The last writes the weak fairness
of `TypesStep` out, since its enabling condition is too deep for TLC to expand:
`Running` says when a step can be taken, which the deadlock check of the run
confirms, and `progress` is what every step changes. The other specifications
claim no liveness. That a decoder's loops end is the action property
`ReadsMakeProgress` instead: each read moves the cursor, which `CursorBounded`
bounds, or fails. In `wire`, where deadlock is checked, the reader can also make
its next call until the message is at its end.

**Deadlock** is checked except where the system stops: the runs of `Generator`
end when the last program has. Where samples are bounded, `Done` stands for the
end, in `TypeScopes` `Ended`.

**Bounds.** `MaxLen`, `MaxDepth`, `MaxItems`, `MaxPayload`,
`MaxFaults` and `MaxSamples` bound
what the environment does, never what the code does; so do the graphs of
`MCInclude`, the calls of `MCGenerator`, the texts of `MCParser` and the worlds of
`MCTypes`, whose modules have no bound of their own. `MaxPayload` only limits
where a payload is cut, and exceeds the longest one. The worlds of `MCTypes` avoid
what the list above says is wrong: types of different packages refer to each
other by full names in modules of one lower-case segment, no typedef of a
collection holds a struct, no two unions differ only in labels that are names,
no struct has a base or holds itself. They take the package prefix as not empty
and leave deduplication to `Generator`.

## Proofs

`CdrCoders_proofs` proves, for all kinds, scalars, strings, sizes, depths of
nesting and lengths, that every behaviour of `CdrEncoder` has the five invariants
of the run `encoder` and its action property. The only assumption is
`EncoderAssumption`, which says that scalars and strings are byte sequences and
that IDs and sizes are natural numbers; TLC evaluates it in every run.

Two facts carry the argument. A write only adds bytes behind those that are
there and keeps `pos` in step (`Extends`, with one lemma per method in
`CdrOps_proofs`). And `FinishDHeader`, the only rewriting, changes the four bytes
of its placeholder and leaves the size of the body there (`FinishPatches`).

The invariants are not inductive: that finishing an inner header leaves the
outer sizes right, and finishing an outer one the inner sizes, needs that no open
header overlaps a finished body's header. `HeadersApart` says that a finished
body either ended before an open header began, or lies behind it. It holds
because headers are finished innermost first. `IndInv` is the conjunction of
the invariants with it.

`CdrCoders_proofs` also proves the three properties of the run `decoder` and the type
invariant, for any bytes, skips and orders of calls, from `DecoderAssumption` (inputs
are bytes, skips natural numbers). One lemma per method says where it leaves the
cursor (`Reads`): behind the start and inside the data if it succeeds, and in any
case not beyond the first multiple of 4 behind the data, because no alignment
jumps over such a multiple (`PadStops`). That bound is also what makes the
invariant inductive: after a failed call the cursor may be beyond the data.

`CdrWire_proofs` proves that the wire implements `ValueChannel`, and `CursorsMeet`:
for all messages, kinds, nestings of bodies and cuts, a reader that makes the
writer's calls gets the writer's values, in order and unchanged, and is refused
only if the payload did not arrive whole. `WireAssumption` asks that sizes fit in
32 bits and strings too, with their zero byte, because the code casts their length
(`encoder.go:156`); the invariant then goes as follows.

- `Laid`: the buffer is the written items side by side; the i-th lies from `p[i]`
  to `p[i + 1]`, where the next call's alignment begins.
- What a read returns depends only on the bytes of its item (`ItemLocal`). So what
  was written later, or cut off behind it, does not change it.
- From its bytes each item reads back as the value written, with the cursor at its
  end: one lemma per method, of which those for aligned words, strings and member
  headers carry the arithmetic. The decoder's lemmas about single methods are in
  `CdrOps_proofs`.
- `Headed`: the headers among the items are the open ones and those of finished
  bodies. `FinishDHeader` rewrites the bytes of one item, and turns what it reads
  back as from the placeholder into the size (`FinishPatches`).

Step by step, the writer's calls stutter, `Deliver` publishes the message, each
`ReadNext` receives its next value, and a read that fails breaks a channel whose
payload is not whole: on a whole one, `Laid` says that it would have succeeded.

`TypeCodec_proofs` proves the round trip of the generated codecs, of all types at once.
`TypeContract` says what a codec promises (`Faithful`):

- decoding any data leaves the destination in the shape of its type, also when it fails
  (`KeepsShape`);
- encoding only adds bytes (`Writes`);
- if the data at the decoder is what encoding a value wrote, as far as there is data,
  and starts as far from a word as it did, then decoding succeeds just if all of it is
  there, ends behind it, and makes of a new object the value, and of any object one
  that has every member the value brings (`ReadBack`).

`PartsFaithful` says the same of the codecs a type's own calls, and `LevelFaithful`
derives the one from the other, for members, unions, sequences and arrays without
number. The induction along the elements and members is over recursive functions, as
a lemma about sets of numbers (`CountingUp`). `RoundsShown` carries `Shows` and `Shown`
from each write to the next; `RoundsExtend` says that later ones leave it alone.
The parts that a test would hardly reach:

- A MUTABLE member of variable size is encoded by an encoder of its own at position 0 and
  read at another position: `SubShown` needs that both are as far from a word,
  which a member header ensures. Alignment is capped at 4 (`PadSame`), so this is enough.
- The loop over a MUTABLE body runs until the cursor is at its end, so it does not
  take one round per member: `MemberRounds` says that after the rounds for the members
  present it stands still (`Stationary`), and `RoundFits` that words in the data bound
  the rounds. `MembersShown` is about any reader of them: the one that knows the same
  members, that of another version, which skips by the length code (`UnreadMember`),
  and the one that knows none (`MembersWalked`).
- A length in the data that the payload's cut left there must not be overtaken: in a cut
  payload some read fails, in whatever element, member or padding the cut lies.

`LevelUp` says that types made of faithful types are faithful parts themselves, with
`TypeContract` instantiated one level up. `FiveLevelsFaithful` applies it four times,
from level 0, of whose parts there are none, and so gives `PartsFaithful` for the types
the runs use. The step holds at every level; that it therefore holds for every depth
is an induction over data which the prover does not take.

`SampleExchange_proofs` proves the four invariants of the run `exchange`, for any types,
values, byte orders, numbers of samples and faults, and cuts anywhere. Its theorems
assume `PartsFaithful`; that versions that meet are the same or MUTABLE with equal
types in common members (`AllCompatible`), as the others fail by `evolve_appendable`;
that samples are values of their types, with one label per case and member IDs that
fit and differ (`SamplesTyped`); and that payloads have fewer than 2^32 bytes
(`PayloadsFit`), as the code casts lengths. TLC evaluates the last three in the run
(`ExchangeIsSound` of `MCExchange`). `ExchangeInv`, the inductive invariant, says
that the wire holds the sample's encoding or a proper part of its beginning, that the
destination has the shape of its type whatever failed before, and what the last
`UnmarshalCDR` made of the sample.

`IncludeResolver_proofs` proves all safety properties of the run `include`, for any
files, include paths, graphs and number of calls, from `IncludeAssumption` (paths,
directories and names are what their functions say). Its `IndInv` adds two facts.
`FramesLinked`: each frame's next include names the file of the frame above it.
`FramesClosed`: the definitions a frame has collected hold those of the includes
it has taken, each behind what it needs. With the first, a path that is in
progress closes a circle of includes, which gives `ReportedCyclesExist` and, read
the other way, half of `AnswerDependsOnFilesAlone`: a call fails only for a reason
that is on disk. The other half is that the files of a cached list witness
`Resolvable`, by their order in the list (`DefinitionsClosed`).

`Generator_proofs` proves all invariants of the run `generate` from
`GeneratorAssumption`, for any files and names. Three of them hold for any programs.
`DeclaredOnce` needs `EmittedCoversDisk` (the names a running program keeps for a
package include all that its directory declares: it is scanned once, and every later
write to it is the program's own) and `OwnOnly` needs `FilesAccountedFor` (every
file in an input queue, included or with units to come is one the program was asked
to generate; in particular what is left of the cache at the end of the inputs is not
included with angle brackets by any file reached).

`SuccessDeclaresAll` and `FailureKeepsDefinitions` are proved for programs that
write no generated file for two IDL files, nor two of them the same (`TakenOnce`): a
file that is generated again loses what the scan finds declared in it, as the list
of disagreements above says. The calls of the run meet the condition, which TLC
evaluates (`CallsTakeFilesOnce` of `MCGenerator`), all but the one with two files of
one base name in a package. `OnceInv` adds four facts to the invariant above: no two
units or files on disk, of this program or an earlier one, are of one place
(`FilesTakenOnce`); what has been taken for emitted is on disk, in a file that
nothing will overwrite (`NothingWrittenTwice`, `EmittedOnDisk`); so every definition
of a taken file is declared, there or where dedup saw its name (`TakenDeclared`).

`TypeInfo_proofs` proves, from `WorldAssumption` (declarations and files have the
shape the parser and the include resolver give them), that `ScopesSpec` keeps its
type invariant and `ResolvedInScope`, whatever the declarations are, however deep
they are nested, and however files share them. `LookupDenotes` and `ScopedDenotes`
say that the search finds what `Denotes` defines without searching: the innermost
scope and the last registration, which exist because a bounded set of naturals
has a greatest element (`GreatestExists`, from the well-foundedness of the order).
The invariant is not inductive while a file is being resolved; `ResolvedSoFar`
adds that all references in front of `at` are resolved in this file's scopes. A
definition that a file holds twice, by a diamond, is resolved twice, to the same.

`ReferencesMean` proves `ReferencesDenote` where names can be told apart at all:
different packages end in different names (`AliasesUnique`), and a simple name is
one of the same package (`SimpleNamesLocal`). Without either the code writes wrong
references, as the list of disagreements says; `MCTypes` lets TLC confirm that the
run's worlds have both. The argument: while a file is written, each name denotes a
declaration (`ResolvedInScope`); the last import of an alias (`LatestPlace`) is
one of the package the alias ends, which only one package does (`ImportFound`); and a
simple name denotes something between its own module and the declaration in its
package, which is in that package too, as flattening joins neighbouring levels only
(`BetweenIsSame`).

It proves that every behaviour of `TypesSpec` is one of `ScopesSpec`
(`TypesImplementScopes`), so these hold there, too.

And it proves that the type invariant of `TypeInfo` holds where no type holds itself
(`TypesStayTyped`): entries of the cache are of objects of their kinds, the objects
are all different, and no type is begun inside itself. `TextAssumption` says that the
names of a world have bytes and a hash; `NoneHoldsItself` that among any types there
is one whose members' names stand for none of them. Without it the code recurses
until its stack is full, as said above; `MCTypes` lets TLC confirm it of the run's
worlds, and `TypesInv`, the inductive invariant, was checked on them before it was
proved. Two arguments make it up.

- Layout. Items that are `Closed` add bytes behind those that are there and leave
  the DHEADERs that were open as they were. Scalars, strings and raw bytes are
  closed, and so is a delimited or concatenated sequence of closed items; hence
  every layout of `TypeObjects`, given members as `BuiltMembers` makes them
  (`StructTypeClosed`, `UnionTypeClosed`, `EnumTypeClosed`), whose identifiers consist
  of scalars and bytes (`IdentifierFlat`). So patching the object's size disturbs
  nothing behind it, and the fifth byte is the kind it was written with
  (`KindWritten`).
- Descent. What a reference was resolved to, for whatever file, is a type that its
  own may hold (`ResolvedHeld`), typedefs lead on to such (`TypedefsPassed`), so a
  member ends in a type under its own (`Expanded`), and `Descend` begins only types
  that are under all those in hand (`Nested`). No type is under itself
  (`NotUnderItself`): the types that have it under them would hold one another.

It also proves that the two counts of an enum's values agree for every
declaration (`CountsAgree`). The counter of `computeEnumTypeIdentifier`
is a recursive function over the literals. `ComputedIsFixed` says that the distance
from the last explicit value satisfies its equation, so there is a solution;
`RoundsAgree` that there is one only, as the first literal where two differ would
have to follow an earlier one.

And that a peer reads these counts from the enum's type object (`EnumValuesRead`, which
states `EnumLiteralsAgree`), where no enum has more than 2^32 - 1 values (`EnumsFit`,
as the code writes their number as a uint32; TLC evaluates it for the run's worlds).
The object is followed from both sides. `LiteralWritten` and `LiteralsWritten` say
where the encoder puts the value of each literal, with the padding between literals,
and that finishing the DHEADERs around it leaves it there (`DelimitedKeeps`), up to the
whole object (`EnumObjectHolds`). `FieldsFound` says what a reader of any fields
finds if their widths lead through the data; those of an enum's head lead to the
count (`HeadRead`), and those of as many literals to the same places the encoder used
(`LiteralsLead`). Both go by the first place that would differ. The inductive invariant,
`EnumsWritten`, is that the index kept for a computed enum is of its object: objects
that are found or added later do not move it (`HashedOnce`).

## Checked only by TLC

- `KeyFieldsLocated` and `CutPayloadHasNoKeys` of `KeyExtract`, and `ParseInvertsPrint`
  and `AcceptedReadsBack` of `Parser`: those modules and `IdlText` compute with
  recursive operators, which the prover does not take. The runs compare the results
  with what they should be for all values of their small worlds.
- What the type objects and type information of `TypeInfo` say (`IdentifiersMatchStructure`,
  `OneIdentityPerType`, `InformationReadable`, `DependenciesComplete`): that types of the
  same bytes have the same structure, and that the collection of dependencies reaches
  every type, are inductions over data; `InformationReadable` takes the first, as it
  tells types by their identifiers. Of the objects, the values of enums are proved
  to be read back (`EnumValuesRead`).
- `CallsReturn`, `ParseReturns` and `GenerationEnds`, as liveness is out of this
  prover's reach.
- That the five levels of `GenCodec` could be any number.

## Not modelled

- How characters become tokens: white space, comments, literals, positions.
- The Go text a definition becomes beyond its codec, references and imports: name
  mangling (`GoNames` of `Generator` is a constant), constants, file headers, the
  rendering of type information as a Go literal, and error texts. Go's import by
  package name is external.
- Keys of inherited structs and `@optional` keys; 16-bit strings; types that hold
  themselves.
- Memory, panics and generated code that does not compile (`@optional` sequences,
  sequences of sequences without a typedef).
- The sensor example, which is generated output.

## Plan

1. `CdrOps`, `CdrEncoder`, `CdrDecoder`, `ValueChannel`, `CdrWire`: done.
2. `TypeCodec`, `GenCodec`, `SampleExchange`: done; to come: a default case whose
   discriminator is another case's label.
3. Proofs about the encoder, the decoder, the generated codecs and the exchange of
   samples: done.
4. `IncludeResolver`, its liveness and proofs: done.
5. `Generator`, with the phases of the command line, and proofs: done.
6. `KeyExtract`: done.
7. `TypeScopes` and its proofs: done.
8. `TypeObjects`, `TypeInfo`: done; to come: base types and types that hold
   themselves, as far as the code ends on them.
9. `Parser`, `IdlText`: done.
10. The wire's refinement of `ValueChannel`, what the directory keeps, what
    references mean, and the state of `TypeInfo`: proved. So is that what is read from
    an enum's type object is what was written. To come: that a parse consumes the text
    from left to right, and that type information reads back as it was written.
