# xisf-rs in TLA+

A verification project for xisf-rs, a Rust implementation of the Extensible Image
Serialization Format: an XML header that names images and properties, followed by (or
beside) the binary blocks that hold them. The TLA+ modules here are translated from the code
of the workspace under `src/crates`; TLC checks them on small instances and TLAPS proves what
matters most for every value of their constants.

`PROJECT.json` lists the components, the runs, the hazards, the source lines each definition
models, and for every property a mutation of the model that breaks it.

## 1. Inventory

The library is sequential: no thread, lock, timer or network of its own. Only the C API meets
threads, those of its caller, and guards its lists of handles with `OnceLock`. What is hard in it
is of other kinds: data of unknown origin is followed as pointers; files change while they are
read; one structure is written in one place and read in another, sometimes by two different
readers; lengths and positions feed back into each other; budgets must hold on every path.

| Component | State | Operations | Interacts with | What makes it correct |
|---|---|---|---|---|
| Data blocks file (`distributed.rs`) | the file: preamble, linked list of index nodes, blocks | `parse_blocks_file`, `BlocksIndex::get`, `read_block_from`, `write_blocks_file` | called by the reader for external blocks, by the writer for distributed units | both lookups return the block named or refuse; they are bounded, end, and agree; what is written is well formed |
| Reader (`reader.rs`) | mapping or bytes, layout, header, path; switches for verification, absolute paths, URL resolver | `open`, `from_bytes`, `stored_block`, `block`, `verify`, the switches | calls layout, header, codec, distributed; called by both APIs | a block is that of its location and lies outside the header; a recorded checksum is looked at; an external file is seen in one version |
| Header parser (`header.rs`) | stack of open elements, finished tree, two counters | one step per XML event, judgement at the end, `by_uid`, `associated` | fed by quick-xml; read by everything else | budgets hold; one tree under one root; embedded data describes its parent's block; references are unambiguous |
| Writer (`writer.rs`) | images, properties, tables, metadata | `add_*`, `to_bytes`, `to_distributed` | calls codec, distributed | header and bytes agree on every position and identifier; the fixed point settles; what is accepted can be read back |
| Codecs (`codec.rs`, `StoredBlock` in `writer.rs`) | none between calls | `prepare`, `decode`, `shuffle`, `unshuffle` | external compressors | what is written is read back; a lie in an attribute is refused; output is bounded |
| Layout (`layout.rs`) | none | `scan`, `header_str` | reader | form and extent of the header |
| Block attributes (`block.rs`) | none | grammar of `location`, `compression`, `checksum` | header parser | parse what render wrote |
| Images, properties, tables (`image.rs`, `property.rs`, `table.rs`) | none | `parse`, sizes, shapes | reader, writer, APIs | sizes do not overflow; shapes agree with blocks; one that does not parse costs no other |
| Colour (`color.rs`) | none | parse, display function | APIs | real arithmetic |
| Astrometry (`astrometry/`) | a parsed solution | `read`, `validate`, `load`, evaluation | reader | layers usable from below; packed terms cut where they belong |
| Rust API (`xisf/src/lib.rs`) | an open file | images, properties, `read`, `read_planar` | reader | a read has exactly the size of the geometry |
| C API (`libxisf/`) | handles built once, buffers with a header | open, close, accessors, read, free | reader | error codes agree with results; a panic does not cross |
| Command-line tool (`xisftool`) | counters of `verify` | info, header, verify, dump | Rust API | the exit code says what was checked |

Hard behaviours, and where they are: changes of an external file between two reads
(`reader.rs:521-558`), cyclic and overlapping node lists (`distributed.rs:133-202`), two
implementations of one lookup (`distributed.rs:113-205` and `215-316`), the fixed point on the
header length (`writer.rs:444-455`), promotion of `<Data>` (`header.rs:422-443`), depth and
size budgets (`header.rs:193-261`), streams that hold more or less than they claim
(`codec.rs:58-156`), verification that is switched between reads and ignored by `verify`
(`reader.rs:356-390`), the first handle asked for by two threads (`libxisf/src/lib.rs:364`),
exit codes over many files (`xisftool/src/main.rs:360`), grammars written twice, once to
accept and once to read (`writer.rs:342-724`, `image.rs`), and layers of a solution that must
not pull one another down (`astrometry/mod.rs:399-438`). The complete list, with the properties aimed at each, is under `hazards`.

## 2. Plan

In the order of importance; the first eleven are done.

1. `BlockIndex`, `LocalLookup`, `RemoteLookup`, `BlockPromise`, `BlockLookup`: the lookup of an
   external block, as promised and as written twice. Proofs: types, bounds, nodes inside.
2. `LiveUnit`: the same lookup while the file changes. Proofs: types, bounds.
3. `Writer`, `WrittenUnit`: serialisation and what a reader finds. Proofs: the fixed point,
   attachments.
4. `HeaderParser`, `HeaderTree`: the header as a tree.
5. `Shuffle`, `Codec`: a block through compression and back. Proof: unshuffle after shuffle.
6. `Reader`, `RustApi`, `CApi`, `Tool`, composed by `Session`: an open file, its switches, the
   dispatch on locations, the handles and buffers of threads, the tool and its exit code.
   Proofs: verdicts and reads agree, both interfaces agree, handles stay.
7. `Attributes`, `ImageAttributes`, `Values`: the `parse` functions as pure algorithms.
8. `Description`, `Acceptance`: what the writer accepts against what the reader accepts, and
   what survives.
9. `Solution`, `Evaluation`, `SolvedImage`: layers of an astrometric solution. Proofs: the
   cutting of packed terms.
10. Further proofs: each lookup implements `BlockPromise` (initial states and steps);
    a remote block is the local one; the answers given while a file grows; the header's budgets, its one tree and
    its descriptions; the bounds and the round trip of the codec; the index of a written blocks
    file; the place of what a reader serves; the tool's exit code; the layers, the terms and the
    fallback of a solution.
11. Proofs of both properties of `Acceptance`: what is given is found, what was read is written again.
12. Left: the facts about pure algorithms that TLC only evaluates (end of section 4), for all inputs.

## 3. Modules

| Module | What it is |
|---|---|
| `BlockIndex` | a data blocks file as a length and a function from byte offsets to 64-bit words; node headers, elements, preamble; the answers of a lookup; what a well-formed index is, without walking it |
| `ExternalBlock` | the request: what the path names, and the identifier in the locator |
| `LocalLookup` | `read_external_block` and `read_block_from`, one action per read of the file |
| `RemoteLookup` | `extract_external` and `parse_blocks_file`, one action per node |
| `BlockPromise` | abstract specification: one answer, and which answers a file allows |
| `BlockLookup`, `MCBlockLookup` | both lookups on one file, their properties, and the small files |
| `LiveUnit`, `MCLiveUnit` | `LocalLookup` composed with processes that grow, replace, remove or overwrite the file |
| `Writer`, `WrittenUnit`, `MCWriter` | the writer; what is to be found in what it returns; small units |
| `HeaderParser`, `HeaderTree`, `MCHeader` | `header::parse`; its properties; small documents |
| `Shuffle`, `Codec` | byte shuffling; `StoredBlock::prepare`, `stored_block`, `decode` |
| `Results` | a value or an error of a kind, and the ways of passing them on |
| `Reader` | layout, dispatch on locations, path resolution, the switches, `verify`: functions of an open reader |
| `RustApi` | the calls of `XisfFile`, with the switches thrown between them |
| `CApi` | several threads in the C interface: handles built once, buffers with a length |
| `Tool` | `xisftool`: arguments, four commands, exit code |
| `Session`, `MCSession` | one reader under the three kinds of program; small files |
| `Attributes`, `ImageAttributes`, `Values` | the grammars of `block.rs`, of `image.rs`, and of `property.rs` and `table.rs` |
| `Description` | what the writer's `add_*` calls accept, and the elements they become |
| `Acceptance`, `MCAcceptance` | writer, header, another program's edit, reader, second writer; small descriptions |
| `Solution` | reading and validating a solution, loading and cutting its spline terms |
| `Evaluation` | which layer and which terms answer at a point |
| `SolvedImage`, `MCSolvedImage` | a solution altered, read and evaluated; small solutions |
| `BlockLookupProofs`, `LiveUnitProofs`, `HeaderProofs`, `CodecProofs`, `WriterProofs`, `SessionProofs`, `SolutionProofs`, `AcceptanceProofs` | the proofs; `LiveUnitProofs` extends `BlockLookupProofs` for the facts about the local walk, so that the names of `LiveUnit` begin with `Live` where `BlockLookup` has the same |

How the state corresponds to the code:

* **Lookups.** `statLen` is `metadata.len()` passed as `file_len`; `held` is the file behind the
  open handle, which may stop being what the path names (`disk`); `position`, `seen`, `counted`
  are the locals of the walk, `walked` its loop counter, `node` and `i` the node entered and the
  element loop. A refusal carries the code's `ErrorKind`. Every test of a node is made in one
  step together with the read of its header, in the code's order; elements are separate
  steps, because each is a separate read of the file. The remote walk works on bytes that
  cannot change, so a node with all its elements is one step. 64-bit additions that the code
  checks for overflow are exact here: a sum that overflows is larger than any file, and both
  are refused as `Truncated`.
* **Files.** A word is read at any byte offset, so a node may lie inside an element and two
  nodes may overlap, exactly as bytes allow.
* **Writer.** `stored` holds lengths and owners, in writing order; `header` the location of
  each owner; `assumed` the length the current round assumes. The header's text appears as
  `HeaderLen(blocks, data_at)`, a constant operator, which TLC is given as the fixed text plus
  the decimal digits of every position and length. All locals of a call are variables that
  `Begin` resets. The checks `add_image` makes on attributes are represented by the set
  `Pendings`; the uniqueness of image ids, which depends on state, is an explicit guard.
* **Header.** An event of quick-xml is an element of `unread`; a start tag is a record of what
  the engine later asks for. `tree` lists elements in the order they close; parent links replace
  nested ownership. Namespace and attribute values that do not parse are the record's
  `fault`, which the code may meet before or after it meets the attribute budget.
* **Reader.** A reader is a record: the bytes it has, its header's elements, its path and its
  switches. A block's content is named by where its bytes are (file, first, last), and a digest
  is the bytes it was taken of, so that two blocks are equal exactly if they are the same extent
  and a checksum matches exactly if it was recorded of it. `stored_block`, `block` and `verify`
  are functions of that record, one operator per function of the code, with the errors in the
  code's order.
* **Sessions.** `program` says who uses the reader. A Rust program is one actor whose calls
  alternate with assignments of the switches. A C program has a set of threads, each at one of a
  few places of a call; the handle lists are an `OnceLock` with a state of its own, so that a
  thread can wait for the one that builds. The tool opens its files one by one and counts.
* **Acceptance.** A description is what the caller hands to the writer; a rendered element is
  what the reader's header holds. Texts are split at their separators: a piece is a number, a
  known word or `Word`, which is not a number. Floating point numbers are whole numbers, NaN or
  an infinity. `Edit` is another program that rewrites one attribute.
* **Solutions.** A solution's properties are records of type and value. Numbers of the i-th Local
  term lie in the i-th hundred, so that a coefficient that lands in another term is seen.
* **Codec.** A compressor is external: it makes a stream of some length that stands for the
  bytes it was given. A decoder returns those bytes, cut at the limit it was handed
  (zlib) or an error if they do not fit the buffer (LZ4). `phase` follows the order of
  checks in `stored_block`, `decode` and `decompress_subblocks`.

## 4. What the runs show

| Run | Question | Outcome |
|---|---|---|
| `lookup` | Do both lookups keep the promise, stay bounded, end, and agree where the remote one answers? | holds |
| `live_unit` | What is promised while the file changes? | holds |
| `whole_is_plain` | Is what is returned whole always a plain file, as `reader.rs:568-570` wants? | violated |
| `writer` | Do header, index and bytes agree, and does the length settle? | holds |
| `header` | Budgets, one tree, unambiguous references, promotion of `<Data>` | holds |
| `nesting` | Is no element nested deeper than `MAX_DEPTH`? | violated by one |
| `data_encoding` | Is a block decoded with the encoding of the `<Data>` its text came from? | violated with two `<Data>` |
| `codec` | Is what is read what was written, or an error, within bounds? | holds |
| `session` | Do all programs get a block from its own place, do verdict, read and exit code agree? | holds |
| `acceptance` | What of a description survives being written and read, and is it written again as it was read? | holds |
| `solved_image` | What does each fault of a solution cost? | holds |
| `layering` | Does a fault of the projective transformation leave the projection below it, as `astrometry/mod.rs:399-400` wants? | violated |

The four disagreements:

* *Whole is plain.* The signature is read through one handle and the contents by opening the path
  again (`reader.rs:533`, `550`).
* *Nesting.* `MAX_DEPTH` is tested for start tags, not for empty tags.
* *Data encoding.* Text, compression and checksum are taken from the first `<Data>` that has
  them; the encoding from the last.
* *Layering.* A property of the projective transformation that is missing or broken is an error for the whole
  solution (`mod.rs:771-781`), although the projection below it has been read by then. So is a distortion
  model that is whole but has no projective transformation below it (`mod.rs:804-809`); that case is left
  open by `LowerLayersStand`, which names it as the only one in which layer 3 costs the others.

Both lookups refuse a list of exactly `MAX_NODES` nodes as one of "more than" that (`distributed.rs:205`,
`316`), since the loop ends before the end of the list is seen. `WellFormed` allows the refusal, so the
promise says nothing of such a list; it binds for one of one node fewer.

Where the two lookups differ is no conflict with what the code says of itself, and stays inside the promise:
`BlocksIndex::get` takes the first element with the identifier even when it is a free placeholder, which the
local walk passes over; an index broken after the wanted element is refused remotely and answered
locally; and a refusal may be of another kind. Neither returns wrong bytes: `RemoteBlockIsLocalBlock` holds on all files.

Properties of `lookup`: `LocalKeepsPromise` and `RemoteKeepsPromise` are refinements of
`BlockPromise`: the reply is one that the file allows. On a well-formed file that is the block of
the element with the identifier, or not found; on a damaged one, a refusal or the bytes of some
occupied element with that identifier inside the file; never anything else. `NodesInside` is
why `parse_blocks_file` cannot slice out of range.

Properties of `live_unit`: `GrowthUndisturbed` (a block that every version holds is returned, while
the index grows under the walk), `BlockOfOneVersion` and `NotFoundIsTrue` (with growth and
replacement by rename, the answer is that of one version), `BoundedUnderChange` (under any change at all).
When the file is overwritten in place nothing is promised about the content, and nothing
could be without a lock.

Properties of `writer`: every location in the header is that of the block it belongs to, in
the file as laid down; every image has all of its blocks; the blocks file has a well-formed index by the definition
the readers are checked against; identifiers in the header name the intended extents;
`OnlyOutward` is the comment at `writer.rs:453`.

Properties of `header`: `BudgetsHold`, `OneTree`, `ReferencesAreUnambiguous`; `DataIsPromoted` (for any
number of `<Data>` children, what is not the element's own is the first child's that says it); and
`SingleDataDescribesBlock`: the text of a single `<Data>` child comes through the indentation before it, and is
decoded as that child says. An element that has text of its own beside the child keeps it, and
decodes it as the child says: the format allows no such element, and the code does not refuse it.

Properties of `codec`: `RoundTrip`, `DamageDetected`, `OutputBounded`; and `NoSilentCorruption`: with the
stored bytes intact, a misstated size or subblock table is refused or makes no difference. A misstated
item size is not noticed: it yields as many bytes, in another order. No checksum covers the attribute, and the
code promises none.

Properties of `session`:

* `ServedFromItsPlace`: bytes handed out come from where the location says, never from the header,
  never through a path that the switches forbid.
* `VerifyAgreesWithRead`: whatever the switches were at either call, a block found invalid is never
  returned by a read that checks, a read reports a mismatch only where `verify` does not say valid,
  and `verify` itself never fails with one.
* `ApisAgree`: the C call returns the block of the Rust call, or nothing.
* `HandlesStay`: every handle a thread has points into the one list, also if two asked for the
  first at once.
* `CleanExitMeansVerified`: `verify` exits with success exactly if every file named could be opened
  and the block of every image listed is what its checksum, if any, says; the count it prints is that
  of the checksums; `dump` succeeds only if it wrote a block, and fails as well when writing does.

Properties of `acceptance`:

* `ReadBackAsGiven`: what was accepted and can be read is what was given, up to the losses listed
  below; what cannot be read is counted and takes nothing else with it.
* `WrittenAgainAsRead`: whatever an edited header says, what was read from it and is taken by a
  writer again is read the second time as it was the first.

Properties of `solved_image`:

* `LowerLayersStand`: a fault of the distortion model, wherever in its terms, leaves the projection and the
  transformation as they were, unless the model is whole and there is no transformation; the layer called usable
  is the one that evaluates; a model is never used without the transformation it corrects; and a solution
  said to be complete uses the model of the file, or the file has no text of one.
* `TermsAreWhole`: each spline has one coefficient for each node and one for each monomial; where
  nothing was altered in its direction, a Local term has the nodes and coefficients packed for it.
* `FallbackCoversTheField`: with a Fallback term no point is left to the nearest Local term alone.

The MC modules also have TLC evaluate facts about the pure algorithms as assumptions:
`PlanarKeepsEverySample`, `MetadataIsOfEveryProperty`, `IntegersRead`,
`LeastOfTheWidestIsRefused`, `TypesAreNamed`, `SrgbLuminance`, `AttributesSurvive`, `ShapesAreSized`,
`FoundByName`, `MonomialsAreCounted`, `MonomialsAreOrdered`, `WeightRunsFromOneToZero`,
`LinearInverts`.

What the writer accepts but the reader refuses or changes, all of it spelled out in the
definitions (`Acceptance`, `Description`) and none of it in conflict with a promise made in the code:

* an image with a dimension of zero, no dimensions or no channels, with bounds that are empty or not finite, or with a
  negative or non-finite offset;
* a rotation that is not one of the format's, a resolution or gamma that is not positive, a
  colour filter array of no extent or of another length than its width and height say;
* a table with two fields of one id, or with a Boolean field of aggregate type: it is
  left out by the reader;
* a cell with both a value and a text: the text is lost, although `Cell::as_str` prefers it;
* a metadata string that is empty reads as absent; a caller's own
  `XISF:CreatorApplication` hides the writer's;
* a thumbnail's identity orientation is dropped;
* a blocks-file name `..`, or one that ends in a blank;
* the least 128-bit integer, in decimal, is refused by `Property::value`.

An unknown checksum algorithm or a malformed block attribute fails the whole header, where any
other malformed attribute costs its own element. Two comments differ on whether an item
size of 1 is spelled out (`block.rs:334`, `writer.rs:1137`); nothing that is read depends on it.

About solutions:

* Native coordinates with fewer than two doubles are an index out of range (`mod.rs:750`,
  `758-759`): the model has the outcome `Panic`, which the code calls a bug of the engine
  (`libxisf/src/panic.rs:7-8`: it "returns `Result` on every error path it knows about"). It is reached by
  the runs and excluded by no property of them.
* Element types of arrays are not checked; a missing `ShapeParameter` is taken as 0.
* A shortened node array or another `Order` moves coefficients from one Local term to the next
  without notice, because leftover coefficients are accepted.
* A distortion model with blocks but no scalars is ignored while the availability says that "Every layer
  present in the file is usable" (`mod.rs:403`). `LowerLayersStand` says so: complete without a model is only a
  solution whose file has no text of one.

## 5. Bounds

* **lookup.** About 650 files of up to 17 words with two places for nodes, each of which can be
  linked, looped, overlapped with an element, or run past the end; two identifiers;
  `MaxNodes = 3`, so that a list can be too long. `Half` (2^32 in the code) is 1000, large
  enough for every count that fits a file.
* **live_unit.** Twelve contents of one path, `MaxChanges = 2`: two changes are needed to
  replace a file and grow the replacement, or to replace it before and after the open.
* **writer.** `MaxImages = 2`, so up to six blocks; lengths on both sides of a power of ten;
  a fixed text of 73 bytes, so that the header crosses 100 bytes when positions grow and the
  iteration takes more than one round; `MaxHeader = 96`
  makes the header too long for some units; `CodecLimit = 1000` makes a block of 2000 bytes too
  long for a codec.
* **header.** `MaxDepth = 3`, `MaxElements = 6`, `MaxAttributes = 7`; every body of up to three
  pieces out of twelve, in and out of an image, and documents that end early, nest too deep,
  hold two top-level elements or break off.
* **codec.** Blocks of up to six pairwise different bytes, item sizes 0 to 3, so that six bytes
  are whole items, items and a remainder, or less than one item; `Ratio = 2`, `Floor = 2`, and
  `InputLimit = 5` so that each limit is met. One thing is changed after a block was stored: its
  bytes, the size, the subblocks or the item size its attribute states.
* **session.** Files of 60 bytes with a 16-byte preamble and a header of 24: room for a block that
  overlaps the header, one inside, one at the very end and one past it. One image for each kind
  of location, checksum, stream and geometry, beside one that is in order or one that does not
  parse, so that indexes shift. Two threads, each with one buffer at a time, of capacity 0, 3, 4 or 9
  bytes or none: under, at and above the size of an image. Command lines of up to three
  files, so that a bad one can stand before, between and after good ones.
* **acceptance.** `MaxImages = 2`, `MaxOthers = 1` (tables or properties), so that something can be
  lost beside something that must not be; `MaxEdited = 1`: one edit of the first image of
  units of one image. Images come with and without an ICC profile, of 127 or 128 bytes (one too few, and just enough), and a thumbnail that is
  stored as it is or compressed with a checksum. `MaxWord = 1000` and `ByteBits = 1` scale integers: a scalar of 16 bytes
  counts to 2^16. `One = 100` is the number 1 of decimal fractions. Five names of a blocks file.
* **solved_image.** Nine solutions, of one to three layers, with every kind of term and Y shared or
  not. Of solutions of up to ten properties two are altered, of larger ones one (`Alterations`): two
  faults are needed to break two layers. Five points at whole distances from the nodes;
  `WeightUnit = 32`: a threshold counts parts of that size of the weight 1. Weights are fractions and
  are added as such.

## 6. Fairness

Weak fairness is assumed of the call that is running and of nothing else: the library has no
suspension point in either walk, in the serialisation or in the parser, so a call that has begun
takes its next step. In `LiveUnit` the other processes are under no fairness: they may stop or
never act. `LookupsEnd`, `CallEnds` and `CallReturns` are the liveness properties. `HeaderParser`
and `Codec` consume a finite input in every step, so that no liveness property is stated of them.

`Session`, `Acceptance` and `SolvedImage` have no liveness property either: between two calls a
program may do anything, and no call in them waits for anything but the building of a list.

Deadlock is checked wherever the system must be able to go on: the final states have an explicit
stuttering action (`BothDone`, `Answered`, `Judged`, `Done`, `Stopped`); the writer has none, it can always be
called again. In `session` a Rust or C program may stop at any time, and the tool once it has an exit
code: that it cannot get stuck before that is what the deadlock check shows there. In
`acceptance` and `solved_image` it is off: a program stops when the second unit is written or the
point is evaluated.

## 7. What is proved

All for arbitrary constants. The assumptions are named where the constants are declared, TLC
evaluates them in the runs, and they say no more than what the constants stand for:

* word values, lengths, positions and bounds are naturals, the bounds that are limits of loops are positive
  (`FileAssumption`, `BoundAssumption`, `ChangesAssumption`, `WriterAssumption`,
  `LimitsAssumption`, `CodecAssumption`);
* a file, document, command line or pending block is of its type: the numbers of a header have 64 bits, an error
  has a kind of the code's (`ReaderAssumption`, `FilesAssumption`, `CFilesAssumption`,
  `CommandLinesAssumption`, `DocumentAssumption`);
* values that stand for absence or for a place of their own are not values of the type beside them
  (`NamesAssumption`, `NoneAssumption`, `ThreadsAssumption`);
* a file that was grown has every word of the index it had, except the links at its end (`GrowthAssumption`);
* a property is of its type and an encoder writes what it describes: its texts, its blocks with their shapes and
  the arrays of the Local terms packed in the order of the terms
  (`AlterationsAssumption`, `OriginalsAssumption`, `PackingAssumption`;
  `AbsenceAssumption` and `WeightAssumption` for what stands for absence and for the unit);
* images, tables and properties have the fields and types of the Rust structures, and an identifier has a
  spelling (`GivenAssumption`); another program leaves the right kind of text wherever a property depends on it:
  a word where a number belongs, any number of them, or none (`EditsAssumption`); the
  creator and the time are not empty, since an empty text reads as absent (`TextAssumption`); the unit of
  the fractions is a whole number (`ColourAssumption`); no word is a number and nothing that is there is
  absent (`AbsenceAssumption` of `Acceptance`). Its `BoundAssumption` is narrower than the code:
  at most 5 images of three blocks each, because an identifier in a blocks file is one digit there;
* a header that spells out later positions is not shorter (`HeaderIsMonotone`, an assumption of the
  one theorem that needs it: decimal numbers do not get shorter as they grow).

The theorems, and the invariant each one needs:

* `BlockLookupProofs`, first part: types and bounds of the local walk are preserved by each of its
  actions, for whatever composes it. `WalkBounded` alone says nothing of where the walk is;
  `LocalBounds` adds that the nodes entered are as many as the rounds, that a node being read
  has its elements inside `statLen`, and that the element index does not pass the node's count.
* `BlockLookupProofs`, both walks: `TypeCorrect`, `WalksAreBounded` and `NodesAreInside` by `WalkInv`, which
  joins `LocalBounds` with the same facts of the remote walk. The other three theorems need to know what
  has been read, not only how much: `Trail` is the list of nodes entered, each linked from the one before and each with the
  number of elements before it. The local walk has passed over exactly the
  elements before its place on the trail, none of which has the identifier and a block; the remote list is
  the trail laid flat. `RemoteReadsAsLocal` compares the two trails:
  both start at the first node and follow the same links, so one is a beginning of the other, and the first element
  the remote lookup finds is one that the local walk reaches.
  `LocalImplementsPromise` and `RemoteImplementsPromise` are the two refinements of `BlockPromise`, initial state
  and every step: a trail without repetition along which nothing was skipped is the chain
  that `BlockIndex` defines without walking it.
* `LiveUnitProofs`: `LiveTypeCorrect` and `BoundedWhateverChanges` reuse the lemmas on the local
  walk and add that a change of the file leaves the walk's own state alone: this is the reason
  why `file_len` must be taken once. `BlocksAreOfOneVersion` and `NotFoundIsTold` need `HandleInv` (the open file
  is a version of the unit) and `FollowsInv`: on a well-formed file the walk is on its chain, and some version
  from which the open file was grown has had none of its blocks passed over. `GrowthDisturbsNothing` fixes the
  first version: its block is in every later one, the walk does not get past its
  element, and as far as that element every offset checked against `statLen` lies in the version that was stated.
* `HeaderProofs`: `HeaderIsBounded` needs that what was counted is what is in the tree and on the stack
  (`BudgetInv`). `HeaderIsOneTree` and `ReferencesName` rest on `Shape`: the numbers of open elements rise along the
  stack, each of which is the parent of the next; a finished element hangs from another or from an open one with a smaller number.
  `BlocksAreDescribed` and `SingleDataDescribes` rest on `DataDescribes`: at any time an
  element's block is described by what itself and its finished `Data` children say, first come first
  served; so that the order in which children close is the order that counts, and text that is not a
  single child's is not blank.
* `CodecProofs`: `UnshuffleInvertsShuffle` for every sequence and item size, by the uniqueness of
  quotient and remainder. `ChecksumCatchesDamage` by `DigestInv`; `DecompressionIsBounded` by
  `ProgressInv`, how much has been decompressed at each phase. `WrittenIsReadBack` and
  `NothingElseIsReadBack` by `ContentInv`: some item size the block was stored with explains the streams, and
  what has been decompressed is a part of the shuffled bytes that only a stated
  length other than theirs can cut; a length other than theirs is refused. The second theorem is of one
  misstatement: size or subblocks, which leave nothing but the bytes written, or the item size, which leaves their number.
* `WriterProofs`: `RoundsOnlyGoOutward` and `AttachmentsArePlaced`: the length assumed is at most
  the length of the header it gives rise to, every stored block has its own owner, and the
  header in hand is the one for the length assumed. `NoBlockIsLost` adds that the owners stored are those of the images
  prepared. `WrittenIndexIsAccepted` and `IdentifiersName`: the elements written so far are at the sums of
  the lengths before them, with identifiers that do not repeat, and what a call returned is what its locals
  hold when it returns.
* `SessionProofs`, Rust: turning a switch on takes no block away and changes none, and no error is
  mistaken for a verdict. `VerdictsAgree` says of each verdict and of the last answer how
  they follow from what the reader with all switches on would find, whatever the switches were when
  they were given: no pair of positions has to be compared. `BytesAreOfTheirPlace` by `PlaceInv`: the reader is
  one that opening a file makes, with its switches in any position.
* `SessionProofs`, C: `HandlesAlwaysStay` and `HandlesBuiltOnce` need `LockHeld`: the thread that
  builds a list is the one the lock names, and the list is there exactly when the lock says built.
  `InterfacesAgree` rests on both APIs numbering the same images.
* `SessionProofs`, tool: `SessionIsTyped` for all three programs. `ExitsSayWhatWasVerified` by `ExitInv`: the tool
  has counted no failure exactly as long as every image it is done with was sound, and then each recorded
  checksum of those images once. Counting over the rest of a file and over the rest of the command
  line are lemmas on folds.
* `SolutionProofs`: `CutTermsAreWhole` and `CutTermsMeet`, of the cutting of packed arrays, for every
  packing: the cutter either refuses, or each term has its own slice and the next begins where it
  ends. `FieldCovered`, `LowerLayersHold` and `TermsHold`, of any properties, any number of which
  are altered, rest on `SolutionIsOfItsFile`: under every key that nobody altered, the file gathers
  what the encoder's gathered, whatever was removed, replaced or appended beside it, and no text appears under a key
  that had none. So the lower layers and an unaltered direction are read from the same values. From
  there on it is a matter of the reader: whatever the values, what it loads is `Loaded`: every term that is stated and no
  other, each whole. A nearest term is sought only where every weight is zero; with a fallback of positive
  threshold that would take a coverage of zero that is at least the threshold.

* `AcceptanceProofs`: `GivenIsReadBack` and `ReadIsWrittenAgain`, of all descriptions, tables and properties of the declared
  types. `AcceptanceInvariant` holds the pieces together (`IInv`): a header is the rendering of
  the unit until another program changes it; afterwards it is a header still, each element with texts of
  its kind; what was found is what the reader finds in it; and a unit that was copied is
  what was read. Below it there is a lemma for each pair of a rendering and a parse: for each optional part
  the parse of the rendered element gives the part back, or fails exactly where the property says
  that the part does not survive (`Keep`, `Describable`, `TableSurvives`). For the copy one needs more: everything
  the reader returns, from whatever text, is of the declared types and survives, and rendering and
  reading it gives what `Settled` says. The parts of one image, and the images of one header, are then
  put together in order: a filter keeps the same indices of two sequences if the tests agree. `IInv`
  is not among the invariants TLC evaluates, since it quantifies over all that a reader can return.

Facts about all lengths of a sequence, about a recursive function or about a fold are proved by the
least counterexample: `LeastNatural` gives the least natural with a property that some natural has (from `WFMin` of
`WellFoundedInduction`), and the step before it does not have it. The theorems on induction that take an
operator as a parameter are not needed. `Filter` in `Results` stands for `SelectSeq`, whose definition is out of the
provers' sight, so that lists of what could be parsed can be reasoned about: `Kept` takes the indices to keep.

Only model-checked: liveness (`LookupsEnd`, `CallEnds`, `CallReturns`), which
depends on fairness and on `ENABLED` and is out of the provers' reach; the four disagreements of section 4; and
the facts about pure algorithms listed there.

## 8. What is not modelled

* The syntax of XML, escaping, base64 and hex, the grammar of floating point literals: quick-xml
  and the standard library. The grammars of attributes are modelled on texts already split.
* Real arithmetic: colour conversions (`color.rs`), the spherical projections
  (`astrometry/projection.rs`), the values of the basis functions. Their
  branches are choices between formulas; what decides which formula is asked for (layers, terms, weights)
  is in `Evaluation`.
* The compressors and hash functions: a digest identifies its bytes. Zstandard has
  the same outline as zlib with its own ratio; the ratio is a constant here.
* The file system during a session: links do not change between the resolution of a path and its
  opening, and a mapped file is not cut short under the program, which ends the process with a signal.
* The panic guard of the C interface: it returns a fixed value, and no call modelled panics.
* The bytes of an ICC profile, and the flag set in a copy of them: only its length is looked at, and
  where its block is in the order of blocks. An attached block's position in `Description` is any
  (`Writer` has the positions); an identifier in a blocks file is the block's own.
* The clock behind a creation time that is not given, the wording of what the tool prints. A failure to
  write to the standard output is modelled where the tool looks for one, in `dump`; elsewhere it is a panic of
  the standard library's `println!`, and is left out.
* A table's structure that lies elsewhere is looked up as `HeaderParser` does for every associated element;
  in `Acceptance` it stands in the table. A determinant below 1e-12 counts as zero in the code and is
  zero in `DeriveLuminance`, whose numbers are whole.
* `usize` smaller than 64 bits, and counts of blocks above 2^32. Fuzz targets, the corpus
  generator, scripts and benchmarks.

## 9. Running

From this directory, `tlc -workers 2 -config <cfg> <module>` for the pairs listed under `runs`, and
`tlapm <module>` for the proof modules. The runs take from seconds to about forty
seconds each, the proofs from seconds to about ten minutes.
