------------------------------ MODULE Acceptance ------------------------------
(***************************************************************************)
(* A writer is told of images, tables and properties, its header is        *)
(* rendered in one of the two forms, perhaps changed by another program,   *)
(* and read; and what was read is handed to a new writer. The blocks       *)
(* themselves are the other modules' business.                             *)
(***************************************************************************)
EXTENDS Description

CONSTANTS
  Pendings,     \* the images a caller may add
  GivenTables,  \* the tables
  GivenProperties,  \* and properties, each [id, type, value]; "String" ones through add_metadata
  Names,        \* names for a blocks file
  Edits,        \* what another program writes: texts, by part and attribute
  Creator, Time,    \* with_creator, with_creation_time
  MaxImages, MaxOthers,  \* bounds: images, and tables or properties, of one writer
  MaxEdited              \* bound: images of a unit that another program changes

(***************************************************************************)
(* The types of what a caller may give, and of the texts another program   *)
(* may leave. A length is one of 64 bits, an identifier one with a         *)
(* spelling.                                                               *)
(***************************************************************************)
Opt(S) == S \cup {None}

Identifiers == DOMAIN Spelling

Lengths == 0 .. MaxWord

Image ==
  [dimensions : Seq(Lengths), channels : Lengths, format : Formats, space : ColorSpaces,
   storage : Storages, bounds : Opt([low : Number, high : Number]), id : Opt(Identifiers),
   uuid : Opt(Seq(Seq(Int))), type : Opt([standard : BOOLEAN, name : STRING]),
   offset : Opt(Number), orientation : Opt([rotation : Int, flip : BOOLEAN])]

Resolution == [horizontal : Number, vertical : Number, unit : {"inch", "cm"}]

Triples == [1 .. 3 -> Number]

WorkingSpace ==
  [gamma : [srgb : BOOLEAN, exponent : Opt(Number)], x : Triples, y : Triples, Y : Triples,
   name : Opt(STRING)]

Quads == [1 .. 4 -> Number]

DisplayFunction == [m : Quads, s : Quads, h : Quads, l : Quads, r : Quads, name : Opt(STRING)]

FilterArray ==
  {f \in [pattern : Seq(CfaElements), width : Lengths, height : Lengths, name : Opt(STRING)] :
     Len(f.pattern) \in Lengths}

Kinds ==
  [shape : {"String", "TimePoint", "Table", "Scalar", "Vector", "Matrix"}, element : Opt(Scalars)]

Columns == [id : Identifiers, kind : Kinds, format : Opt(STRING), header : Opt(STRING)]

Cells == [value : Opt(STRING), text : Opt(STRING), location : Opt(STRING)]

Tables ==
  {t \in [id : Identifiers, fields : Seq(Columns), caption : Opt(STRING), comment : Opt(STRING),
          rows : Seq(Seq(Cells))] :
     Len(t.fields) \in Lengths /\ Len(t.rows) \in Lengths}

Codecs == {"zlib", "lz4", "zstd"}

Compressions == [codec : Codecs, item : Opt(Lengths), shrinks : BOOLEAN]

Algorithms == {"sha-1", "sha-256", "sha-512", "sha3-256", "sha3-512"}

\* A block to be stored.
IsBlock(b) ==
  /\ b.options.compression \in Opt(Compressions)
  /\ b.options.compression /= None => b.bytes \in Lengths
  /\ b.options.checksum \in Opt(Algorithms)

\* An image given to a writer.
IsPending(p) ==
  /\ p.image \in Image
  /\ IsBlock(p)
  /\ p.profile \in Opt(Lengths)
  /\ p.resolution \in Opt(Resolution)
  /\ p.space \in Opt(WorkingSpace)
  /\ p.function \in Opt(DisplayFunction)
  /\ p.filter \in Opt(FilterArray)
  /\ p.thumbnail /= None => p.thumbnail.image \in Image /\ IsBlock(p.thumbnail)
  /\ p.keywords \in Seq(Identifiers)
  /\ p.tables \in Seq(Tables)

TypeTexts ==
  {TypeName(kind) : kind \in Kinds} \cup [prefix : STRING, suffix : {"", "Vector", "Matrix"}]

\* What the attributes of an element may hold where the properties depend on it.
ImageTexts ==
  [geometry |-> Opt(Seq(Int \cup {Word})), bounds |-> Opt(Seq(Number \cup {Word})),
   id |-> Opt(Identifiers), uuid |-> Opt(Seq(Seq(Int))), imageType |-> Opt(STRING),
   orientation |-> Opt([rotation : Opt(Int), flip : BOOLEAN])]

StructureTexts ==
  [id : Opt(Identifiers), type : Opt(TypeTexts), format : Opt(STRING), header : Opt(STRING)]

NumberTexts == Opt(Seq(Number \cup {Word}))

Texts ==
  [element |-> ImageTexts, thumbnails |-> ImageTexts,
   resolutions |-> [horizontal |-> Opt(Number \cup {Word}), vertical |-> Opt(Number \cup {Word})],
   spaces |-> [gamma |-> Opt([srgb : BOOLEAN, exponent : Opt(Number)]),
               x |-> NumberTexts, y |-> NumberTexts, Y |-> NumberTexts, name |-> Opt(STRING)],
   functions |-> [m |-> NumberTexts, s |-> NumberTexts, h |-> NumberTexts, l |-> NumberTexts,
                  r |-> NumberTexts, name |-> Opt(STRING)],
   filters |-> [pattern |-> Opt(Seq(CfaElements \cup {Word})), name |-> Opt(STRING)],
   tables |-> [id |-> Opt(Identifiers), caption |-> Opt(STRING), comment |-> Opt(STRING),
               structure |-> Opt({s \in Seq(StructureTexts) : Len(s) \in Lengths}),
               body |-> {b \in Seq(Seq(Cells)) : Len(b) \in Lengths}],
   image |-> [keywords |-> Seq(Identifiers)],
   block |-> <<>>]

ASSUME GivenAssumption ==
  /\ \A p \in Pendings : IsPending(p)
  /\ GivenTables \subseteq Tables
  /\ \A p \in GivenProperties : p.value /= None

\* Of an image itself, only where its block is and its keywords.
ASSUME EditsAssumption ==
  /\ \A part \in DOMAIN Edits : \A field \in DOMAIN Edits[part] :
       /\ part \in DOMAIN Texts
       /\ field \in DOMAIN Texts[part] => Edits[part][field] \subseteq Texts[part][field]
       /\ part = "image" => field \in {"location", "keywords"}

\* An identifier of a block in a blocks file has one digit here.
ASSUME BoundAssumption ==
  /\ MaxImages \in 0 .. 5
  /\ FirstBlock \in Nat /\ MaxWord \in Nat /\ FirstBlock + 16 <= MaxWord /\ ProfileHeader <= MaxWord

ASSUME ColourAssumption == One \in Int /\ White \in [1 .. 3 -> Int]

ASSUME TextAssumption == Time /= None /\ Creator \notin {None, Empty}

\* No word is a number, and nothing that is there is absent.
ASSUME AbsenceAssumption ==
  /\ Word \notin Number /\ NaN \notin Int /\ Inf \notin Int
  /\ None \notin Number \cup STRING \cup Identifiers
  /\ None \notin Formats \cup ColorSpaces \cup Storages \cup Scalars \cup {"inch", "cm"}
  /\ None \notin Seq(Number \cup {Word}) \cup Seq(CfaElements \cup {Word}) \cup Seq(Int \cup {Word})
  /\ None \notin Seq(StructureTexts) \cup WorkingSpace
  /\ None \notin [low : Number, high : Number] \cup [rotation : Opt(Int), flip : BOOLEAN]
  /\ None \notin [srgb : BOOLEAN, exponent : Opt(Number)] \cup Image \cup TypeTexts
  /\ None \notin [image : Image, bytes : Opt(Lengths), options : {Unasked}] \cup Compressions \cup Algorithms
  /\ None \notin [codec : Codecs, uncompressed : Lengths, item : Opt(Lengths)]
  /\ None \notin [codec : Codecs, shuffled : BOOLEAN, fields : Seq(Lengths)]
  /\ None \notin [algorithm : Algorithms, digest : Seq(Int)] \cup [name : Algorithms, digits : Seq(Int)]
  /\ None \notin [colon : BOOLEAN, id : [radix : {10, 16}, digits : Seq(Int)]]
  /\ \A n \in Names : [token |-> TRUE, name |-> n.trimmed, climbs |-> n.dots] /= None /\ n /= None

VARIABLES
  unit,      \* the writer: images, metadata, tables
  name,      \* the blocks file the header was rendered for, None for attached blocks
  header,    \* what rendering returned, None before
  edited,    \* whether another program has changed it
  found,     \* what a reader finds in it, None before
  source     \* what the images of the writer were read from, None if from a caller

vars == <<unit, name, header, edited, found, source>>

(***************************************************************************)
(* Reading: element_from for the block attributes of every element, which  *)
(* fails the whole header, then the Rust interface, which skips.           *)
(***************************************************************************)
ParseBlock(b) ==
  LET compression == Optional(b.compression, ParseCompression)
      checksum == Optional(b.checksum, ParseChecksum)
      subblocks == Optional(b.subblocks, ParseSubblocks)
  IN  Try(<<compression, subblocks, checksum,
            Check(b.subblocks = None \/ b.compression /= None, "BadHeader")>>,
          [compression |-> compression.value, checksum |-> checksum.value])

\* filter_map over the results of parsing the associated elements, and find_map.
Parsed(results) ==
  LET good == Filter(results, LAMBDA r : r.ok)
  IN  [i \in DOMAIN good |-> good[i].value]

FirstGood(results) == IF Parsed(results) = <<>> THEN None ELSE Head(Parsed(results))

\* The first thumbnail, if it parses: an Image under another name.
ParseThumbnail(thumbnails) ==
  IF thumbnails = <<>> \/ ~ParseImage(Head(thumbnails)).ok THEN None
  ELSE ParseImage(Head(thumbnails)).value

\* The attributes of the data of any element.
ParseData(e) == Try(<<ParseBlock(e.block), ParseLocation(e.location)>>, None)

DataOf(es) == [i \in DOMAIN es |-> ParseBlock(es[i].block).value]

ImageOf(e) ==
  [image |-> ParseImage(e.element).value, block |-> ParseBlock(e.block).value,
   location |-> ParseLocation(e.location).value, keywords |-> e.keywords,
   resolution |-> FirstGood(Each(e.resolutions, ParseResolution)),
   space |-> FirstGood(Each(e.spaces, ParseWorkingSpace)),
   function |-> FirstGood(Each(e.functions, ParseDisplayFunction)),
   filter |-> FirstGood(Each(e.filters, ParseFilterArray)),
   profiles |-> DataOf(e.profiles), thumbnail |-> ParseThumbnail(e.thumbnails),
   previews |-> IF ParseThumbnail(e.thumbnails) = None THEN <<>> ELSE DataOf(e.previews),
   tables |-> Parsed(Each(e.tables, ParseTable))]

TextOf(e) == IF e.value /= None THEN e.value ELSE e.text

Find(h) ==
  LET blocks == [i \in DOMAIN h.images |->
                   Try(<<ParseData(h.images[i]), Collect(Each(h.images[i].profiles, ParseData)),
                         Collect(Each(h.images[i].previews, ParseData))>>, None)]
      shown == Filter(h.images, LAMBDA e : ParseImage(e.element).ok)
      told == Filter(h.properties, LAMBDA e : TextOf(e) /= None)
  IN  Try(blocks,
          [images |-> [i \in DOMAIN shown |-> ImageOf(shown[i])],
           unavailable |-> Len(h.images) - Len(shown),
           tables |-> Parsed(Each(h.tables, ParseTable)),
           properties |-> Parsed(Each(h.properties, ParseProperty)),
           metadata |-> [i \in DOMAIN told |-> <<told[i].id, TextOf(told[i])>>]])

(***************************************************************************)
(* The calls. A refused one leaves the writer as it is.                    *)
(***************************************************************************)
NewUnit == [images |-> <<>>, metadata |-> <<>>, tables |-> <<>>, time |-> Time, creator |-> Creator]

Init ==
  /\ unit = NewUnit
  /\ name = None
  /\ header = None
  /\ edited = FALSE
  /\ found = None
  /\ source = None

Telling == header = None /\ source = None

AddImage ==
  /\ Telling /\ Len(unit.images) < MaxImages
  /\ \E p \in Pendings :
       /\ CheckImage(unit.images, p).ok
       /\ unit' = [unit EXCEPT !.images = Append(@, p)]
  /\ UNCHANGED <<name, header, edited, found, source>>

Others == Len(unit.tables) + Len(unit.metadata)

AddTable ==
  /\ Telling /\ Others < MaxOthers
  /\ \E t \in GivenTables :
       /\ CheckTable(t).ok
       /\ unit' = [unit EXCEPT !.tables = Append(@, t)]
  /\ UNCHANGED <<name, header, edited, found, source>>

\* add_metadata and add_scalar_property.
AddProperty ==
  /\ Telling /\ Others < MaxOthers
  /\ \E p \in GivenProperties :
       /\ CheckPropertyId(p.id).ok
       /\ unit' = [unit EXCEPT !.metadata = Append(@, p)]
  /\ UNCHANGED <<name, header, edited, found, source>>

\* to_bytes, to_distributed.
Serialise ==
  /\ header = None
  /\ \E n \in Names \cup {None} : name' = n /\ header' = Render(unit, n)
  /\ UNCHANGED <<unit, edited, found, source>>

\* Another program changes an attribute of the first image or of what belongs to it.
Edit ==
  /\ header /= None /\ header.ok /\ ~edited /\ found = None /\ source = None
  /\ Len(header.value.images) \in 1 .. MaxEdited
  /\ \E part \in DOMAIN Edits : \E field \in DOMAIN Edits[part] : \E text \in Edits[part][field] :
       LET e == header.value.images[1]
           Changed(x) == [x EXCEPT ![field] = text]
           new == IF part = "image" THEN Changed(e)
                  ELSE IF part \in {"element", "block"} THEN [e EXCEPT ![part] = Changed(@)]
                  ELSE IF e[part] = <<>> THEN e ELSE [e EXCEPT ![part][1] = Changed(@)]
       IN  header' = [header EXCEPT !.value.images[1] = new]
  /\ edited' = TRUE
  /\ UNCHANGED <<unit, name, found, source>>

Open ==
  /\ header /= None /\ header.ok /\ found = None
  /\ found' = Find(header.value)
  /\ UNCHANGED <<unit, name, header, edited, source>>

\* What was read of an image, given to a writer: a profile of no fewer bytes than it was
\* accepted with.
Given(im) ==
  [image |-> im.image, bytes |-> DataSize(im.image), options |-> Unasked,
   profile |-> IF im.profiles = <<>> THEN None ELSE ProfileHeader,
   resolution |-> im.resolution, space |-> im.space, function |-> im.function,
   filter |-> im.filter, keywords |-> im.keywords, tables |-> im.tables,
   thumbnail |-> IF im.thumbnail = None THEN None
                 ELSE [image |-> im.thumbnail, bytes |-> DataSize(im.thumbnail), options |-> Unasked]]

Copy ==
  /\ found /= None /\ found.ok /\ source = None
  /\ LET given == [i \in DOMAIN found.value.images |-> Given(found.value.images[i])]
     IN  /\ \A i \in DOMAIN given : CheckImage(SubSeq(given, 1, i - 1), given[i]).ok
         /\ unit' = [NewUnit EXCEPT !.images = given]
  /\ source' = found.value
  /\ name' = None /\ header' = None /\ edited' = FALSE /\ found' = None

Next ==
  \/ AddImage \/ AddTable \/ AddProperty
  \/ Serialise \/ Edit \/ Open \/ Copy

Spec == Init /\ [][Next]_vars

-----------------------------------------------------------------------------
(* What of a description survives, stated without the code that parses it. *)

Describable(i) ==
  /\ i.dimensions /= <<>> /\ i.channels > 0
  /\ \A k \in DOMAIN i.dimensions : i.dimensions[k] > 0
  /\ i.bounds /= None => Finite(i.bounds.low) /\ Finite(i.bounds.high) /\ i.bounds.low < i.bounds.high
  /\ i.offset /= None => Finite(i.offset) /\ i.offset >= 0
  /\ i.orientation /= None => i.orientation.rotation \in {0, 90, 180, -90}

Keep(x, Survives(_)) == IF x = None THEN None ELSE IF Survives(x) THEN x ELSE None

\* A name of a standard image type is that type.
AsTyped(i) == IF i.type = None THEN i ELSE [i EXCEPT !.type.standard = (i.type.name \in ImageTypes)]

Preview(image) ==
  IF image = None THEN None
  ELSE IF ~Describable(image) THEN None
  ELSE LET i == AsTyped(image)
       IN  IF i.orientation = [rotation |-> 0, flip |-> FALSE] THEN [i EXCEPT !.orientation = None]
           ELSE i

\* The type that the name of a field's type names.
Nameable(kind) ==
  IF kind.shape \in {"String", "TimePoint", "Table"} THEN TRUE
  ELSE IF kind.shape = "Scalar" THEN kind.element /= None ELSE kind.element /= "Boolean"

AsNamed(kind) ==
  IF kind.shape \in {"String", "TimePoint", "Table"} THEN [kind EXCEPT !.element = None]
  ELSE IF kind.element = None THEN [kind EXCEPT !.element = "Float64"] ELSE kind

Distinct(fields) == \A i, j \in DOMAIN fields : fields[i].id = fields[j].id => i = j

TableSurvives(t) == Distinct(t.fields) /\ \A i \in DOMAIN t.fields : Nameable(t.fields[i].kind)

Named(f) == [f EXCEPT !.kind = AsNamed(@)]

TableFound(t) ==
  [t EXCEPT !.fields = [i \in DOMAIN @ |-> Named(@[i])],
            !.rows = [r \in DOMAIN @ |-> [k \in DOMAIN @[r] |-> CellElement(@[r][k])]]]

TablesFound(tables) ==
  LET kept == Filter(tables, TableSurvives)
  IN  [n \in DOMAIN kept |-> TableFound(kept[n])]

BlockFound(b) == [compression |-> StoredCompression(b), checksum |-> StoredChecksum(b)]

PreviewFound(t) == IF t = None THEN None ELSE Preview(t.image)

ImageFound(p) ==
  [image |-> AsTyped(p.image), block |-> BlockFound(p), keywords |-> p.keywords,
   resolution |-> Keep(p.resolution, LAMBDA r : Positive(r.horizontal) /\ Positive(r.vertical)),
   space |-> Keep(p.space, LAMBDA s : s.gamma.srgb \/ Positive(s.gamma.exponent)),
   function |-> Keep(p.function, LAMBDA f : \A k \in 1 .. 4 : \A v \in {f.m, f.s, f.h, f.l, f.r} : Finite(v[k])),
   filter |-> Keep(p.filter, LAMBDA f : f.width * f.height = Len(f.pattern) /\ f.pattern /= <<>>),
   profiles |-> IF p.profile = None THEN <<>> ELSE <<Unasked>>,
   thumbnail |-> PreviewFound(p.thumbnail),
   previews |-> IF PreviewFound(p.thumbnail) = None THEN <<>> ELSE <<BlockFound(p.thumbnail)>>,
   tables |-> TablesFound(p.tables)]

\* The luminance is the one that follows from the primaries.
AsDerived(s) == IF s = None THEN None ELSE WorkingSpaceElement(s).value

Shown(im) == [k \in DOMAIN im \ {"location"} |-> im[k]]

\* An image that was accepted and can be described is found as it was given, in its place
\* among those that can, with whatever was given along with it that can be described too;
\* one that cannot is counted, and takes nothing of the others with it. The blocks of a
\* distributed unit are found in the file they were saved to unless its name climbs or has
\* blanks around it. Properties are found in order behind the two that the writer states, an
\* empty string excepted; one named as a statement at the end hides that (writer.rs:285-434,
\* 602-847, image.rs:339-393, table.rs:145-216).
ReadBackAsGiven ==
  (found /= None /\ ~edited) =>
    LET given == Filter(unit.images, LAMBDA p : Describable(p.image))
        images == found.value.images
        user == Filter(unit.metadata, LAMBDA p : p.type /= "String" \/ p.value /= Empty)
        told == found.value.metadata
    IN  /\ found.ok
        /\ Len(images) = Len(given)
        /\ found.value.unavailable = Len(unit.images) - Len(given)
        /\ \A i \in DOMAIN given :
             LET expected == ImageFound(given[i])
             IN  /\ Shown(images[i]) = [expected EXCEPT !.space = AsDerived(@)]
                 /\ (name /= None) =>
                      LET l == images[i].location.locator
                      IN  (l.name = name.saved /\ ~l.climbs) <=>
                            (name.trimmed = name.saved /\ ~name.dots)
        /\ found.value.tables = TablesFound(unit.tables)
        /\ told[1] = <<"XISF:CreationTime", Time>>
        /\ told[Len(told)] = <<"XISF:CreatorApplication", Creator>>
        /\ SubSeq(told, Len(told) - Len(user), Len(told) - 1) =
             [k \in DOMAIN user |-> <<user[k].id, user[k].value>>]

\* What reading an image leaves when it is written and read again.
Settled(im) ==
  [Shown(im) EXCEPT
     !.block = Unasked,
     !.profiles = [i \in DOMAIN @ |-> Unasked],
     !.previews = [i \in DOMAIN @ |-> Unasked],
     !.space = AsDerived(@),
     !.thumbnail = Preview(@),
     !.tables = TablesFound(@)]

\* Whatever a header says, an image that was read from it and that a writer takes is read
\* from what that writer wrote as it was the first time: reading leaves nothing to be lost
\* by writing, but the luminance, which is derived anew, the text of a cell that has a value
\* too, and the orientation of a thumbnail that turns nothing.
WrittenAgainAsRead ==
  (source /= None /\ found /= None) =>
    /\ found.ok
    /\ Len(found.value.images) = Len(source.images)
    /\ \A i \in DOMAIN source.images :
         Shown(found.value.images[i]) = Settled(source.images[i])
=============================================================================
