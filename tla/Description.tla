------------------------------ MODULE Description ------------------------------
(***************************************************************************)
(* What writer.rs accepts of a description, and the elements it renders it *)
(* to. An element is the record of its attributes and what it holds, its   *)
(* texts as Attributes, ImageAttributes and Values have them.              *)
(***************************************************************************)
EXTENDS ImageAttributes, Values

CONSTANTS
  FirstBlock,\* where the first attached block is
  Empty,     \* the empty string
  Spelling   \* of identifiers and keyword names: segments of characters, each standing
             \*   for its class: "A" upper case, "a" lower case, "0" digit, "_", "-", "?"

(***************************************************************************)
(* Identifiers.                                                            *)
(***************************************************************************)
Segment(s) ==
  /\ s /= <<>>
  /\ s[1] \in {"A", "a", "_"}
  /\ \A i \in DOMAIN s : s[i] \in {"A", "a", "0", "_"}

CheckPropertyId(id) ==
  Check(\A i \in DOMAIN Spelling[id] : Segment(Spelling[id][i]), "InvalidArgument")

CheckImageId(id) ==
  Check(Len(Spelling[id]) = 1 /\ Segment(Spelling[id][1]), "InvalidArgument")

CheckFitsName(name) ==
  Check(/\ Len(Spelling[name]) = 1
        /\ Len(Spelling[name][1]) <= 8
        /\ \A i \in DOMAIN Spelling[name][1] : Spelling[name][1][i] \in {"A", "0", "_", "-"},
        "InvalidArgument")

\* Groups between hyphens, of hexadecimal digits 0 .. 15 or others.
CheckUuid(groups) ==
  Check(/\ [i \in DOMAIN groups |-> Len(groups[i])] = <<8, 4, 4, 4, 12>>
        /\ \A i \in DOMAIN groups : \A j \in DOMAIN groups[i] : groups[i][j] \in 0 .. 15
        /\ groups[3][1] = 4,
        "InvalidArgument")

(***************************************************************************)
(* Tables.                                                                 *)
(***************************************************************************)
CheckTable(table) ==
  LET ids == [i \in DOMAIN table.fields |-> CheckPropertyId(table.fields[i].id)]
      rows == [n \in DOMAIN table.rows |->
                 IF Len(table.rows[n]) /= Len(table.fields) THEN Bad("InvalidArgument")
                 ELSE Check(\A k \in DOMAIN table.rows[n] : table.rows[n][k].location = None,
                            "Unsupported")]
  IN  Try(<<CheckPropertyId(table.id), Check(table.fields /= <<>>, "InvalidArgument")>>
            \o ids \o rows, table)

\* A cell with a value loses its text.
CellElement(cell) == IF cell.value /= None THEN [cell EXCEPT !.text = None] ELSE cell

TableElement(table) ==
  [id |-> table.id, caption |-> table.caption, comment |-> table.comment,
   rows |-> Len(table.rows), columns |-> Len(table.fields),
   structure |-> [i \in DOMAIN table.fields |->
                    [id |-> table.fields[i].id, type |-> TypeName(table.fields[i].kind),
                     format |-> table.fields[i].format, header |-> table.fields[i].header]],
   body |-> [n \in DOMAIN table.rows |->
               [k \in DOMAIN table.rows[n] |-> CellElement(table.rows[n][k])]]]

(***************************************************************************)
(* add_image. A pending image says how many bytes it was given.            *)
(***************************************************************************)
CheckBytes(p) ==
  Check(DataSize(p.image) /= None /\ p.bytes = DataSize(p.image), "InvalidArgument")

CheckThumbnail(t) ==
  Try(<<CheckBytes(t),
        Check(Len(t.image.dimensions) = 2, "InvalidArgument"),
        Check(t.image.format \in {"UInt8", "UInt16"}, "InvalidArgument"),
        Check(t.image.bounds = None, "InvalidArgument"),
        Check(t.image.space \in {"Gray", "RGB"}, "InvalidArgument")>>, t)

CheckImage(images, p) ==
  LET taken == {images[i].image.id : i \in DOMAIN images}
  IN  Try(<<Check(p.image.id = None \/ p.image.id \notin taken, "InvalidArgument"),
            Check(RequiresBounds(p.image.format) => p.image.bounds /= None, "InvalidArgument"),
            Optional(p.image.id, CheckImageId),
            Optional(p.image.uuid, CheckUuid),
            CheckBytes(p),
            Optional(p.thumbnail, CheckThumbnail)>>
            \o [i \in DOMAIN p.keywords |-> CheckFitsName(p.keywords[i])]
            \o [i \in DOMAIN p.tables |-> CheckTable(p.tables[i])], p)

(***************************************************************************)
(* The blocks. An image stores its pixels, its ICC profile, of which only  *)
(* the length is looked at, and its thumbnail's pixels. `shrinks` says     *)
(* whether compression, if it was asked for, made a block smaller.         *)
(***************************************************************************)
ProfileHeader == 128

CheckProfile(length) == Check(length >= ProfileHeader, "InvalidArgument")

Unasked == [compression |-> None, checksum |-> None]

Profile(p) == [bytes |-> p.profile, options |-> Unasked]

BlocksOf(p) == <<p, IF p.profile = None THEN None ELSE Profile(p), p.thumbnail>>

\* In the order they are stored, None for one an image has not.
Blocks(images) ==
  [m \in 1 .. 3 * Len(images) |-> BlocksOf(images[(m + 2) \div 3])[((m - 1) % 3) + 1]]

\* The identifiers of image i's: each block's is its place among all that are stored.
BlockIds(images, i) ==
  [k \in 1 .. 3 |-> Cardinality({m \in 1 .. 3 * (i - 1) + k : Blocks(images)[m] /= None})]

StoredCompression(b) ==
  LET request == b.options.compression
      item == IF request.item /= None THEN IF request.item > 1 THEN request.item ELSE None ELSE None
  IN  IF request = None THEN None
      ELSE IF ~request.shrinks THEN None
      ELSE [codec |-> request.codec, uncompressed |-> b.bytes, item |-> item]

StoredChecksum(b) ==
  IF b.options.checksum = None THEN None
  ELSE [algorithm |-> b.options.checksum,
        digest |-> [i \in 1 .. DigestLen(b.options.checksum) |-> (i * 37) % 256]]

BlockAttrs(b) ==
  LET compression == StoredCompression(b)
      checksum == StoredChecksum(b)
  IN  [compression |-> IF compression = None THEN None ELSE CompressionAttr(compression),
       checksum |-> IF checksum = None THEN None ELSE ChecksumAttr(checksum),
       subblocks |-> None]

ImageElement(image) ==
  [geometry |-> Append(image.dimensions, image.channels), sampleFormat |-> image.format,
   colorSpace |-> image.space, pixelStorage |-> image.storage,
   bounds |-> IF image.bounds = None THEN None ELSE <<image.bounds.low, image.bounds.high>>,
   id |-> image.id, uuid |-> image.uuid,
   imageType |-> IF image.type = None THEN None ELSE image.type.name,
   offset |-> image.offset,
   orientation |-> IF image.orientation = None THEN None ELSE ToAttribute(image.orientation)]

\* Mutant of ThumbnailElement: the pixel storage is left to its default.
ThumbnailElementPlanar(image) ==
  [ImageElement(image) EXCEPT !.bounds = None, !.pixelStorage = None]

\* No bounds, and no orientation that changes nothing. Its block is a BlockElement beside it.
ThumbnailElement(image) ==
  LET idle == IF image.orientation = None THEN TRUE ELSE IsIdentity(image.orientation)
      e == [ImageElement(image) EXCEPT !.bounds = None]
  IN  IF idle THEN [e EXCEPT !.orientation = None] ELSE e

\* The luminance a caller gives is not written: it follows from the primaries.
WorkingSpaceElement(space) ==
  LET derived == DeriveLuminance(space.x, space.y)
  IN  IF derived = None THEN Bad("InvalidArgument")
      ELSE Good([space EXCEPT !.Y = [k \in 1 .. 3 |-> derived[k].num \div derived[k].den]])

OneOrNone(x) == IF x = None THEN <<>> ELSE <<x>>

\* Where block k of a unit is: behind the header, or in the blocks file of the given name,
\* which saves it under `saved` and is read with the blanks around it gone.
LocationText(name, k) ==
  IF name = None
  THEN [scheme |-> "attachment", rest |-> <<FirstBlock + k, 1>>]
  ELSE [scheme |-> "path", closed |-> TRUE,
        locator |-> [token |-> TRUE, name |-> name.trimmed, climbs |-> name.dots],
        tail |-> [colon |-> TRUE, id |-> [radix |-> 16, digits |-> <<k>>]]]

BlockElement(b, name, k) == [block |-> BlockAttrs(b), location |-> LocationText(name, k)]

RenderImage(p, name, ids) ==
  LET space == Optional(p.space, WorkingSpaceElement)
  IN  Try(<<space>>,
          [element |-> ImageElement(p.image), block |-> BlockAttrs(p),
           location |-> LocationText(name, ids[1]),
           keywords |-> p.keywords, resolutions |-> OneOrNone(p.resolution),
           spaces |-> OneOrNone(space.value), functions |-> OneOrNone(p.function),
           filters |-> OneOrNone(p.filter),
           profiles |-> IF p.profile = None THEN <<>> ELSE <<BlockElement(Profile(p), name, ids[2])>>,
           thumbnails |-> IF p.thumbnail = None THEN <<>> ELSE <<ThumbnailElement(p.thumbnail.image)>>,
           previews |-> IF p.thumbnail = None THEN <<>> ELSE <<BlockElement(p.thumbnail, name, ids[3])>>,
           tables |-> [i \in DOMAIN p.tables |-> TableElement(p.tables[i])]])

\* A String's value is character data, and no characters are no data; any other's is the
\* value attribute.
PropertyElement(id, type, value) ==
  [id |-> id, type |-> [prefix |-> type, suffix |-> ""],
   value |-> IF type = "String" THEN None ELSE value,
   text |-> IF type = "String" /\ value /= Empty THEN value ELSE None,
   length |-> None, rows |-> None, columns |-> None]

\* What the blocks were written with, each once, in the order met.
Mentioned(texts) ==
  FoldLeft(LAMBDA seen, t : IF t = None \/ Contains(seen, t) THEN seen ELSE Append(seen, t),
           <<>>, texts)

MetadataElements(unit) ==
  LET stored == Filter(Blocks(unit.images), LAMBDA b : b /= None)
      blocks == [m \in DOMAIN stored |-> BlockAttrs(stored[m])]
      algorithms == Mentioned([i \in DOMAIN blocks |->
                      IF blocks[i].checksum = None THEN None ELSE blocks[i].checksum.name])
      codecs == Mentioned([i \in DOMAIN blocks |->
                  IF blocks[i].compression = None THEN None ELSE blocks[i].compression.codec])
      Listed(id, names) == IF names = <<>> THEN <<>> ELSE <<PropertyElement(id, "String", names)>>
  IN  <<PropertyElement("XISF:CreationTime", "TimePoint", unit.time)>>
        \o Listed("XISF:ChecksumAlgorithms", algorithms)
        \o Listed("XISF:CompressionCodecs", codecs)
        \o [i \in DOMAIN unit.metadata |->
              PropertyElement(unit.metadata[i].id, unit.metadata[i].type, unit.metadata[i].value)]
        \o <<PropertyElement("XISF:CreatorApplication", "String", unit.creator)>>

\* to_distributed takes any name that is not empty and has no slash.
CheckBlocksName(name) == Check(name.saved /= Empty /\ ~name.slash, "InvalidArgument")

\* The header of a unit, or the error of the name, of the first profile that is none, or of
\* the first image that cannot be described.
Render(unit, name) ==
  LET profiles == Collect([i \in DOMAIN unit.images |-> Optional(unit.images[i].profile, CheckProfile)])
      images == Collect([i \in DOMAIN unit.images |->
                           RenderImage(unit.images[i], name, BlockIds(unit.images, i))])
  IN  Try(<<Optional(name, CheckBlocksName), profiles, images>>,
          [images |-> images.value,
           tables |-> [i \in DOMAIN unit.tables |-> TableElement(unit.tables[i])],
           properties |-> MetadataElements(unit)])
=============================================================================
