-------------------------------- MODULE RustApi --------------------------------
(***************************************************************************)
(* xisf::XisfFile: what a program asks of an open file, and the switches   *)
(* of the reader under it, called in any order.                            *)
(*                                                                         *)
(* A header is the sequence of its images, its properties and its tables,  *)
(* in document order. An image element carries what Image::parse makes of  *)
(* it (None if it refuses), its data, and the elements associated with it: *)
(* its own children first, then those it refers to.                        *)
(***************************************************************************)
EXTENDS Reader

CONSTANTS
  Files,        \* what a path may name: files, or None
  SampleTypes,  \* the types a caller may ask a block to be read as
  Ids           \* the identifiers a caller may ask for

ASSUME FilesAssumption == Openable(Files \ {None})

VARIABLES
  reader,   \* XisfFile::reader, None before a file is open
  verdict,  \* by image: what verify last said, None if it was not asked
  last      \* the last call that answered: what it asked for, of which reader, and the answer

rust == <<reader, verdict, last>>

(***************************************************************************)
(* What is found in a header.                                              *)
(***************************************************************************)
Images(header) == Filter(header.images, LAMBDA e : e.image /= None)

UnavailableImages(header) == Len(header.images) - Len(Images(header))

Properties(header) == Filter(header.properties, LAMBDA e : e.kind /= None)

\* The first with the identifier: an earlier one hides a later one.
Find(elements, id) ==
  LET named == Filter(elements, LAMBDA e : e.id = id)
  IN  IF named = <<>> THEN None ELSE Head(named)

Tables(header) == Filter(header.tables, LAMBDA e : e.rows /= None)

\* Any property with a value or text is in the metadata, whether or not it parses.
Metadata(header) ==
  LET Text(e) == IF e.value /= None THEN e.value ELSE e.data.text
      said == Filter(header.properties, LAMBDA e : e.id /= None /\ Text(e) /= None)
  IN  [i \in DOMAIN said |-> <<said[i].id, Text(said[i])>>]

\* The first that parses, for what describes an image ...
FirstParsed(elements) ==
  LET parsed == Filter(elements, LAMBDA e : e.parses)
  IN  IF parsed = <<>> THEN None ELSE Head(parsed)

\* ... the very first for what has a block of its own.
Thumbnail(e) ==
  IF e.thumbnails = <<>> \/ ~Head(e.thumbnails).parses THEN None ELSE Head(e.thumbnails)

RepresentableRange(image) ==
  IF image.bounds /= None THEN image.bounds ELSE image.default_bounds

(***************************************************************************)
(* ImageRef::read, and the same for the components of a property. The size *)
(* is None where the product overflows 64 bits.                            *)
(***************************************************************************)

ReadAs(r, e, type) ==
  LET bytes == Block(r, e.data)
  IN  IF e.image.format /= type THEN Bad("InvalidArgument")
      ELSE IF ~bytes.ok THEN bytes
      ELSE IF e.image.size = None THEN Bad("Unsupported")
      ELSE IF bytes.value.length /= e.image.size THEN Bad("Truncated")
      ELSE bytes

ReadProperty(r, p, type) ==
  IF p.kind.element = None \/ p.kind.element /= type THEN Bad("InvalidArgument")
  ELSE IF p.kind.size = None THEN Bad("Unsupported")
  ELSE LET bytes == Block(r, p.data)
       IN  IF ~bytes.ok \/ bytes.value.length = p.kind.size THEN bytes ELSE Bad("Truncated")

\* as_str: a string's characters before its value attribute, a scalar's value, nothing else.
AsStr(p) ==
  CASE p.kind.shape \in {"Scalar", "TimePoint"} -> p.value
    [] p.kind.shape = "String" -> IF p.data.text /= None THEN p.data.text ELSE p.value
    [] OTHER -> None

(***************************************************************************)
(* Pixels in planar order: where each sample of the result comes from.     *)
(***************************************************************************)
Planar(image, count) ==
  IF ~image.interleaved \/ image.channels <= 1
  THEN [k \in 1 .. count |-> k]
  ELSE LET pixels == count \div image.channels
       IN  [k \in 1 .. count |->
              IF k > pixels * image.channels THEN k
              ELSE ((k - 1) % pixels) * image.channels + (k - 1) \div pixels + 1]

(***************************************************************************)
(* The program's calls.                                                    *)
(***************************************************************************)
Indices == IF reader = None THEN {} ELSE DOMAIN Images(reader.header)

RustInit ==
  /\ reader = None
  /\ verdict = <<>>
  /\ last = None

Answer(call, asked, answer) ==
  last' = [call |-> call, asked |-> asked, under |-> reader, answer |-> answer]

Opened(r) ==
  /\ reader' = IF r.ok THEN r.value ELSE None
  /\ verdict' = IF r.ok THEN [i \in DOMAIN Images(r.value.header) |-> None] ELSE <<>>
  /\ Answer("open", None, r)

OpenFile ==
  /\ reader = None
  /\ \E f \in Files : Opened(OpenPath(f))

FromBytes ==
  /\ reader = None
  /\ \E f \in Files \ {None} : Opened(OpenBytes(f, FALSE))

Switch ==
  /\ reader /= None
  /\ \E on \in BOOLEAN :
       reader' \in {SetVerify(reader, on), SetResolver(reader, on), FollowAbsolute(reader, on)}
  /\ UNCHANGED <<verdict, last>>

ImageBytes ==
  \E i \in Indices :
    LET d == Images(reader.header)[i].data
    IN  Answer("bytes", [image |-> i, data |-> d], Block(reader, d)) /\ UNCHANGED <<reader, verdict>>

ReadImage ==
  \E i \in Indices, type \in SampleTypes :
    LET e == Images(reader.header)[i]
    IN  /\ Answer("read", [image |-> i, data |-> e.data], ReadAs(reader, e, type))
        /\ UNCHANGED <<reader, verdict>>

VerifyImage ==
  \E i \in Indices :
    /\ verdict' = [verdict EXCEPT ![i] = Verify(reader, Images(reader.header)[i].data)]
    /\ UNCHANGED <<reader, last>>

\* A block that is not an image's own: of a profile, a thumbnail or a property.
Aside(call, d, answer) ==
  /\ Answer(call, [image |-> 0, data |-> d], answer)
  /\ UNCHANGED <<reader, verdict>>

IccProfile ==
  \E i \in Indices :
    LET e == Images(reader.header)[i]
    IN  /\ e.profiles /= <<>>
        /\ Aside("icc_profile", Head(e.profiles), Block(reader, Head(e.profiles)))

ThumbnailBytes ==
  \E i \in Indices :
    LET t == Thumbnail(Images(reader.header)[i])
    IN  /\ t /= None
        /\ Aside("thumbnail", t.data, Block(reader, t.data))

PropertyRead ==
  /\ reader /= None
  /\ \E id \in Ids, type \in SampleTypes :
       LET p == Find(Properties(reader.header), id)
       IN  /\ p /= None
           /\ Aside("property", p.data, ReadProperty(reader, p, type))

RustNext ==
  \/ OpenFile
  \/ FromBytes
  \/ Switch
  \/ ImageBytes
  \/ ReadImage
  \/ VerifyImage
  \/ IccProfile
  \/ ThumbnailBytes
  \/ PropertyRead
=============================================================================
