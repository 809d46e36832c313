-------------------------------- MODULE Reader --------------------------------
(***************************************************************************)
(* layout.rs and the parts of reader.rs that do not walk an index: what    *)
(* opening a file finds, and how an element's block is got at wherever its *)
(* location says it is. Everything here is a pure function of a reader, a  *)
(* record, and of the element's reference to its data.                     *)
(*                                                                         *)
(* Bytes are named by where they are: `from` the file itself, the header's *)
(* text, a file of the disk or a fetched resource, `at` a position or an   *)
(* identifier, `length` bytes of them, `plain` once they are decompressed. *)
(* A digest is the bytes it was taken of.                                  *)
(***************************************************************************)
EXTENDS Naturals, Results

CONSTANTS
  Preamble,     \* PREAMBLE_LEN
  MaxWord,      \* 2^64 - 1
  Disk,         \* what the paths of the file system name, by canonical path
  Root,         \* the canonical paths inside the header's own directory
  Web           \* what the caller's resolver answers, by URL

\* What a path names, and what may be fetched.
IsResource(x) ==
  \/ x.kind = "plain" /\ x.length \in Nat
  \/ x.kind = "blocks" /\ \A index \in DOMAIN x.blocks : x.blocks[index] \in Nat

ASSUME ReaderAssumption ==
  /\ Preamble \in Nat
  /\ \A path \in DOMAIN Disk : Disk[path].kind = "directory" \/ IsResource(Disk[path])
  /\ \A url \in DOMAIN Web : IsResource(Web[url])

\* The name of a place on the disk or the web is not that of a place in the file.
ASSUME NamesAssumption == {"file", "text"} \cap (DOMAIN Disk \cup DOMAIN Web) = {}

Bytes(from, at, length) == [from |-> from, at |-> at, length |-> length, plain |-> FALSE]

(***************************************************************************)
(* What a file may be, by type: the numbers of a header have 64 bits, and  *)
(* an error has a kind. A list is the sequence of what is in it.           *)
(***************************************************************************)
ErrorKinds ==
  {"NotXisf", "Truncated", "BadHeader", "BadAttribute", "Unsupported", "ChecksumMismatch",
   "Compression", "NotFound", "InvalidArgument", "Io"}

IsList(s) == s \in Seq(ToSet(s))

IsLocation(l) ==
  \/ l.kind = "Attachment" /\ l.position \in Nat /\ l.size \in Nat
  \/ l.kind \in {"Inline", "Embedded", "Path", "Url"}

IsData(d) ==
  /\ d.location /= None => IsLocation(d.location)
  /\ d.text /= None => d.text.length \in Nat
  /\ d.compression /= None => d.compression.size \in Nat

\* A header, as far as it has blocks: of images and what describes them, and of properties.
IsHeader(h) ==
  /\ IsList(h.images) /\ IsList(h.properties)
  /\ \A e \in ToSet(h.images) :
       /\ IsData(e.data)
       /\ IsList(e.profiles) /\ \A d \in ToSet(e.profiles) : IsData(d)
       /\ IsList(e.thumbnails) /\ \A t \in ToSet(e.thumbnails) : t.parses => IsData(t.data)
  /\ \A p \in ToSet(h.properties) : IsData(p.data)

IsFile(f) ==
  /\ f.length \in Nat /\ f.declared \in Nat
  /\ IF f.header.ok THEN IsHeader(f.header.value) ELSE f.header.error \in ErrorKinds

\* An open reader of one of the files.
Readers(files) ==
  [length : Nat, layout : [end : Nat, form : {"HeaderFile", "Monolithic"}],
   header : {f.header.value : f \in {g \in files : g.header.ok}},
   beside : BOOLEAN, absolute : BOOLEAN, resolver : BOOLEAN, verify : BOOLEAN]

\* Whatever is opened is a file, and None no reader of it.
Openable(files) == (\A f \in files : IsFile(f)) /\ None \notin Readers(files)

(***************************************************************************)
(* layout.rs. A file is its length, what it opens with, the two fields of  *)
(* the preamble, and what header::parse makes of the text between.         *)
(***************************************************************************)

Scan(f) ==
  IF f.opens = "xml" THEN Good([end |-> f.length, form |-> "HeaderFile"])
  ELSE IF f.length < Preamble THEN Bad("Truncated")
  ELSE IF f.opens /= "signature" THEN Bad("NotXisf")
  ELSE IF f.reserved /= 0 THEN Bad("BadHeader")
  ELSE IF Preamble + f.declared > f.length THEN Bad("Truncated")
  ELSE Good([end |-> Preamble + f.declared, form |-> "Monolithic"])

\* Text that is not UTF-8 or not a header; `header` is what the parser returns otherwise.
ParseHeader(f) ==
  IF ~f.utf8 THEN Bad("BadHeader") ELSE f.header

(***************************************************************************)
(* An open reader. A file in memory has no directory.                      *)
(***************************************************************************)
OpenBytes(f, beside) ==
  LET layout == Scan(f)
  IN  IF ~layout.ok THEN layout
      ELSE IF ~ParseHeader(f).ok THEN ParseHeader(f)
      ELSE Good([length |-> f.length, layout |-> layout.value, header |-> ParseHeader(f).value,
                 beside |-> beside, absolute |-> FALSE, resolver |-> FALSE, verify |-> TRUE])

OpenPath(f) == IF f = None THEN Bad("Io") ELSE OpenBytes(f, TRUE)

SetVerify(r, on) == [r EXCEPT !.verify = on]

SetResolver(r, on) == [r EXCEPT !.resolver = on]

FollowAbsolute(r, on) == [r EXCEPT !.absolute = on]

(***************************************************************************)
(* Path resolution. A locator is its spelling, abstracted to what is       *)
(* looked at: the `@header_dir` token, a leading slash, nothing after the  *)
(* token, "://", a component that climbs out; and the canonical path it    *)
(* leads to once links are followed, None if there is no such file.        *)
(***************************************************************************)

Beside(r, l) ==
  IF ~r.beside THEN Bad("NotFound")
  ELSE IF l.scheme \/ l.climbs THEN Bad("BadAttribute")
  ELSE IF l.leads = None THEN Bad("NotFound")
  ELSE IF l.leads \notin Root THEN Bad("BadAttribute")
  ELSE Good(l.leads)

Resolve(r, l) ==
  IF l.token
  THEN IF l.empty THEN Bad("BadAttribute") ELSE Beside(r, l)
  ELSE IF l.absolute
       THEN IF r.absolute THEN Good(l.leads) ELSE Bad("BadAttribute")
       ELSE Beside(r, l)

(***************************************************************************)
(* An external block, once the place is known. The walk of the index is    *)
(* LocalLookup's and RemoteLookup's; here a data blocks file is a function *)
(* from identifiers to lengths.                                            *)
(***************************************************************************)
Extracted(resource, name, index) ==
  IF resource.kind = "plain"
  THEN IF index = None THEN Good(Bytes(name, 0, resource.length)) ELSE Bad("BadAttribute")
  ELSE IF index = None THEN Bad("BadAttribute")
  ELSE IF index \notin DOMAIN resource.blocks THEN Bad("NotFound")
  ELSE Good(Bytes(name, index, resource.blocks[index]))

ReadExternal(path, index) ==
  IF path = None \/ path \notin DOMAIN Disk THEN Bad("NotFound")
  ELSE IF Disk[path].kind = "directory" THEN Bad("BadAttribute")
  ELSE Extracted(Disk[path], path, index)

Fetched(r, url, index) ==
  IF ~r.resolver THEN Bad("Unsupported")
  ELSE IF url \notin DOMAIN Web THEN Bad("NotFound")
  ELSE Extracted(Web[url], url, index)

(***************************************************************************)
(* The block of a DataRef.                                                 *)
(***************************************************************************)

\* Mutant of Attached: only the end of the block is looked at.
AttachedAnywhere(r, l) ==
  IF l.position + l.size > r.length THEN Bad("Truncated")
  ELSE Good(Bytes("file", l.position, l.size))

Attached(r, l) ==
  IF l.position + l.size > MaxWord THEN Bad("Truncated")
  ELSE IF l.position < r.layout.end THEN Bad("BadAttribute")
  ELSE IF l.position + l.size > r.length THEN Bad("Truncated")
  ELSE Good(Bytes("file", l.position, l.size))

\* Absent text is a block of no bytes; whitespace does not count.
DecodeText(text) ==
  IF text = None THEN Good(Bytes("text", 0, 0))
  ELSE IF text.decodes THEN Good(Bytes("text", 0, text.length)) ELSE Bad("BadAttribute")

StoredUnchecked(r, d) ==
  LET l == d.location
      place == Resolve(r, l.locator)
  IN  IF l = None THEN Bad("NotFound")
      ELSE IF l.kind = "Attachment" THEN Attached(r, l)
      ELSE IF l.kind \in {"Inline", "Embedded"} THEN DecodeText(d.text)
      ELSE IF r.layout.form = "Monolithic" THEN Bad("BadAttribute")
      ELSE IF l.kind = "Url" THEN Fetched(r, l.url, l.index)
      ELSE IF ~place.ok THEN place
      ELSE ReadExternal(place.value, l.index)

StoredBlock(r, d) ==
  LET s == StoredUnchecked(r, d)
  IN  IF s.ok /\ r.verify /\ d.checksum /= None /\ d.checksum /= s.value
      THEN Bad("ChecksumMismatch")
      ELSE s

\* codec::decode, see Codec: bytes of the size the attribute declares, or an error.
Decode(stored, compression) ==
  IF compression.sound THEN Good([stored EXCEPT !.plain = TRUE, !.length = compression.size])
  ELSE Bad("Compression")

Block(r, d) ==
  LET s == StoredBlock(r, d)
  IN  IF s.ok /\ d.compression /= None THEN Decode(s.value, d.compression) ELSE s

\* Mutant of Verify: the block is read the way a caller reads it.
VerifyChecked(r, d) ==
  LET s == StoredBlock(r, d)
  IN  IF d.checksum = None THEN Good("Absent")
      ELSE IF ~s.ok THEN s
      ELSE Good("Valid")

\* Reader::verify: no look at the block when nothing was recorded.
Verify(r, d) ==
  LET s == StoredUnchecked(r, d)
  IN  IF d.checksum = None THEN Good("Absent")
      ELSE IF ~s.ok THEN s
      ELSE Good(IF d.checksum = s.value THEN "Valid" ELSE "Invalid")
=============================================================================
