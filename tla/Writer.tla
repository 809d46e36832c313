-------------------------------- MODULE Writer --------------------------------
(***************************************************************************)
(* writer::Writer: images are added one after another, and the unit is     *)
(* then serialised, as often as the caller likes and in either form:       *)
(*   to_bytes        one file; the header names each block by position, so *)
(*                   its length feeds back into its own contents and is    *)
(*                   settled by iteration;                                 *)
(*   to_distributed  a header that names blocks by identifier and a data   *)
(*                   blocks file (distributed::write_blocks_file).         *)
(* The bytes of blocks are abstracted to their lengths and their owners,   *)
(* the text of the header to its length and the locations it carries.      *)
(***************************************************************************)
EXTENDS Naturals, Sequences

CONSTANTS
  Pendings,         \* the images a caller may add, see PendingImage
  NoId,             \* an image without an id attribute
  None,             \* an absent profile, thumbnail or output
  HeaderLen(_, _),  \* length of the header that names the given stored blocks,
                    \*   the first of which lies at the given position
  MaxHeader,        \* 2^32: header length and element count are 32 bits wide
  CodecLimit,       \* codec_input_limit
  PlainNames,       \* blocks file names that are not empty and have no "/"
  OddNames,         \* those that are or have
  CallerBlocks,     \* what a caller may hand to write_blocks_file itself
  MaxImages         \* bound: images added to one writer

Preamble == 16
ProfileHeaderLen == 128

(***************************************************************************)
(* A block before it is stored: its length, and the length compression     *)
(* would bring it to if the caller asked for it (None if not).             *)
(***************************************************************************)
Raw == [length : Nat, packed : Nat \cup {None}]

PendingImage == [id : STRING, data : Raw, icc : Raw \cup {None}, thumbnail : Raw \cup {None}]

\* A block for a data blocks file: its identifier, its bytes as stored, its length before.
PendingBlock == [id : Nat, length : Nat, uncompressed : Nat \cup {None}]

ASSUME WriterAssumption ==
  /\ Pendings \subseteq PendingImage
  /\ CallerBlocks \subseteq Seq(PendingBlock)
  /\ None \notin Raw \cup Nat
  /\ MaxImages \in Nat
  /\ CodecLimit \in Nat /\ MaxHeader \in Nat \ {0}

Roles == {"data", "icc", "thumbnail"}

VARIABLES
  images,     \* Writer::images
  form,       \* which serialisation runs: "none", "attached", "distributed", "blocks"
  phase,      \* where it has got to
  stored,     \* StoredBlocks::blocks, in the order they are written
  prepared,   \* images whose blocks are among them
  assumed,    \* the header length the next round of to_bytes assumes
  header,     \* the locations the rendered header carries, by owner
  pending,    \* the blocks write_blocks_file was given
  elements,   \* the index elements written so far
  output      \* what the last call returned: a unit, an error, or None

vars == <<images, form, phase, stored, prepared, assumed, header, pending, elements, output>>

Init ==
  /\ images = <<>>
  /\ form = "none"
  /\ phase = "idle"
  /\ stored = <<>>
  /\ prepared = 0
  /\ assumed = 0
  /\ header = <<>>
  /\ pending = <<>>
  /\ elements = <<>>
  /\ output = None

\* The call returns r; the writer itself is only borrowed.
Return(r) ==
  /\ output' = r
  /\ form' = "none"
  /\ phase' = "idle"

Fail(error) == Return([kind |-> "error", error |-> error])

-----------------------------------------------------------------------------
(* add_image *)

\* Pendings are images whose data agrees with their geometry; others are refused likewise.
\* An image id must be unique within the unit; an image that breaks that is refused and
\* changes nothing.
AddImage(p) ==
  /\ phase = "idle"
  /\ Len(images) < MaxImages
  /\ p.id = NoId \/ \A k \in 1 .. Len(images) : images[k].id # p.id
  /\ images' = Append(images, p)
  /\ UNCHANGED <<form, phase, stored, prepared, assumed, header, pending, elements, output>>

-----------------------------------------------------------------------------
(* prepare_blocks *)

\* Mutant of Begin: the blocks of the last call are kept.
BeginAgain(f, first) ==
  /\ phase = "idle"
  /\ form' = f
  /\ phase' = first
  /\ prepared' = 0
  /\ assumed' = 0
  /\ header' = <<>>
  /\ elements' = <<>>
  /\ output' = None
  /\ UNCHANGED stored

\* A call begins with locals of its own.
Begin(f, first) ==
  /\ phase = "idle"
  /\ form' = f
  /\ phase' = first
  /\ stored' = <<>>
  /\ prepared' = 0
  /\ assumed' = 0
  /\ header' = <<>>
  /\ elements' = <<>>
  /\ output' = None

Start(f) == Begin(f, "prepare") /\ pending' = <<>> /\ UNCHANGED images

ToBytes == Start("attached")

ToDistributed(name) ==
  \/ name \in PlainNames /\ Start("distributed")
  \/ /\ name \in OddNames /\ phase = "idle"
     /\ Fail("InvalidArgument")
     /\ UNCHANGED <<images, stored, prepared, assumed, header, pending, elements>>

\* StoredBlock::prepare: a codec takes no more than its limit, and compression that does
\* not make the block smaller is dropped.
Refuses(raw) == raw.packed # None /\ raw.length > CodecLimit

Compressed(raw) == raw.packed # None /\ raw.packed < raw.length

Stored(raw, owner) ==
  [owner |-> owner,
   length |-> IF Compressed(raw) THEN raw.packed ELSE raw.length,
   uncompressed |-> IF Compressed(raw) THEN raw.length ELSE None]

\* Mutant of BlocksOf: the thumbnail is forgotten.
BlocksOfNoThumbnail(p) == <<p.data>> \o (IF p.icc = None THEN <<>> ELSE <<p.icc>>)

\* The blocks of an image, in the order they are written: pixels, profile, thumbnail.
BlocksOf(p) ==
  <<p.data>> \o (IF p.icc = None THEN <<>> ELSE <<p.icc>>)
             \o (IF p.thumbnail = None THEN <<>> ELSE <<p.thumbnail>>)

RolesOf(p) ==
  <<"data">> \o (IF p.icc = None THEN <<>> ELSE <<"icc">>)
             \o (IF p.thumbnail = None THEN <<>> ELSE <<"thumbnail">>)

\* Why the blocks of an image cannot be prepared, or "none".
PrepareError(p) ==
  IF Refuses(p.data) THEN "Unsupported"
  ELSE IF p.icc # None /\ p.icc.length < ProfileHeaderLen THEN "InvalidArgument"
  ELSE IF p.thumbnail # None /\ Refuses(p.thumbnail) THEN "Unsupported"
  ELSE "none"

PrepareImage ==
  /\ phase = "prepare"
  /\ prepared < Len(images)
  /\ LET n == prepared + 1
         p == images[n]
     IN  /\ PrepareError(p) = "none"
         /\ stored' = stored \o [k \in 1 .. Len(BlocksOf(p)) |->
                                   Stored(BlocksOf(p)[k], <<n, RolesOf(p)[k]>>)]
         /\ prepared' = n
  /\ UNCHANGED <<images, form, phase, assumed, header, pending, elements, output>>

RefuseBlock ==
  /\ phase = "prepare"
  /\ prepared < Len(images)
  /\ PrepareError(images[prepared + 1]) # "none"
  /\ Fail(PrepareError(images[prepared + 1]))
  /\ UNCHANGED <<images, stored, prepared, assumed, header, pending, elements>>

-----------------------------------------------------------------------------
(* render *)

\* What lies before block k, and where block k therefore starts.
Before(blocks) ==
  LET sum[k \in 0 .. Len(blocks)] == IF k = 0 THEN 0 ELSE sum[k - 1] + blocks[k].length
  IN  sum

Position(blocks, base, k) == base + Before(blocks)[k - 1]

\* StoredBlocks::owners: the block that holds a role of an image.
Owners == {stored[k].owner : k \in 1 .. Len(stored)}

OwnedBlock(o) == CHOOSE k \in 1 .. Len(stored) : stored[k].owner = o

\* The locations in the header: attachment:position:length, or path(...):id.
Attachments(data_at) ==
  [o \in Owners |->
     [at |-> Position(stored, data_at, OwnedBlock(o)), length |-> stored[OwnedBlock(o)].length]]

\* block_id: one-based.
BlockId(k) == k

\* Mutant of Identifiers: zero-based.
IdentifiersZeroBased == [o \in Owners |-> BlockId(OwnedBlock(o)) - 1]

Identifiers == [o \in Owners |-> BlockId(OwnedBlock(o))]

\* Mutant of Measure: the first guess is an upper bound.
MeasureFromAbove ==
  /\ phase = "prepare" /\ form = "attached"
  /\ prepared = Len(images)
  /\ assumed' = HeaderLen(stored, Preamble + MaxHeader)
  /\ phase' = "settle"
  /\ UNCHANGED <<images, form, stored, prepared, header, pending, elements, output>>

\* The header is first rendered as though the blocks followed the preamble at once.
Measure ==
  /\ phase = "prepare" /\ form = "attached"
  /\ prepared = Len(images)
  /\ assumed' = HeaderLen(stored, Preamble)
  /\ phase' = "settle"
  /\ UNCHANGED <<images, form, stored, prepared, header, pending, elements, output>>

\* Mutant of Settle: the second rendering is taken whatever its length.
SettleOnce ==
  /\ phase = "settle"
  /\ assumed' = HeaderLen(stored, Preamble + assumed)
  /\ header' = Attachments(Preamble + assumed)
  /\ phase' = "assemble"
  /\ UNCHANGED <<images, form, stored, prepared, pending, elements, output>>

\* Mutant of Settle: the length assumed next counts a terminator.
SettleTerminated ==
  /\ phase = "settle"
  /\ LET length == HeaderLen(stored, Preamble + assumed)
     IN  \/ /\ length # assumed
            /\ assumed' = length + 1
            /\ UNCHANGED <<phase, header>>
         \/ /\ length = assumed
            /\ header' = Attachments(Preamble + assumed)
            /\ phase' = "assemble"
            /\ UNCHANGED assumed
  /\ UNCHANGED <<images, form, stored, prepared, pending, elements, output>>

\* A round: the header is rendered for the length assumed, and that is its length or a
\* longer one is assumed.
Settle ==
  /\ phase = "settle"
  /\ LET length == HeaderLen(stored, Preamble + assumed)
     IN  \/ /\ length # assumed
            /\ assumed' = length
            /\ UNCHANGED <<phase, header>>
         \/ /\ length = assumed
            /\ header' = Attachments(Preamble + assumed)
            /\ phase' = "assemble"
            /\ UNCHANGED assumed
  /\ UNCHANGED <<images, form, stored, prepared, pending, elements, output>>

\* The file: preamble, header, then the blocks in the order they were prepared.
Assemble ==
  /\ phase = "assemble"
  /\ IF assumed < MaxHeader
     THEN Return([kind |-> "attached", headerLen |-> assumed, header |-> header,
                  blocks |-> stored])
     ELSE Fail("Unsupported")
  /\ UNCHANGED <<images, stored, prepared, assumed, header, pending, elements>>

RenderDistributed ==
  /\ phase = "prepare" /\ form = "distributed"
  /\ prepared = Len(images)
  /\ header' = Identifiers
  /\ pending' = [k \in 1 .. Len(stored) |->
                   [id |-> BlockId(k), length |-> stored[k].length,
                    uncompressed |-> stored[k].uncompressed]]
  /\ elements' = <<>>
  /\ phase' = "index"
  /\ UNCHANGED <<images, form, stored, prepared, assumed, output>>

-----------------------------------------------------------------------------
(* write_blocks_file, called by to_distributed or by the caller *)

WriteBlocksFile(blocks) ==
  Begin("blocks", "index") /\ pending' = blocks /\ UNCHANGED images

\* Mutant of FirstBlock: no room for the node header.
FirstBlockNoNode(n) == 16 + 40 * n

\* The blocks follow the preamble, the node header and one element per block.
FirstBlock(n) == 16 + 16 + 40 * n

IndexBlock ==
  /\ phase = "index"
  /\ Len(elements) < Len(pending)
  /\ LET k == Len(elements) + 1
         block == pending[k]
     IN  \/ /\ block.length = 0 \/ \E j \in 1 .. k - 1 : pending[j].id = block.id
            /\ Fail("InvalidArgument")
            /\ UNCHANGED elements
         \/ /\ block.length # 0 /\ \A j \in 1 .. k - 1 : pending[j].id # block.id
            /\ elements' = Append(elements,
                 [id |-> block.id,
                  position |-> Position(pending, FirstBlock(Len(pending)), k),
                  length |-> block.length,
                  uncompressed |-> IF block.uncompressed = None THEN 0 ELSE block.uncompressed])
            /\ UNCHANGED <<form, phase, output>>
  /\ UNCHANGED <<images, stored, prepared, assumed, header, pending>>

WriteIndex ==
  /\ phase = "index"
  /\ Len(elements) = Len(pending)
  /\ Return([kind |-> form, header |-> header, elements |-> elements, blocks |-> pending])
  /\ UNCHANGED <<images, stored, prepared, assumed, header, pending, elements>>

-----------------------------------------------------------------------------

Serialise ==
  \/ PrepareImage \/ RefuseBlock
  \/ Measure \/ Settle \/ Assemble
  \/ RenderDistributed \/ IndexBlock \/ WriteIndex

Next ==
  \/ \E p \in Pendings : AddImage(p)
  \/ ToBytes
  \/ \E name \in PlainNames \cup OddNames : ToDistributed(name)
  \/ \E blocks \in CallerBlocks : WriteBlocksFile(blocks)
  \/ Serialise

\* A call that has begun runs to its end; the caller need not make another.
Spec == Init /\ [][Next]_vars /\ WF_vars(Serialise)
=============================================================================
