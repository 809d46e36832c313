----------------------------- MODULE WrittenUnit ------------------------------
(***************************************************************************)
(* What a reader finds in the units the writer makes: layout::scan and     *)
(* Reader::stored_block_unchecked on the single file, the index of         *)
(* BlockIndex on the data blocks file.                                     *)
(***************************************************************************)
EXTENDS Writer, FiniteSets

\* The file as it is laid down: where block k of a list really starts when `front` bytes
\* come before the first one.
Extent(blocks, front, k) == [at |-> Position(blocks, front, k), length |-> blocks[k].length]

AttachedLen(unit) ==
  Position(unit.blocks, Preamble + unit.headerLen, Len(unit.blocks) + 1)

-----------------------------------------------------------------------------
(* The data blocks file, word by word. *)

BlocksFileLen(unit) ==
  Position(unit.blocks, FirstBlock(Len(unit.elements)), Len(unit.blocks) + 1)

ElementWord(e, word) ==
  CASE word = 0 -> e.id
    [] word = 1 -> e.position
    [] word = 2 -> e.length
    [] word = 3 -> e.uncompressed
    [] OTHER -> 0

\* The element count is cut to 32 bits.
BlocksFileWord(unit, at) ==
  CASE at = 0 -> "XISB0100"
    [] at = 16 -> Len(unit.elements) % MaxHeader
    [] at >= 32 /\ at < FirstBlock(Len(unit.elements)) ->
         ElementWord(unit.elements[(at - 32) \div 40 + 1], ((at - 32) % 40) \div 8)
    [] OTHER -> 0

SingleNode(unit) == <<[at |-> 16, before |-> 0]>>

Index ==
  INSTANCE BlockIndex WITH
    Files <- {}, Missing <- None, NotRegular <- None,
    FileLen <- BlocksFileLen, U64 <- BlocksFileWord, ChainOf <- SingleNode,
    Half <- MaxHeader, Signature <- "XISB0100", MaxNodes <- 100000,
    Ids <- {}, NoIndex <- None

-----------------------------------------------------------------------------

Located == [at : Nat, length : Nat]

TypeOK ==
  /\ images \in Seq(Pendings)
  /\ form \in {"none", "attached", "distributed", "blocks"}
  /\ phase \in {"idle", "prepare", "settle", "assemble", "index"}
  /\ Len(stored) <= 3 * Len(images)
  /\ prepared \in 0 .. Len(images)
  /\ assumed \in Nat
  /\ Len(elements) <= Len(pending)
  /\ output = None \/ output.kind \in {"error", "attached", "distributed", "blocks"}

\* In the file to_bytes returns, every element of the header points at its own block and
\* at the whole of it, after the header and inside the file, though the header's length
\* depends on the positions it spells out (writer.rs:444-455, 571-586).
AttachmentsPointAtTheirBlocks ==
  output # None /\ output.kind = "attached" =>
    /\ DOMAIN output.header = {output.blocks[k].owner : k \in 1 .. Len(output.blocks)}
    /\ \A k \in 1 .. Len(output.blocks) :
         LET place == output.header[output.blocks[k].owner]
         IN  /\ place = Extent(output.blocks, Preamble + output.headerLen, k)
             /\ place.at >= Preamble + output.headerLen
             /\ place.at + place.length <= AttachedLen(output)

\* Every image added is in the unit with every block it owns, and no other block is.
EveryBlockIsWritten ==
  output # None /\ output.kind \in {"attached", "distributed"} =>
    /\ DOMAIN output.header =
         {o \in (1 .. prepared) \X Roles :
            \E k \in 1 .. Len(RolesOf(images[o[1]])) : RolesOf(images[o[1]])[k] = o[2]}
    /\ Len(output.blocks) = Cardinality(DOMAIN output.header)

\* The index write_blocks_file returns is one the readers accept: a single node inside
\* the file, no identifier twice, no free element, every block inside the file and no two
\* blocks sharing a byte (distributed.rs:340-394).
WrittenIndexIsWellFormed ==
  output # None /\ output.kind \in {"distributed", "blocks"} =>
    /\ Index!WellFormed(output)
    /\ \A k \in 1 .. Len(output.elements) :
         LET e == output.elements[k]
         IN  /\ ~Index!IsFree(e)
             /\ \A j \in 1 .. k - 1 :
                  output.elements[j].position + output.elements[j].length <= e.position

\* The identifier the header gives for a block is the identifier under which the index
\* has that block: the n-th one stored is the n-th extent of the blocks file.
IdentifiersNameTheirBlocks ==
  output # None /\ output.kind = "distributed" =>
    \A k \in 1 .. Len(stored) :
      LET named == {e \in {output.elements[j] : j \in 1 .. Len(output.elements)} :
                      e.id = output.header[stored[k].owner]}
          place == Extent(stored, FirstBlock(Len(stored)), k)
      IN  {[at |-> e.position, length |-> e.length] : e \in named} = {place}

\* "Monotonic: a longer header only ever pushes positions outward" (writer.rs:453): no
\* round assumes a header shorter than the one before.
OnlyOutward == [][phase = "settle" /\ phase' = "settle" => assumed' > assumed]_vars

\* The iteration on the header's length settles, so a call always returns.
CallReturns == phase # "idle" ~> phase = "idle"
=============================================================================
