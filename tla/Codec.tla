-------------------------------- MODULE Codec ---------------------------------
(***************************************************************************)
(* A data block from the caller's bytes to a file and back:                *)
(* StoredBlock::prepare on the way out, Reader::block with the checksum    *)
(* and codec::decode on the way in.                                        *)
(*                                                                         *)
(* A compressor is external.  What it makes is a stream: a number of       *)
(* stored bytes and the bytes they decompress to.  A stored block is a     *)
(* sequence of streams, or the bytes themselves.                           *)
(***************************************************************************)
EXTENDS Shuffle, SequencesExt

CONSTANTS
  MaxLen,      \* bound: length of a block
  Items,       \* shuffle item sizes an encoder is asked for; 0 stands for none
  Ratio,       \* max_expansion_ratio, of the codec in use
  Floor,       \* 1024: a block may always claim this many bytes
  InputLimit,  \* codec_input_limit
  None

ASSUME CodecAssumption ==
  /\ MaxLen \in Nat /\ Items \subseteq Nat /\ Ratio \in Nat \ {0}
  /\ Floor \in Nat /\ InputLimit \in Nat

\* What is absent is no attribute and no run of bytes.
ASSUME NoneAssumption ==
  /\ None \notin Seq(Nat)
  /\ None \notin [size : Nat, item : Nat, pieces : Seq([stored : Nat, plain : Nat])]

\* The streaming decoders (zlib, zstd) stop at a limit they are given; LZ4 fills a buffer.
Codecs == {"zlib", "lz4"}

\* A block of pairwise different bytes, so that no byte can stand in for another.
Block(len) == [j \in 1 .. len |-> j]

-----------------------------------------------------------------------------

VARIABLES
  data,      \* the bytes the caller gave
  codec,     \* the codec in use
  streams,   \* the stored block: a sequence of [stored, plain]
  attr,      \* the compression attribute [size, item, pieces], or None
  digest,    \* the checksum recorded over the stored bytes, or None
  verify,    \* Reader::verify_checksums
  tampered,  \* what has happened to the block between writing and reading
  phase, n, out, result

vars == <<data, codec, streams, attr, digest, verify, tampered, phase, n, out, result>>

Init ==
  /\ data \in {Block(len) : len \in 0 .. MaxLen}
  /\ codec \in Codecs
  /\ streams = <<>>
  /\ attr = None
  /\ digest = None
  /\ verify \in BOOLEAN
  /\ tampered = {}
  /\ phase = "write"
  /\ n = 0
  /\ out = <<>>
  /\ result = None

Fail(error) ==
  /\ phase' = "done"
  /\ result' = [ok |-> FALSE, error |-> error]

Total(lens) == FoldLeft(LAMBDA a, b : a + b, 0, lens)

StoredLens(parts) == [k \in 1 .. Len(parts) |-> parts[k].stored]

PlainLens(pieces) == [k \in 1 .. Len(pieces) |-> pieces[k].plain]

StoredLen == Total(StoredLens(streams))

-----------------------------------------------------------------------------
(* StoredBlock::prepare *)

\* A stored length no compressor goes below, and one it may need.
CompressedLens(len) == {c \in 1 .. len + 1 : len <= c * Ratio}

Plainly == <<[stored |-> Len(data), plain |-> data]>>

Record(checksum) == digest' = IF checksum THEN [of |-> streams'] ELSE None

\* Shuffling by one byte shuffles nothing and is not a stored form.
Recorded(item) == IF item > 1 THEN item ELSE 0

\* The codec is handed the shuffled bytes; a result that is not smaller is dropped.
Write(compress, item, checksum) ==
  /\ phase = "write"
  /\ LET staged == Shuffle(data, item)
     IN  \/ /\ ~compress
            /\ streams' = Plainly /\ attr' = None
            /\ phase' = "stored" /\ Record(checksum)
            /\ UNCHANGED result
         \/ /\ compress /\ Len(staged) > InputLimit
            /\ Fail("Unsupported")
            /\ UNCHANGED <<streams, attr, digest>>
         \/ /\ compress /\ Len(staged) <= InputLimit
            /\ \E c \in CompressedLens(Len(staged)) :
                 IF c >= Len(data)
                 THEN streams' = Plainly /\ attr' = None
                 ELSE /\ streams' = <<[stored |-> c, plain |-> staged]>>
                      /\ attr' = [size |-> Len(data), item |-> Recorded(item),
                                  pieces |-> <<>>]
            /\ phase' = "stored" /\ Record(checksum)
            /\ UNCHANGED result
  /\ UNCHANGED <<data, codec, verify, tampered, n, out>>

\* Another encoder splits the block into subblocks and compresses each of them.
WriteSplit(cut, item, checksum) ==
  /\ phase = "write"
  /\ cut \in 0 .. Len(data)
  /\ LET staged == Shuffle(data, item)
         left == SubSeq(staged, 1, cut)
         right == SubSeq(staged, cut + 1, Len(staged))
     IN  \E c \in CompressedLens(Len(left)), d \in CompressedLens(Len(right)) :
           /\ streams' = <<[stored |-> c, plain |-> left], [stored |-> d, plain |-> right]>>
           /\ attr' = [size |-> Len(data), item |-> Recorded(item),
                       pieces |-> <<[stored |-> c, plain |-> Len(left)],
                                    [stored |-> d, plain |-> Len(right)]>>]
  /\ Record(checksum)
  /\ phase' = "stored"
  /\ UNCHANGED <<data, codec, verify, tampered, n, out, result>>

-----------------------------------------------------------------------------
(* Between the writer and the reader: external *)

\* What a stream's stored bytes decompress to after some of them changed.
Damaged(s) ==
  {None, Append(s, 0)} \cup (IF s = <<>> THEN {} ELSE {Front(s), [s EXCEPT ![1] = 0]})

DamageStream ==
  /\ phase = "stored" /\ tampered = {}
  /\ \E k \in 1 .. Len(streams) : \E other \in Damaged(streams[k].plain) :
       /\ attr = None => other # None /\ Len(other) = Len(streams[k].plain)
       /\ streams' = [streams EXCEPT ![k].plain = other]
  /\ tampered' = {"stream"}
  /\ UNCHANGED <<data, codec, attr, digest, verify, phase, n, out, result>>

\* The attribute is not the one the block was written with.
MisstateSize ==
  /\ phase = "stored" /\ tampered = {} /\ attr # None
  /\ \E size \in 0 .. MaxLen + 2 : size # attr.size /\ attr' = [attr EXCEPT !.size = size]
  /\ tampered' = {"attribute"}
  /\ UNCHANGED <<data, codec, streams, digest, verify, phase, n, out, result>>

\* Two subblocks cut elsewhere, whose totals are right or one too large.
MisstatePieces ==
  /\ phase = "stored" /\ tampered = {} /\ attr # None
  /\ \E a \in 0 .. StoredLen, b \in 0 .. attr.size, x, y \in 0 .. 1 :
       attr' = [attr EXCEPT !.pieces =
                  <<[stored |-> a, plain |-> b],
                    [stored |-> StoredLen - a + x, plain |-> attr.size - b + y]>>]
  /\ tampered' = {"attribute"}
  /\ UNCHANGED <<data, codec, streams, digest, verify, phase, n, out, result>>

\* The item size the bytes are said to have been shuffled by is another one.
MisstateItem ==
  /\ phase = "stored" /\ tampered = {} /\ attr # None
  /\ \E item \in Items :
       Recorded(item) # attr.item /\ attr' = [attr EXCEPT !.item = Recorded(item)]
  /\ tampered' = {"item"}
  /\ UNCHANGED <<data, codec, streams, digest, verify, phase, n, out, result>>

-----------------------------------------------------------------------------
(* Reader::block and codec::decode *)

Decline(error) == Fail(error) /\ UNCHANGED <<n, out>>

Ceiling == IF StoredLen * Ratio > Floor THEN StoredLen * Ratio ELSE Floor

PlainBytes == FlattenSeq([k \in 1 .. Len(streams) |-> streams[k].plain])

\* Mutant of ReadStored: only a block stored plainly has its checksum looked at.
ReadStoredUnchecked ==
  /\ phase = "stored"
  /\ IF verify /\ attr = None /\ digest # None /\ digest.of # streams
     THEN Decline("ChecksumMismatch")
     ELSE /\ IF attr = None
             THEN phase' = "done" /\ result' = [ok |-> TRUE, bytes |-> PlainBytes]
             ELSE phase' = "ceiling" /\ UNCHANGED result
          /\ UNCHANGED <<n, out>>
  /\ UNCHANGED <<data, codec, streams, attr, digest, verify, tampered>>

\* The checksum covers the block as stored, and is looked at first if it is looked at.
ReadStored ==
  /\ phase = "stored"
  /\ IF verify /\ digest # None /\ digest.of # streams
     THEN Decline("ChecksumMismatch")
     ELSE /\ IF attr = None
             THEN phase' = "done" /\ result' = [ok |-> TRUE, bytes |-> PlainBytes]
             ELSE phase' = "ceiling" /\ UNCHANGED result
          /\ UNCHANGED <<n, out>>
  /\ UNCHANGED <<data, codec, streams, attr, digest, verify, tampered>>

\* Mutant of CheckClaims: the subblock table is not added up.
CheckClaimsApart ==
  /\ phase = "ceiling"
  /\ IF attr.size > Ceiling THEN Decline("Compression")
     ELSE phase' = "decompress" /\ UNCHANGED <<n, out, result>>
  /\ UNCHANGED <<data, codec, streams, attr, digest, verify, tampered>>

\* decode refuses a claim no codec could honour; decompress_subblocks one its own
\* table does not add up to.
CheckClaims ==
  /\ phase = "ceiling"
  /\ IF \/ attr.size > Ceiling
        \/ /\ attr.pieces # <<>>
           /\ \/ Total(StoredLens(attr.pieces)) # StoredLen
              \/ Total(PlainLens(attr.pieces)) # attr.size
     THEN Decline("Compression")
     ELSE phase' = "decompress" /\ UNCHANGED <<n, out, result>>
  /\ UNCHANGED <<data, codec, streams, attr, digest, verify, tampered>>

\* Mutant of OutputLimit: the decoder stops at the claim itself.
OutputLimitExact(size) == size

\* output_limit: one byte past the claim, so that a longer stream shows.
OutputLimit(size) == size + 1

(***************************************************************************)
(* What a decoder may return for `len` stored bytes from byte `from` on,   *)
(* asked for `size` bytes: None stands for an error.  A cut stream may     *)
(* yield any part of what it holds; what does not begin a stream is no     *)
(* stream.  A streaming decoder leaves what follows its stream alone.      *)
(***************************************************************************)
\* What `len` stored bytes can hold of s, when they are the first of its stream.
Parts(s, len) == {p \in Prefixes(s) : Len(p) <= len * Ratio}

StreamsAt(from) == {k \in 1 .. Len(streams) : Total(StoredLens(SubSeq(streams, 1, k - 1))) = from}

Yield(s, size) ==
  IF codec = "lz4" THEN IF Len(s) <= size THEN {s} ELSE {None}
  ELSE {SubSeq(s, 1, Min({Len(s), OutputLimit(size)}))}

Decoded(from, len, size) ==
  LET here == {k \in StreamsAt(from) : streams[k].plain # None}
  IN  IF here = {} THEN {None}
      ELSE UNION {IF len < streams[k].stored
                  THEN {None} \cup UNION {Yield(p, size) : p \in Parts(streams[k].plain, len)}
                  ELSE IF len > streams[k].stored /\ codec = "lz4" THEN {None}
                  ELSE Yield(streams[k].plain, size) : k \in here}

\* The whole block as one stream: whatever follows the first is not looked at.
DecompressWhole ==
  /\ phase = "decompress" /\ attr.pieces = <<>>
  /\ \E plain \in Decoded(0, StoredLen, attr.size) :
       IF plain = None THEN Decline("Compression")
       ELSE out' = plain /\ phase' = "check" /\ UNCHANGED <<n, result>>
  /\ UNCHANGED <<data, codec, streams, attr, digest, verify, tampered>>

\* One subblock; each must yield exactly what the table says.
DecompressSubblock ==
  /\ phase = "decompress" /\ n < Len(attr.pieces)
  /\ LET piece == attr.pieces[n + 1]
         from == Total(StoredLens(SubSeq(attr.pieces, 1, n)))
     IN  \E plain \in Decoded(from, piece.stored, piece.plain) :
           IF plain = None \/ Len(plain) # piece.plain
           THEN Decline("Compression")
           ELSE /\ out' = out \o plain
                /\ n' = n + 1
                /\ phase' = IF n + 1 = Len(attr.pieces) THEN "check" ELSE phase
                /\ UNCHANGED result
  /\ UNCHANGED <<data, codec, streams, attr, digest, verify, tampered>>

FinishDecode ==
  /\ phase = "check"
  /\ IF Len(out) # attr.size THEN Decline("Compression")
     ELSE /\ phase' = "done"
          /\ result' = [ok |-> TRUE, bytes |-> Unshuffle(out, attr.item)]
          /\ UNCHANGED <<n, out>>
  /\ UNCHANGED <<data, codec, streams, attr, digest, verify, tampered>>

Done == phase = "done" /\ UNCHANGED vars

Next ==
  \/ \E item \in Items, checksum \in BOOLEAN :
       \/ \E compress \in BOOLEAN : Write(compress, item, checksum)
       \/ \E cut \in 0 .. MaxLen : WriteSplit(cut, item, checksum)
  \/ DamageStream \/ MisstateSize \/ MisstatePieces \/ MisstateItem
  \/ ReadStored \/ CheckClaims \/ DecompressWhole \/ DecompressSubblock \/ FinishDecode
  \/ Done

Spec == Init /\ [][Next]_vars

-----------------------------------------------------------------------------

\* What was written is read back, whatever the item size, the codec and the subblocks,
\* whether the compressed form was kept or dropped: shuffling is undone, no sound block
\* is taken for a lie.
RoundTrip ==
  phase = "done" /\ tampered = {} /\ streams # <<>> => result = [ok |-> TRUE, bytes |-> data]

\* A block whose streams are intact is never returned as something else when its attribute
\* misstates the size, or else the subblocks: that is refused, or makes no difference. A
\* misstated item size puts the bytes in another order, but their number stays what it was:
\* no checksum covers the attribute (codec.rs:80-168).
NoSilentCorruption ==
  phase = "done" /\ "stream" \notin tampered /\ streams # <<>> /\ result.ok =>
    IF "item" \in tampered THEN Len(result.bytes) = Len(data) ELSE result.bytes = data

\* A recorded checksum that is looked at catches every change of the stored bytes, before
\* any of them is decompressed.
DamageDetected ==
  "stream" \in tampered /\ verify /\ digest # None
  => /\ phase \in {"stored", "done"}
     /\ phase = "done" => result = [ok |-> FALSE, error |-> "ChecksumMismatch"]

\* Decompression never holds more than one byte above what the header claims, and the
\* claim never exceeds what the stored bytes could honestly expand to.
OutputBounded ==
  phase \in {"decompress", "check"} =>
    /\ attr.size <= Ceiling
    /\ Len(out) <= attr.size + 1
    /\ attr.pieces # <<>> => Len(out) <= attr.size
=============================================================================
