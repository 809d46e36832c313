------------------------------ MODULE Attributes ------------------------------
(***************************************************************************)
(* block.rs: the attributes that say where a block is and how it is        *)
(* stored. A text is what its separators split it into: a number is an     *)
(* integer, or Word where the digits are none; a hexadecimal text is the   *)
(* sequence of its digits.                                                 *)
(***************************************************************************)
EXTENDS Integers, Results

CONSTANTS
  Word,      \* text where a number was expected
  MaxWord    \* 2^64 - 1

\* parse_u64: digits that are no u64 are refused, too large a number among them.
ParseU64(text) == IF text \in 0 .. MaxWord THEN Good(text) ELSE Bad("BadAttribute")

CheckedTimes(a, b) == IF a = None \/ b = None THEN None ELSE IF a * b > MaxWord THEN None ELSE a * b

\* An enumeration, by its names.
Known(names, text, error) == IF text \in names THEN Good(text) ELSE Bad(error)

(***************************************************************************)
(* A block identifier: [radix, digits], 16 after an 0x prefix.             *)
(***************************************************************************)
ParseBlockId(text) ==
  LET value[i \in 0 .. Len(text.digits)] ==
        IF i = 0 THEN 0 ELSE value[i - 1] * text.radix + text.digits[i]
  IN  IF text.digits = <<>> THEN Bad("BadAttribute")
      ELSE IF \E i \in DOMAIN text.digits : text.digits[i] \notin 0 .. text.radix - 1
      THEN Bad("BadAttribute")
      ELSE ParseU64(value[Len(text.digits)])

(***************************************************************************)
(* Location::parse. A parenthesised text has its locator (None if blank),  *)
(* whether its last parenthesis is there, and its tail: None, or whether a *)
(* colon precedes the identifier. Any other text is split at its colons.   *)
(***************************************************************************)
ParseParenthesised(text) ==
  LET index == IF text.tail = None THEN Good(None) ELSE ParseBlockId(text.tail.id)
      checks == <<Check(text.closed, "BadAttribute"),
                  Check(text.locator /= None, "BadAttribute"),
                  Check(text.tail = None \/ text.tail.colon, "BadAttribute"),
                  index>>
  IN  Try(checks, [kind |-> text.scheme, locator |-> text.locator, index |-> index.value])

ParseLocation(text) ==
  LET rest == text.rest
  IN  CASE text.scheme \in {"path", "url"} -> ParseParenthesised(text)
        [] text.scheme = "embedded" ->
             Try(<<Check(rest = <<>>, "BadAttribute")>>,
                 [kind |-> "embedded", encoding |-> "base64"])
        [] text.scheme = "inline" ->
             Try(<<Check(Len(rest) = 1 /\ rest[1] \in {"base64", "hex"}, "BadAttribute")>>,
                 [kind |-> "inline", encoding |-> rest[1]])
        [] text.scheme = "attachment" ->
             \* A third field leaves the second no number.
             IF Len(rest) /= 2 THEN Bad("BadAttribute")
             ELSE Try(<<ParseU64(rest[1]), ParseU64(rest[2])>>,
                      [kind |-> "attachment", position |-> rest[1], size |-> rest[2]])
        [] OTHER -> Bad("BadAttribute")

ParseByteOrder(text) == Known({"little", "big"}, text, "BadAttribute")

(***************************************************************************)
(* Compression::parse and the writer's compression_attr. A codec that is   *)
(* not supported is kept by its name.                                      *)
(***************************************************************************)
Supported(codec) == codec \in {"zlib", "lz4", "lz4hc", "zstd"}

ParseCompression(text) ==
  LET sizes == text.fields
      item == IF text.shuffled THEN ParseU64(sizes[2]) ELSE Good(None)
      checks == <<Check(sizes /= <<>>, "BadAttribute"),
                  IF sizes = <<>> THEN Bad("BadAttribute") ELSE ParseU64(sizes[1]),
                  Check(Len(sizes) = IF text.shuffled THEN 2 ELSE 1, "BadAttribute"),
                  IF Len(sizes) < 2 THEN Good(None) ELSE item>>
  IN  Try(checks, [codec |-> text.codec, uncompressed |-> sizes[1], item |-> item.value])

CompressionAttr(compression) ==
  LET item == compression.item
  IN  [codec |-> compression.codec, shuffled |-> item /= None,
       fields |-> <<compression.uncompressed>> \o (IF item = None THEN <<>> ELSE <<item>>)]

\* Pairs of lengths; a field that is not a pair is Word.
ParseSubblocks(fields) ==
  Collect([i \in DOMAIN fields |->
             IF fields[i] = Word THEN Bad("BadAttribute")
             ELSE Try(<<ParseU64(fields[i][1]), ParseU64(fields[i][2])>>, fields[i])])

(***************************************************************************)
(* Checksum::parse and the writer's spelling of it.                        *)
(***************************************************************************)
Algorithm(name) ==
  CASE name \in {"sha-1", "sha1"} -> Good("sha-1")
    [] name \in {"sha-256", "sha256"} -> Good("sha-256")
    [] name \in {"sha-512", "sha512"} -> Good("sha-512")
    [] name \in {"sha3-256", "sha3-512"} -> Good(name)
    [] OTHER -> Bad("Unsupported")

DigestLen(algorithm) ==
  CASE algorithm = "sha-1" -> 20
    [] algorithm \in {"sha-256", "sha3-256"} -> 32
    [] algorithm \in {"sha-512", "sha3-512"} -> 64

\* Two digits a byte, in either case; what is no digit, of however many bytes, is refused.
DecodeHex(digits) ==
  IF Len(digits) % 2 = 1 \/ \E i \in DOMAIN digits : digits[i] \notin 0 .. 15 THEN None
  ELSE [i \in 1 .. Len(digits) \div 2 |-> digits[2 * i - 1] * 16 + digits[2 * i]]

DigestHex(digest) ==
  [i \in 1 .. 2 * Len(digest) |->
     IF i % 2 = 1 THEN digest[(i + 1) \div 2] \div 16 ELSE digest[i \div 2] % 16]

ParseChecksum(text) ==
  LET algorithm == Algorithm(text.name)
      digest == DecodeHex(text.digits)
  IN  IF text.digits = None THEN Bad("BadAttribute")
      ELSE IF ~algorithm.ok THEN algorithm
      ELSE IF Len(text.digits) /= 2 * DigestLen(algorithm.value) \/ digest = None
      THEN Bad("BadAttribute")
      ELSE Good([algorithm |-> algorithm.value, digest |-> digest])

ChecksumAttr(checksum) ==
  [name |-> checksum.algorithm, digits |-> DigestHex(checksum.digest)]
=============================================================================
