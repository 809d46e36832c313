------------------------------- MODULE MCWriter -------------------------------
(***************************************************************************)
(* Images whose blocks are a few bytes or close to a power of ten long, in *)
(* headers whose fixed text is close to one as well, so that spelling out  *)
(* a position lengthens the header and moves the next position.            *)
(***************************************************************************)
EXTENDS WrittenUnit

CONSTANT FixedText   \* length of the header's text but for positions and lengths

Digits(n) == IF n < 10 THEN 1 ELSE IF n < 100 THEN 2 ELSE IF n < 1000 THEN 3 ELSE 4

MCHeaderLen(blocks, data_at) ==
  LET spelled[k \in 0 .. Len(blocks)] ==
        IF k = 0 THEN 0
        ELSE spelled[k - 1] + Digits(Position(blocks, data_at, k)) + Digits(blocks[k].length)
  IN  FixedText + spelled[Len(blocks)]

Datas ==
  {[length |-> 0, packed |-> None], [length |-> 4, packed |-> None],
   [length |-> 4, packed |-> 9], [length |-> 880, packed |-> 3],
   [length |-> 880, packed |-> None], [length |-> 2000, packed |-> 5]}

Profiles == {None, [length |-> 100, packed |-> None], [length |-> 128, packed |-> None]}

Thumbnails == {None, [length |-> 7, packed |-> 5], [length |-> 2000, packed |-> 5]}

MCPendings ==
  [id : {"none"}, data : Datas, icc : Profiles, thumbnail : Thumbnails]
    \cup [id : {"Light"}, data : {[length |-> 4, packed |-> 9]}, icc : {None}, thumbnail : {None}]

\* A header that spells out later positions is not shorter: what WriterProofs asks of the
\* constant HeaderLen, on samples either side of every power of ten in reach.
ASSUME SpelledMonotone ==
  \A m, n \in {0, 4, 880, 2000} :
    LET blocks == <<[length |-> m], [length |-> n]>>
    IN  \A p \in 0 .. 1200 : MCHeaderLen(blocks, p) <= MCHeaderLen(blocks, p + 1)

Block(n, size) == [id |-> n, length |-> size, uncompressed |-> None]

MCCallerBlocks ==
  {<<>>, <<Block(7, 3), Block(7, 4)>>, <<Block(9, 2), Block(0, 0)>>,
   <<Block(0, 3), Block(5, 1), Block(2, 2)>>}
=============================================================================
