----------------------------- MODULE CodecProofs ------------------------------
(***************************************************************************)
(* Proofs about data blocks: shuffling is undone by unshuffling, and what  *)
(* a block is read back as, for every length, item size and split.         *)
(***************************************************************************)
EXTENDS Codec, SequenceTheorems, TLAPS

-----------------------------------------------------------------------------
(* Rows of w: x is item x \div w, byte x % w. *)

LEMMA RowOf ==
  ASSUME NEW x \in Nat, NEW w \in Nat \ {0}
  PROVE  x = (x \div w) * w + (x % w) /\ x % w \in 0 .. w - 1 /\ x \div w \in Nat
<1>1. x % w \in 0 .. w - 1
  OBVIOUS
<1>2. x = (x \div w) * w + (x % w)
  OBVIOUS
<1>3. x \div w \in Nat
  OBVIOUS
<1> QED BY <1>1, <1>2, <1>3

LEMMA RowUnique ==
  ASSUME NEW b \in Nat, NEW w \in Nat \ {0}, NEW r \in 0 .. w - 1
  PROVE  (b * w + r) \div w = b /\ (b * w + r) % w = r
OBVIOUS

LEMMA RowBound ==
  ASSUME NEW x \in Nat, NEW w \in Nat \ {0}, NEW h \in Nat, x < h * w
  PROVE  x \div w < h
OBVIOUS

LEMMA RowInside ==
  ASSUME NEW b \in Nat, NEW w \in Nat \ {0}, NEW h \in Nat \ {0}, b < h, NEW r \in 0 .. w - 1
  PROVE  b * w + r < h * w
OBVIOUS

\* An index into w rows of h, read column by column instead: where it goes, and back.
LEMMA Transposed ==
  ASSUME NEW h \in Nat \ {0}, NEW w \in Nat \ {0}, NEW j \in 1 .. h * w
  PROVE  LET k == ((j - 1) % w) * h + (j - 1) \div w + 1
         IN  k \in 1 .. h * w /\ ((k - 1) % h) * w + (k - 1) \div h + 1 = j
<1> DEFINE x == j - 1
           i == x \div w
           b == x % w
<1>1. h * w \in Nat /\ h * w = w * h
  OBVIOUS
<1>2. x \in Nat /\ x < h * w
  BY <1>1
<1> HIDE DEF x
<1>3. x = i * w + b /\ b \in 0 .. w - 1 /\ i \in Nat
  BY <1>2, RowOf
<1>4. i \in 0 .. h - 1
  BY <1>2, <1>3, RowBound
<1> HIDE DEF i, b
<1>5. (b * h + i) \div h = b /\ (b * h + i) % h = i
  BY <1>3, <1>4, RowUnique
<1>6. b * h + i < w * h /\ b * h + i \in Nat
  BY <1>3, <1>4, RowInside
<1>7. b * h + i + 1 \in 1 .. h * w /\ (b * h + i + 1) - 1 = b * h + i
  BY <1>1, <1>6
<1>8. i * w + b + 1 = j
  BY <1>3 DEF x
<1> QED BY <1>5, <1>7, <1>8 DEF x, i, b

\* Shuffling moves the bytes of whole items and no others.
LEMMA ShuffleShape ==
  ASSUME NEW S, NEW s \in Seq(S), NEW item \in Nat, ~Unshuffled(s, item)
  PROVE  /\ Shuffle(s, item) \in Seq(S) /\ Len(Shuffle(s, item)) = Len(s)
         /\ Unshuffle(s, item) \in Seq(S) /\ Len(Unshuffle(s, item)) = Len(s)
         /\ Len(s) \div item \in Nat \ {0}
         /\ (Len(s) \div item) * item <= Len(s)
         /\ item \in Nat \ {0}
<1> DEFINE count == Len(s) \div item
<1>1. Len(s) \in Nat /\ item \in Nat \ {0} /\ item <= Len(s)
  BY DEF Unshuffled
<1>2. /\ Len(s) = count * item + (Len(s) % item)
      /\ Len(s) % item \in 0 .. item - 1 /\ count \in Nat
  BY <1>1, RowOf
<1>3. count # 0 /\ count * item <= Len(s)
  BY <1>1, <1>2
<1> HIDE DEF count
<1>4. ASSUME NEW j \in 1 .. Len(s), ~(j > count * item)
      PROVE  /\ ((j - 1) % count) * item + (j - 1) \div count + 1 \in 1 .. Len(s)
             /\ ((j - 1) % item) * count + (j - 1) \div item + 1 \in 1 .. Len(s)
  <2>1. j \in 1 .. item * count /\ j \in 1 .. count * item /\ item * count = count * item
    BY <1>1, <1>2, <1>4
  <2>2. ((j - 1) % count) * item + (j - 1) \div count + 1 \in 1 .. item * count
    BY <1>1, <1>2, <1>3, <2>1, Transposed
  <2>3. ((j - 1) % item) * count + (j - 1) \div item + 1 \in 1 .. count * item
    BY <1>1, <1>2, <1>3, <2>1, Transposed
  <2> QED BY <1>1, <1>2, <1>3, <2>1, <2>2, <2>3
<1>5. Shuffle(s, item) \in [1 .. Len(s) -> S]
  BY <1>4 DEF Shuffle, count
<1>6. Unshuffle(s, item) \in [1 .. Len(s) -> S]
  BY <1>4 DEF Unshuffle, count
<1>7. /\ Shuffle(s, item) \in Seq(S) /\ Len(Shuffle(s, item)) = Len(s)
      /\ Unshuffle(s, item) \in Seq(S) /\ Len(Unshuffle(s, item)) = Len(s)
  BY <1>1, <1>5, <1>6
<1> QED BY <1>1, <1>2, <1>3, <1>7 DEF count

LEMMA SeqAt ==
  ASSUME NEW S, NEW s \in Seq(S), NEW k \in 1 .. Len(s)
  PROVE  s[k] \in S
OBVIOUS

LEMMA SeqWider ==
  ASSUME NEW S, NEW T, S \subseteq T, NEW s \in Seq(S)
  PROVE  s \in Seq(T)
<1>1. s \in [1 .. Len(s) -> T] /\ Len(s) \in Nat
  OBVIOUS
<1> QED BY <1>1

LEMMA SameSeq ==
  ASSUME NEW S, NEW s \in Seq(S), NEW t \in Seq(S), Len(s) = Len(t),
         \A j \in 1 .. Len(s) : s[j] = t[j]
  PROVE  s = t
OBVIOUS

\* Reading a shuffled block back gives the block: for every block and every item size
\* (codec::unshuffle after codec::shuffle).
THEOREM UnshuffleInvertsShuffle ==
  ASSUME NEW S, NEW s \in Seq(S), NEW item \in Nat
  PROVE  Unshuffle(Shuffle(s, item), item) = s
<1>1. CASE Unshuffled(s, item)
  BY <1>1 DEF Shuffle, Unshuffle
<1>2. CASE ~Unshuffled(s, item)
  <2> DEFINE t == Shuffle(s, item)
             count == Len(s) \div item
  <2>1. /\ t \in Seq(S) /\ Len(t) = Len(s) /\ Len(s) \in Nat
        /\ count \in Nat \ {0} /\ count * item <= Len(s) /\ item \in Nat \ {0}
    BY <1>2, ShuffleShape
  <2>2. ~Unshuffled(t, item)
    BY <1>2, <2>1 DEF Unshuffled
  <2>3. Unshuffle(t, item) \in Seq(S) /\ Len(Unshuffle(t, item)) = Len(s)
    BY <2>1, <2>2, ShuffleShape
  <2>4. \A j \in 1 .. Len(s) :
          t[j] = IF j > count * item THEN s[j]
                 ELSE s[((j - 1) % count) * item + (j - 1) \div count + 1]
    BY <1>2 DEF Shuffle
  <2> HIDE DEF t
  <2>5. \A j \in 1 .. Len(s) :
          Unshuffle(t, item)[j] =
            IF j > count * item THEN t[j]
            ELSE t[((j - 1) % item) * count + (j - 1) \div item + 1]
    BY <2>1, <2>2 DEF Unshuffle
  <2>6. ASSUME NEW j \in 1 .. Len(s) PROVE Unshuffle(t, item)[j] = s[j]
    <3>1. CASE j > count * item
      BY <2>4, <2>5, <3>1
    <3>2. CASE ~(j > count * item)
      <4> DEFINE k == ((j - 1) % item) * count + (j - 1) \div item + 1
      <4>1. j \in 1 .. count * item
        BY <2>1, <3>2
      <4>2. k \in 1 .. count * item /\ ((k - 1) % count) * item + (k - 1) \div count + 1 = j
        BY <2>1, <4>1, Transposed
      <4>3. Unshuffle(t, item)[j] = t[k]
        BY <2>5, <3>2
      <4> HIDE DEF k, count
      <4>4. k \in 1 .. Len(s) /\ ~(k > count * item)
        BY <2>1, <4>2
      <4>5. t[k] = s[((k - 1) % count) * item + (k - 1) \div count + 1]
        BY <2>4, <4>4
      <4> QED BY <4>2, <4>3, <4>5
    <3> QED BY <3>1, <3>2
  <2> HIDE DEF count
  <2>7. Unshuffle(t, item) = s
    BY <2>3, <2>6, SameSeq
  <2> QED BY <2>7 DEF t
<1> QED BY <1>1, <1>2

-----------------------------------------------------------------------------
(* Total, of the few lengths a block's streams or a table's subblocks have. *)

LEMMA LargestOf ==
  /\ Max({1}) = 1 /\ Max({2}) = 2 /\ Max({1, 2}) = 2
BY DEF Max

Added(lens, s) == (IF 1 \in s THEN lens[1] ELSE 0) + (IF 2 \in s THEN lens[2] ELSE 0)

LEMMA TotalOf ==
  ASSUME NEW lens, DOMAIN lens \in {{}, {1}, {1, 2}},
         \A k \in DOMAIN lens : lens[k] \in Nat
  PROVE  Total(lens) = Added(lens, DOMAIN lens)
<1> DEFINE D == DOMAIN lens
           Def(g) == g = [s \in SUBSET D |->
                            IF s = {} THEN 0
                            ELSE LET x == Max(s) IN g[s \ {x}] + lens[x]]
           sum == CHOOSE g : Def(g)
           f == [s \in SUBSET D |-> Added(lens, s)]
<1>1. Total(lens) = sum[D]
  BY DEF Total, FoldLeft, MapThenFoldSet
<1>2. ASSUME NEW s \in SUBSET D
      PROVE  f[s] = IF s = {} THEN 0 ELSE LET x == Max(s) IN f[s \ {x}] + lens[x]
  <2>1. s \in {{}, {1}, {2}, {1, 2}}
    OBVIOUS
  <2>2. f[s] = Added(lens, s)
    OBVIOUS
  <2>3. CASE s = {}
    BY <2>2, <2>3 DEF Added
  <2>4. CASE s = {1} \/ s = {2}
    <3>1. PICK x \in {1, 2} : s = {x}
      BY <2>4
    <3>2. Max(s) = x /\ x \in D /\ lens[x] \in Nat /\ s \ {x} = {} /\ {} \in SUBSET D
      BY <3>1, LargestOf
    <3>3. f[s \ {x}] = 0 /\ f[s] = lens[x]
      BY <2>2, <3>1, <3>2 DEF Added
    <3> HIDE DEF f
    <3>4. s # {} /\ 0 + lens[x] = lens[x]
      BY <3>1, <3>2
    <3> QED BY <3>2, <3>3, <3>4
  <2>5. CASE s = {1, 2}
    <3>1. Max(s) = 2 /\ s \ {2} = {1} /\ lens[1] \in Nat /\ lens[2] \in Nat /\ {1} \in SUBSET D
      BY <2>5, LargestOf
    <3>2. f[s \ {2}] = lens[1] /\ f[s] = lens[1] + lens[2]
      BY <2>2, <2>5, <3>1 DEF Added
    <3> HIDE DEF f
    <3> QED BY <2>5, <3>1, <3>2
  <2> QED BY <2>1, <2>3, <2>4, <2>5
<1>3. Def(f)
  BY <1>2
<1>4. Def(sum)
  <2> HIDE DEF Def, f
  <2> QED BY <1>3
<1>5. ASSUME NEW s \in SUBSET D
      PROVE  sum[s] = IF s = {} THEN 0 ELSE LET x == Max(s) IN sum[s \ {x}] + lens[x]
  <2> HIDE DEF sum
  <2> QED BY <1>4
<1> HIDE DEF sum
<1>6. sum[{}] = 0
  BY <1>5
<1>7. {1} \in SUBSET D => sum[{1}] = lens[1]
  <2> SUFFICES ASSUME {1} \in SUBSET D PROVE sum[{1}] = lens[1]
    OBVIOUS
  <2>1. Max({1}) = 1 /\ {1} \ {1} = {} /\ {1} # {} /\ 0 + lens[1] = lens[1]
    BY LargestOf
  <2>2. sum[{1}] = sum[{1} \ {Max({1})}] + lens[Max({1})]
    BY <1>5, <2>1
  <2> QED BY <1>6, <2>1, <2>2
<1>8. D = {1, 2} => sum[D] = lens[1] + lens[2]
  <2> SUFFICES ASSUME D = {1, 2} PROVE sum[D] = lens[1] + lens[2]
    OBVIOUS
  <2>1. Max({1, 2}) = 2 /\ {1, 2} \ {2} = {1} /\ {1} \in SUBSET D /\ {1, 2} # {}
    BY LargestOf
  <2>2. sum[{1, 2}] = sum[{1, 2} \ {Max({1, 2})}] + lens[Max({1, 2})]
    BY <1>5, <2>1
  <2> QED BY <1>7, <2>1, <2>2
<1> QED BY <1>1, <1>6, <1>7, <1>8 DEF Added

Bytes == Seq(Nat)
Stream == [stored : Nat, plain : Bytes \cup {None}]
Piece == [stored : Nat, plain : Nat]
Attr == [size : Nat, item : Nat, pieces : Seq(Piece)]

\* The stored bytes of up to two streams or subblocks, and of what precedes one of them.
LEMMA StoredTotal ==
  ASSUME NEW T, NEW parts \in Seq(T), Len(parts) \in 0 .. 2,
         \A k \in 1 .. Len(parts) : parts[k].stored \in Nat
  PROVE  /\ Len(parts) = 0 => Total(StoredLens(parts)) = 0
         /\ Len(parts) = 1 => Total(StoredLens(parts)) = parts[1].stored
         /\ Len(parts) = 2 => Total(StoredLens(parts)) = parts[1].stored + parts[2].stored
<1> DEFINE lens == StoredLens(parts)
<1>1. DOMAIN lens = 1 .. Len(parts) /\ \A k \in 1 .. Len(parts) : lens[k] = parts[k].stored
  BY DEF StoredLens
<1> HIDE DEF lens
<1>2. DOMAIN lens \in {{}, {1}, {1, 2}}
  BY <1>1
<1>3. Total(lens) = Added(lens, DOMAIN lens)
  BY <1>1, <1>2, TotalOf
<1>4. /\ Len(parts) = 0 => Total(lens) = 0
      /\ Len(parts) = 1 => Total(lens) = parts[1].stored
      /\ Len(parts) = 2 => Total(lens) = parts[1].stored + parts[2].stored
  BY <1>1, <1>3 DEF Added
<1> QED BY <1>4 DEF lens

LEMMA PlainTotal ==
  ASSUME NEW parts \in Seq(Piece), Len(parts) = 2
  PROVE  Total(PlainLens(parts)) = parts[1].plain + parts[2].plain
<1> DEFINE lens == PlainLens(parts)
<1>1. DOMAIN lens = 1 .. 2 /\ \A k \in 1 .. 2 : lens[k] = parts[k].plain
  BY DEF PlainLens
<1>2. \A k \in 1 .. 2 : parts[k] \in Piece
  BY SeqAt
<1> HIDE DEF lens
<1>3. DOMAIN lens = {1, 2} /\ \A k \in 1 .. 2 : lens[k] \in Nat
  BY <1>1, <1>2 DEF Piece
<1>4. Total(lens) = Added(lens, DOMAIN lens)
  BY <1>3, TotalOf
<1>5. Total(lens) = parts[1].plain + parts[2].plain
  BY <1>1, <1>3, <1>4 DEF Added
<1> QED BY <1>5 DEF lens

LEMMA StoredBefore ==
  ASSUME NEW T, NEW parts \in Seq(T), Len(parts) \in 1 .. 2, NEW k \in 1 .. Len(parts),
         \A j \in 1 .. Len(parts) : parts[j].stored \in Nat
  PROVE  Total(StoredLens(SubSeq(parts, 1, k - 1))) = IF k = 1 THEN 0 ELSE parts[1].stored
<1>1. PICK s : s = SubSeq(parts, 1, k - 1)
  OBVIOUS
<1>2. /\ s \in Seq(T) /\ Len(s) = k - 1
      /\ \A j \in 1 .. k - 1 : s[j] = parts[j]
  <2>1. \A j \in 1 .. k - 1 : parts[j] \in T
    OBVIOUS
  <2>2. 1 \in Int /\ k - 1 \in Int
    OBVIOUS
  <2> QED BY <1>1, <2>1, <2>2, SubSeqProperties
<1>3. \A j \in 1 .. Len(s) : s[j].stored \in Nat
  BY <1>2
<1>4. (Len(s) = 0 \/ Len(s) = 1) /\ Len(s) \in 0 .. 2
  BY <1>2
<1>5. /\ Len(s) = 0 => Total(StoredLens(s)) = 0
      /\ Len(s) = 1 => Total(StoredLens(s)) = s[1].stored
  <2>1. s \in Seq(T)
    BY <1>2
  <2> QED BY <1>3, <1>4, <2>1, StoredTotal
<1>6. Total(StoredLens(s)) = IF k = 1 THEN 0 ELSE parts[1].stored
  BY <1>2, <1>4, <1>5
<1> QED BY <1>1, <1>6

-----------------------------------------------------------------------------
(* What a decoder may return. *)

LEMMA SmallerOf ==
  ASSUME NEW a \in Nat, NEW b \in Nat
  PROVE  Min({a, b}) = IF a <= b THEN a ELSE b
BY DEF Min

LEMMA FrontOf ==
  ASSUME NEW S, NEW s \in Seq(S), NEW m \in 0 .. Len(s)
  PROVE  /\ SubSeq(s, 1, m) \in Seq(S) /\ Len(SubSeq(s, 1, m)) = m
         /\ m = Len(s) => SubSeq(s, 1, m) = s
<1>1. \A j \in 1 .. m : s[j] \in S
  OBVIOUS
<1>2. PICK t : t = SubSeq(s, 1, m)
  OBVIOUS
<1>3. t \in Seq(S) /\ Len(t) = m
  BY <1>1, <1>2, SubSeqProperties
<1>4. m = Len(s) => t = s
  BY <1>2, SubSeqFull
<1> QED BY <1>2, <1>3, <1>4

\* What a decoder makes of a stream that holds s, asked for `size` bytes: nothing, or bytes
\* that are one too many at most and are s itself if they are as many as were asked for.
LEMMA YieldOf ==
  ASSUME NEW s \in Bytes, NEW size \in Nat
  PROVE  /\ \A p \in Yield(s, size) :
              p # None => /\ p \in Bytes /\ Len(p) <= size + 1
                          /\ Len(p) = size => p = s
         /\ Len(s) = size => Yield(s, size) = {s}
<1>1. CASE codec = "lz4"
  BY <1>1 DEF Yield, Bytes
<1>2. CASE codec # "lz4"
  <2>1. Len(s) \in Nat
    BY DEF Bytes
  <2>2. PICK m : m = Min({Len(s), size + 1})
    OBVIOUS
  <2>3. m = IF Len(s) <= size + 1 THEN Len(s) ELSE size + 1
    BY <2>1, <2>2, SmallerOf
  <2>4. Yield(s, size) = {SubSeq(s, 1, m)}
    BY <1>2, <2>2 DEF Yield, OutputLimit
  <2>5. m \in 0 .. Len(s) /\ m <= size + 1 /\ (m = size => m = Len(s)) /\ (Len(s) = size => m = Len(s))
    BY <2>1, <2>3
  <2>6. SubSeq(s, 1, m) \in Seq(Nat) /\ Len(SubSeq(s, 1, m)) = m /\ (m = Len(s) => SubSeq(s, 1, m) = s)
    BY <2>5, FrontOf DEF Bytes
  <2> QED BY <2>4, <2>5, <2>6 DEF Bytes
<1> QED BY <1>1, <1>2

LEMMA PartsOf ==
  ASSUME NEW s \in Bytes, NEW len \in Nat, NEW p \in Parts(s, len)
  PROVE  p \in Bytes /\ Len(p) <= len * Ratio
<1>1. PICK m \in 0 .. Len(s) : p = SubSeq(s, 1, m)
  BY DEF Parts, Prefixes
<1>2. p \in Bytes
  BY <1>1, FrontOf DEF Bytes
<1> QED BY <1>2 DEF Parts

\* A result of the length that was asked for is all that a stream at `from` holds, or the
\* part of it that the stored bytes could hold.
Exact(d, from, len) ==
  \E k \in StreamsAt(from) :
    LET s == streams[k]
    IN  /\ s.plain # None
        /\ len < s.stored => d \in Parts(s.plain, len)
        /\ len >= s.stored => d = s.plain /\ (len > s.stored => codec # "lz4")

LEMMA DecodedOf ==
  ASSUME streams \in Seq(Stream), NEW from, NEW len \in Nat, NEW size \in Nat,
         NEW d \in Decoded(from, len, size), d # None
  PROVE  /\ d \in Bytes /\ Len(d) <= size + 1
         /\ Len(d) = size => Exact(d, from, len)
<1>1. PICK k \in StreamsAt(from) :
        /\ streams[k].plain # None
        /\ d \in (IF len < streams[k].stored
                  THEN {None} \cup UNION {Yield(p, size) : p \in Parts(streams[k].plain, len)}
                  ELSE IF len > streams[k].stored /\ codec = "lz4" THEN {None}
                  ELSE Yield(streams[k].plain, size))
  BY DEF Decoded
<1>2. PICK s : s = streams[k]
  OBVIOUS
<1>3. s \in Stream /\ s.plain \in Bytes /\ s.stored \in Nat
  <2>1. s \in Stream
    BY <1>2, SeqAt DEF StreamsAt
  <2> QED BY <1>1, <1>2, <2>1 DEF Stream
<1>4. CASE len < s.stored
  <2>1. PICK p \in Parts(s.plain, len) : d \in Yield(p, size)
    BY <1>1, <1>2, <1>4
  <2>2. p \in Bytes
    BY <1>3, PartsOf
  <2>3. d \in Bytes /\ Len(d) <= size + 1 /\ (Len(d) = size => d = p)
    BY <2>1, <2>2, YieldOf
  <2> QED BY <1>1, <1>2, <1>3, <1>4, <2>1, <2>3 DEF Exact
<1>5. CASE len >= s.stored
  <2>1. d \in Yield(s.plain, size) /\ (len > s.stored => codec # "lz4")
    BY <1>1, <1>2, <1>3, <1>5
  <2>2. d \in Bytes /\ Len(d) <= size + 1 /\ (Len(d) = size => d = s.plain)
    BY <1>3, <2>1, YieldOf
  <2> QED BY <1>1, <1>2, <1>3, <1>5, <2>1, <2>2 DEF Exact
<1> QED BY <1>3, <1>4, <1>5

-----------------------------------------------------------------------------
(* Types, and how far a block has come. *)

Pos == Nat \ {0}

TypeInv ==
  /\ data \in Seq(Pos) /\ codec \in Codecs /\ verify \in BOOLEAN
  /\ tampered \in {{}, {"stream"}, {"attribute"}, {"item"}}
  /\ phase \in {"write", "stored", "ceiling", "decompress", "check", "done"}
  /\ n \in 0 .. 2 /\ out \in Bytes
  /\ streams \in Seq(Stream) /\ Len(streams) \in 0 .. 2
  /\ attr \in Attr \cup {None} /\ (attr # None => Len(attr.pieces) \in {0, 2})
  /\ "stream" \notin tampered => \A k \in 1 .. Len(streams) : streams[k].plain \in Seq(Pos)
  /\ phase = "write" => tampered = {} /\ attr = None /\ streams = <<>> /\ digest = None
  /\ phase \in {"write", "stored", "ceiling"} => n = 0 /\ out = <<>>
  /\ phase \in {"ceiling", "decompress", "check"} => attr # None

LEMMA ShuffleType ==
  ASSUME NEW S, NEW s \in Seq(S), NEW item \in Nat
  PROVE  Shuffle(s, item) \in Seq(S) /\ Len(Shuffle(s, item)) = Len(s)
<1>1. CASE Unshuffled(s, item)
  BY <1>1 DEF Shuffle
<1>2. CASE ~Unshuffled(s, item)
  BY <1>2, ShuffleShape
<1> QED BY <1>1, <1>2

\* A sound stream: its stored bytes are at least one, and enough for what it holds.
Sound(s) == s.stored \in Pos /\ s.plain \in Seq(Pos) /\ Len(s.plain) <= s.stored * Ratio

\* How the two parts of a cut block make it up again.
LEMMA CutInTwo ==
  ASSUME NEW S, NEW s \in Seq(S), NEW cut \in 0 .. Len(s)
  PROVE  /\ SubSeq(s, 1, cut) \in Seq(S) /\ SubSeq(s, cut + 1, Len(s)) \in Seq(S)
         /\ SubSeq(s, 1, cut) \o SubSeq(s, cut + 1, Len(s)) = s
         /\ Len(SubSeq(s, 1, cut)) + Len(SubSeq(s, cut + 1, Len(s))) = Len(s)
<1>1. PICK m : m = Len(s)
  OBVIOUS
<1>2. PICK l : l = SubSeq(s, 1, cut)
  OBVIOUS
<1>3. PICK r : r = SubSeq(s, cut + 1, m)
  OBVIOUS
<1>4. m \in Nat /\ cut \in Nat /\ cut <= m /\ \A j \in 1 .. m : s[j] \in S
  BY <1>1
<1>5. l \in Seq(S) /\ Len(l) = cut /\ \A j \in 1 .. cut : l[j] = s[j]
  <2>1. \A j \in 1 .. cut : s[j] \in S
    BY <1>4
  <2> QED BY <1>2, <1>4, <2>1, SubSeqProperties
<1>6. r \in Seq(S) /\ Len(r) = m - cut /\ \A j \in 1 .. m - cut : r[j] = s[cut + j]
  <2>1. PICK i : i = cut + 1
    OBVIOUS
  <2>2. i \in Int /\ m \in Int /\ \A j \in i .. m : s[j] \in S
    BY <1>4, <2>1
  <2>3. /\ r \in Seq(S) /\ Len(r) = IF i <= m THEN m - i + 1 ELSE 0
        /\ \A j \in 1 .. m - i + 1 : r[j] = s[i + j - 1]
    BY <1>3, <2>1, <2>2, SubSeqProperties
  <2> QED BY <1>4, <2>1, <2>3
<1>7. PICK t : t = l \o r
  OBVIOUS
<1>8. /\ t \in Seq(S) /\ Len(t) = m
      /\ \A j \in 1 .. m : t[j] = IF j <= cut THEN l[j] ELSE r[j - cut]
  <2>1. /\ l \o r \in Seq(S) /\ Len(l \o r) = Len(l) + Len(r)
        /\ \A j \in 1 .. Len(l) + Len(r) : (l \o r)[j] = IF j <= Len(l) THEN l[j] ELSE r[j - Len(l)]
    BY <1>5, <1>6, ConcatProperties
  <2>2. Len(l) = cut /\ Len(l) + Len(r) = m
    BY <1>4, <1>5, <1>6
  <2> QED BY <1>7, <2>1, <2>2
<1>9. \A j \in 1 .. m : t[j] = s[j]
  <2>1. ASSUME NEW j \in 1 .. m
        PROVE  t[j] = s[j]
    <3>1. CASE j <= cut
      BY <1>4, <1>5, <1>8, <3>1
    <3>2. CASE ~(j <= cut)
      <4>1. j - cut \in 1 .. m - cut /\ cut + (j - cut) = j
        BY <1>4, <3>2
      <4> QED BY <1>6, <1>8, <3>2, <4>1
    <3> QED BY <3>1, <3>2
  <2> QED BY <2>1
<1>10. t = s
  BY <1>1, <1>8, <1>9, SameSeq
<1>11. Len(l) + Len(r) = m
  BY <1>4, <1>5, <1>6
<1> QED BY <1>1, <1>2, <1>3, <1>5, <1>6, <1>7, <1>10, <1>11

-----------------------------------------------------------------------------
(***************************************************************************)
(* What was stored, as long as no stored byte changed: the block itself,   *)
(* or the shuffled block st as one stream or as two, and an attribute that *)
(* is the writer's if nobody touched it.                                   *)
(***************************************************************************)
AsOne(st) ==
  /\ Len(streams) = 1 /\ Sound(streams[1]) /\ streams[1].plain = st
  /\ attr.pieces = <<>> \/ attr.size = Len(st)
  /\ tampered = {} => attr.pieces = <<>> /\ attr.size = Len(st)

AsTwo(st) ==
  /\ Len(streams) = 2 /\ Sound(streams[1]) /\ Sound(streams[2])
  /\ streams[1].plain \o streams[2].plain = st
  /\ Len(streams[1].plain) + Len(streams[2].plain) = Len(st)
  /\ Len(attr.pieces) = 2
  /\ attr.size = Len(st) \/ attr.pieces[1].plain + attr.pieces[2].plain = Len(st)
  /\ tampered = {} =>
       /\ attr.size = Len(st)
       /\ \A k \in 1 .. 2 : /\ attr.pieces[k].stored = streams[k].stored
                            /\ attr.pieces[k].plain = Len(streams[k].plain)

Stored(item) ==
  \/ attr = None /\ tampered = {} /\ streams = Plainly
  \/ /\ attr # None /\ (tampered # {"item"} => attr.item = Recorded(item))
     /\ AsOne(Shuffle(data, item)) \/ AsTwo(Shuffle(data, item))

\* What either way of writing leaves behind.
Wrote ==
  /\ phase = "write" /\ phase' = "stored" /\ tampered = {}
  /\ UNCHANGED <<data, codec, verify, tampered, n, out, result>>
  /\ streams' \in Seq(Stream) /\ Len(streams') \in 1 .. 2
  /\ \A k \in 1 .. Len(streams') : streams'[k].plain \in Seq(Pos)
  /\ attr' \in Attr \cup {None} /\ (attr' # None => Len(attr'.pieces) \in {0, 2})
  /\ digest' = None \/ digest'.of = streams'
  /\ \E item \in Nat : Stored(item)'

Unwritten ==
  /\ phase = "write" /\ phase' = "done" /\ result' = [ok |-> FALSE, error |-> "Unsupported"]
  /\ UNCHANGED <<data, codec, streams, attr, digest, verify, tampered, n, out>>

LEMMA WriteStores ==
  ASSUME TypeInv, NEW compress \in BOOLEAN, NEW item \in Items, NEW checksum \in BOOLEAN,
         Write(compress, item, checksum)
  PROVE  Wrote \/ Unwritten
<1>1. PICK st : st = Shuffle(data, item)
  OBVIOUS
<1>2. /\ item \in Nat /\ data \in Seq(Pos) /\ Len(data) \in Nat /\ Ratio \in Nat
      /\ st \in Seq(Pos) /\ Len(st) = Len(data) /\ Pos \subseteq Nat
  BY <1>1, CodecAssumption, ShuffleType DEF TypeInv, Pos
<1>3. st \in Bytes /\ data \in Bytes
  BY <1>2, SeqWider DEF Bytes
<1>4. phase = "write" /\ tampered = {}
  BY DEF Write, TypeInv
<1>5. ASSUME streams' = Plainly, attr' = None, phase' = "stored", Record(checksum),
             UNCHANGED <<data, codec, verify, tampered, n, out, result>>
      PROVE  Wrote
  <2>1. PICK s : s = [stored |-> Len(data), plain |-> data]
    OBVIOUS
  <2>2. s \in Stream /\ s.plain \in Seq(Pos)
    BY <1>2, <1>3, <2>1 DEF Stream
  <2>3. streams' = <<s>>
    BY <1>5, <2>1 DEF Plainly
  <2>4. streams' \in Seq(Stream) /\ Len(streams') = 1 /\ streams'[1] = s
    BY <2>2, <2>3
  <2>5. Stored(item)'
    BY <1>4, <1>5 DEF Stored, Plainly
  <2>6. \A k \in 1 .. Len(streams') : streams'[k].plain \in Seq(Pos)
    BY <2>2, <2>4
  <2>7. digest' = None \/ digest'.of = streams'
    BY <1>5 DEF Record
  <2> QED BY <1>2, <1>4, <1>5, <2>4, <2>5, <2>6, <2>7 DEF Wrote
<1>6. ASSUME NEW c \in CompressedLens(Len(st)), streams' = <<[stored |-> c, plain |-> st]>>,
             attr' = [size |-> Len(data), item |-> Recorded(item), pieces |-> <<>>],
             phase' = "stored", Record(checksum),
             UNCHANGED <<data, codec, verify, tampered, n, out, result>>
      PROVE  Wrote
  <2>1. PICK s : s = [stored |-> c, plain |-> st]
    OBVIOUS
  <2>2. c \in Pos /\ Len(st) <= c * Ratio
    BY <1>2 DEF CompressedLens, Pos
  <2>3. s \in Stream /\ s.plain \in Seq(Pos) /\ Sound(s) /\ s.plain = st
    BY <1>2, <1>3, <2>1, <2>2 DEF Stream, Sound, Pos
  <2>4. streams' = <<s>>
    BY <1>6, <2>1
  <2>5. streams' \in Seq(Stream) /\ Len(streams') = 1 /\ streams'[1] = s
    BY <2>3, <2>4
  <2>6. /\ attr' \in Attr /\ attr'.pieces = <<>> /\ attr'.size = Len(st)
        /\ attr'.item = Recorded(item)
    <3>1. Recorded(item) \in Nat /\ <<>> \in Seq(Piece)
      BY <1>2 DEF Recorded
    <3> QED BY <1>2, <1>6, <3>1 DEF Attr
  <2>7. attr' # None
    BY <2>6, NoneAssumption DEF Attr, Piece
  <2>8. Stored(item)'
    <3>1. AsOne(st)'
      BY <1>2, <2>3, <2>5, <2>6 DEF AsOne
    <3>2. AsOne(Shuffle(data, item))'
      BY <1>1, <1>6, <3>1 DEF AsOne
    <3> QED BY <2>6, <2>7, <3>2 DEF Stored
  <2>9. digest' = None \/ digest'.of = streams'
    BY <1>6 DEF Record
  <2>10. \A k \in 1 .. Len(streams') : streams'[k].plain \in Seq(Pos)
    BY <2>3, <2>5
  <2> QED BY <1>2, <1>4, <1>6, <2>5, <2>6, <2>8, <2>9, <2>10 DEF Wrote
<1>7. CASE /\ compress /\ Len(st) > InputLimit /\ Fail("Unsupported")
           /\ UNCHANGED <<streams, attr, digest>>
  BY <1>1, <1>7 DEF Write, Fail, Unwritten
<1>8. CASE /\ ~compress /\ streams' = Plainly /\ attr' = None
           /\ phase' = "stored" /\ Record(checksum) /\ UNCHANGED result
  BY <1>5, <1>8 DEF Write
<1>9. CASE /\ \E c \in CompressedLens(Len(st)) :
                IF c >= Len(data)
                THEN streams' = Plainly /\ attr' = None
                ELSE /\ streams' = <<[stored |-> c, plain |-> st]>>
                     /\ attr' = [size |-> Len(data), item |-> Recorded(item), pieces |-> <<>>]
           /\ phase' = "stored" /\ Record(checksum) /\ UNCHANGED result
  BY <1>5, <1>6, <1>9 DEF Write
<1> QED BY <1>1, <1>7, <1>8, <1>9 DEF Write

LEMMA SplitStores ==
  ASSUME TypeInv, NEW cut, NEW item \in Items, NEW checksum \in BOOLEAN,
         WriteSplit(cut, item, checksum)
  PROVE  Wrote
<1>1. PICK st : st = Shuffle(data, item)
  OBVIOUS
<1>2. /\ item \in Nat /\ data \in Seq(Pos) /\ Len(data) \in Nat /\ Ratio \in Nat
      /\ st \in Seq(Pos) /\ Len(st) = Len(data) /\ Pos \subseteq Nat
  BY <1>1, CodecAssumption, ShuffleType DEF TypeInv, Pos
<1>3. phase = "write" /\ tampered = {} /\ cut \in 0 .. Len(st)
  BY <1>2 DEF WriteSplit, TypeInv
<1>4. PICK left : left = SubSeq(st, 1, cut)
  OBVIOUS
<1>5. PICK right : right = SubSeq(st, cut + 1, Len(st))
  OBVIOUS
<1>6. /\ left \in Seq(Pos) /\ right \in Seq(Pos) /\ left \o right = st
      /\ Len(left) + Len(right) = Len(st) /\ Len(left) \in Nat /\ Len(right) \in Nat
  <2>1. left \in Seq(Pos) /\ right \in Seq(Pos) /\ left \o right = st /\ Len(left) + Len(right) = Len(st)
    BY <1>2, <1>3, <1>4, <1>5, CutInTwo
  <2> QED BY <2>1
<1>7. left \in Bytes /\ right \in Bytes
  BY <1>2, <1>6, SeqWider DEF Bytes
<1>8. PICK c \in CompressedLens(Len(left)) : \E d \in CompressedLens(Len(right)) :
        /\ streams' = <<[stored |-> c, plain |-> left], [stored |-> d, plain |-> right]>>
        /\ attr' = [size |-> Len(data), item |-> Recorded(item),
                    pieces |-> <<[stored |-> c, plain |-> Len(left)],
                                 [stored |-> d, plain |-> Len(right)]>>]
  BY <1>1, <1>4, <1>5 DEF WriteSplit
<1>9. PICK d \in CompressedLens(Len(right)) :
        /\ streams' = <<[stored |-> c, plain |-> left], [stored |-> d, plain |-> right]>>
        /\ attr' = [size |-> Len(data), item |-> Recorded(item),
                    pieces |-> <<[stored |-> c, plain |-> Len(left)],
                                 [stored |-> d, plain |-> Len(right)]>>]
  BY <1>8
<1>10. /\ c \in Pos /\ Len(left) <= c * Ratio
       /\ d \in Pos /\ Len(right) <= d * Ratio
  BY <1>6 DEF CompressedLens, Pos
<1>11. PICK s : s = [stored |-> c, plain |-> left]
  OBVIOUS
<1>12. PICK t : t = [stored |-> d, plain |-> right]
  OBVIOUS
<1>13. /\ s \in Stream /\ s.plain = left /\ s.stored = c /\ Sound(s)
       /\ t \in Stream /\ t.plain = right /\ t.stored = d /\ Sound(t)
  BY <1>2, <1>6, <1>7, <1>10, <1>11, <1>12 DEF Stream, Sound
<1>14. /\ streams' \in Seq(Stream) /\ Len(streams') = 2
       /\ streams'[1] = s /\ streams'[2] = t
  <2>1. streams' = <<s, t>>
    BY <1>9, <1>11, <1>12
  <2> QED BY <1>13, <2>1
<1>15. PICK p : p = [stored |-> c, plain |-> Len(left)]
  OBVIOUS
<1>16. PICK q : q = [stored |-> d, plain |-> Len(right)]
  OBVIOUS
<1>17. /\ p \in Piece /\ p.stored = c /\ p.plain = Len(left)
       /\ q \in Piece /\ q.stored = d /\ q.plain = Len(right)
  BY <1>2, <1>6, <1>10, <1>15, <1>16 DEF Piece
<1>18. /\ attr' \in Attr /\ attr'.size = Len(st) /\ attr'.item = Recorded(item)
       /\ Len(attr'.pieces) = 2 /\ attr'.pieces[1] = p /\ attr'.pieces[2] = q
  <2>1. PICK ps : ps = <<p, q>>
    OBVIOUS
  <2>2. ps \in Seq(Piece) /\ Len(ps) = 2 /\ ps[1] = p /\ ps[2] = q
    BY <1>17, <2>1
  <2>3. attr' = [size |-> Len(data), item |-> Recorded(item), pieces |-> ps]
    BY <1>9, <1>15, <1>16, <2>1
  <2>4. Recorded(item) \in Nat
    BY <1>2 DEF Recorded
  <2> QED BY <1>2, <2>2, <2>3, <2>4 DEF Attr
<1>19. attr' # None
  BY <1>18, NoneAssumption DEF Attr, Piece
<1>20. /\ phase' = "stored" /\ Record(checksum)
       /\ UNCHANGED <<data, codec, verify, tampered, n, out, result>>
  BY DEF WriteSplit
<1>21. AsTwo(st)'
  <2>1. \A k \in 1 .. 2 : /\ attr'.pieces[k].stored = streams'[k].stored
                          /\ attr'.pieces[k].plain = Len(streams'[k].plain)
    BY <1>13, <1>14, <1>17, <1>18
  <2> QED BY <1>6, <1>13, <1>14, <1>18, <2>1 DEF AsTwo
<1>22. Stored(item)'
  <2>1. AsTwo(Shuffle(data, item))'
    BY <1>1, <1>20, <1>21 DEF AsTwo
  <2> QED BY <1>18, <1>19, <2>1 DEF Stored
<1>23. \A k \in 1 .. Len(streams') : streams'[k].plain \in Seq(Pos)
  <2>1. \A k \in 1 .. Len(streams') : k = 1 \/ k = 2
    BY <1>14
  <2> QED BY <1>6, <1>13, <1>14, <2>1
<1>24. digest' = None \/ digest'.of = streams'
  BY <1>20 DEF Record
<1>25. /\ streams' \in Seq(Stream) /\ Len(streams') \in 1 .. 2
       /\ attr' \in Attr \cup {None} /\ (attr' # None => Len(attr'.pieces) \in {0, 2})
  BY <1>14, <1>18
<1> QED BY <1>2, <1>3, <1>20, <1>22, <1>23, <1>24, <1>25 DEF Wrote

-----------------------------------------------------------------------------
(* What can happen to a block while it is stored. *)

\* A damaged stream does not hold what it held.
LEMMA DamagedOf ==
  ASSUME NEW s \in Seq(Pos), NEW other \in Damaged(s)
  PROVE  other \in Bytes \cup {None} /\ other # s
<1>1. s \in Bytes /\ Len(s) \in Nat
  BY SeqWider DEF Bytes, Pos
<1>2. CASE other = None
  BY <1>1, <1>2, NoneAssumption DEF Bytes
<1>3. CASE other = Append(s, 0)
  <2>1. Append(s, 0) \in Bytes /\ Len(Append(s, 0)) = Len(s) + 1
    BY <1>1 DEF Bytes
  <2> QED BY <1>1, <1>3, <2>1
<1>4. CASE s # <<>> /\ other = Front(s)
  <2>1. Len(s) # 0
    BY <1>4, EmptySeq
  <2>2. Len(s) - 1 \in 0 .. Len(s) /\ Len(s) - 1 # Len(s)
    BY <1>1, <2>1
  <2>3. PICK m : m = Len(s) - 1
    OBVIOUS
  <2>4. SubSeq(s, 1, m) \in Seq(Nat) /\ Len(SubSeq(s, 1, m)) = m
    BY <1>1, <2>2, <2>3, FrontOf DEF Bytes
  <2>5. other = SubSeq(s, 1, m)
    BY <1>4, <2>3 DEF Front
  <2> QED BY <2>2, <2>3, <2>4, <2>5 DEF Bytes
<1>5. CASE s # <<>> /\ other = [s EXCEPT ![1] = 0]
  <2>1. Len(s) # 0 /\ 1 \in 1 .. Len(s)
    BY <1>1, <1>5, EmptySeq
  <2>2. s[1] \in Pos /\ other[1] = 0
    BY <1>5, <2>1, SeqAt
  <2>3. other \in Seq(Nat)
    BY <1>1, <1>5 DEF Bytes
  <2> QED BY <2>2, <2>3 DEF Bytes, Pos
<1> QED BY <1>2, <1>3, <1>4, <1>5 DEF Damaged

Tampered ==
  /\ phase = "stored" /\ tampered = {}
  /\ UNCHANGED <<data, codec, digest, verify, phase, n, out, result>>
  /\ \/ /\ tampered' = {"stream"} /\ attr' = attr
        /\ streams' \in Seq(Stream) /\ Len(streams') = Len(streams) /\ streams' # streams
     \/ /\ tampered' = {"attribute"} /\ streams' = streams
        /\ attr # None /\ attr' # None /\ attr' \in Attr /\ attr'.item = attr.item
        /\ \/ attr'.pieces = attr.pieces
           \/ attr'.size = attr.size /\ Len(attr'.pieces) = 2
     \/ /\ tampered' = {"item"} /\ streams' = streams
        /\ attr # None /\ attr' # None /\ attr' \in Attr
        /\ attr'.size = attr.size /\ attr'.pieces = attr.pieces

LEMMA StoredLenIsNat ==
  ASSUME TypeInv
  PROVE  StoredLen \in Nat
<1>1. /\ streams \in Seq(Stream) /\ Len(streams) \in 0 .. 2
      /\ \A k \in 1 .. Len(streams) : streams[k].stored \in Nat
  <2>1. streams \in Seq(Stream) /\ Len(streams) \in 0 .. 2
    BY DEF TypeInv
  <2>2. \A k \in 1 .. Len(streams) : streams[k] \in Stream
    BY <2>1, SeqAt
  <2> QED BY <2>1, <2>2 DEF Stream
<1>2. /\ Len(streams) = 0 => Total(StoredLens(streams)) = 0
      /\ Len(streams) = 1 => Total(StoredLens(streams)) = streams[1].stored
      /\ Len(streams) = 2 => Total(StoredLens(streams)) = streams[1].stored + streams[2].stored
  BY <1>1, StoredTotal
<1>3. CASE Len(streams) = 0
  BY <1>2, <1>3 DEF StoredLen
<1>4. CASE Len(streams) = 1
  BY <1>1, <1>2, <1>4 DEF StoredLen
<1>5. CASE Len(streams) = 2
  BY <1>1, <1>2, <1>5 DEF StoredLen
<1> QED BY <1>1, <1>3, <1>4, <1>5

LEMMA TamperingOf ==
  ASSUME TypeInv, DamageStream \/ MisstateSize \/ MisstatePieces \/ MisstateItem
  PROVE  Tampered
<1>1. CASE DamageStream
  <2>1. PICK k \in 1 .. Len(streams) : \E other \in Damaged(streams[k].plain) :
          streams' = [streams EXCEPT ![k].plain = other]
    BY <1>1 DEF DamageStream
  <2>2. PICK other \in Damaged(streams[k].plain) : streams' = [streams EXCEPT ![k].plain = other]
    BY <2>1
  <2>3. streams \in Seq(Stream) /\ streams[k] \in Stream /\ streams[k].plain \in Seq(Pos)
    BY <1>1, SeqAt DEF DamageStream, TypeInv
  <2>4. other \in Bytes \cup {None} /\ other # streams[k].plain
    BY <2>3, DamagedOf
  <2>5. PICK s : s = [streams[k] EXCEPT !.plain = other]
    OBVIOUS
  <2>6. s \in Stream /\ s # streams[k]
    <3>1. s.plain = other
      BY <2>3, <2>5 DEF Stream
    <3> QED BY <2>3, <2>4, <2>5, <3>1 DEF Stream
  <2>7. streams' = [streams EXCEPT ![k] = s]
    BY <2>2, <2>5
  <2>8. streams' \in Seq(Stream) /\ Len(streams') = Len(streams) /\ streams'[k] = s
    BY <2>3, <2>6, <2>7
  <2> QED BY <1>1, <2>6, <2>8 DEF DamageStream, Tampered
<1>2. CASE MisstateSize
  <2>1. attr \in Attr /\ attr # None
    BY <1>2 DEF MisstateSize, TypeInv
  <2>2. PICK size \in 0 .. MaxLen + 2 : attr' = [attr EXCEPT !.size = size]
    BY <1>2 DEF MisstateSize
  <2>3. size \in Nat
    BY CodecAssumption
  <2>4. attr' \in Attr /\ attr'.item = attr.item /\ attr'.pieces = attr.pieces
    BY <2>1, <2>2, <2>3 DEF Attr
  <2>5. attr' # None
    BY <2>4, NoneAssumption DEF Attr, Piece
  <2> QED BY <1>2, <2>1, <2>4, <2>5 DEF MisstateSize, Tampered
<1>3. CASE MisstatePieces
  <2>1. attr \in Attr /\ attr # None /\ attr.size \in Nat /\ StoredLen \in Nat
    BY <1>3, StoredLenIsNat DEF MisstatePieces, TypeInv, Attr
  <2>2. PICK a \in 0 .. StoredLen : \E b \in 0 .. attr.size, x, y \in 0 .. 1 :
          attr' = [attr EXCEPT !.pieces =
                     <<[stored |-> a, plain |-> b],
                       [stored |-> StoredLen - a + x, plain |-> attr.size - b + y]>>]
    BY <1>3 DEF MisstatePieces
  <2>3. PICK b \in 0 .. attr.size : \E x, y \in 0 .. 1 :
          attr' = [attr EXCEPT !.pieces =
                     <<[stored |-> a, plain |-> b],
                       [stored |-> StoredLen - a + x, plain |-> attr.size - b + y]>>]
    BY <2>2
  <2>4. PICK x \in 0 .. 1, y \in 0 .. 1 :
          attr' = [attr EXCEPT !.pieces =
                     <<[stored |-> a, plain |-> b],
                       [stored |-> StoredLen - a + x, plain |-> attr.size - b + y]>>]
    BY <2>3
  <2>5. PICK p : p = [stored |-> a, plain |-> b]
    OBVIOUS
  <2>6. PICK q : q = [stored |-> StoredLen - a + x, plain |-> attr.size - b + y]
    OBVIOUS
  <2>7. p \in Piece /\ q \in Piece
    <3>1. /\ a \in Nat /\ b \in Nat /\ StoredLen - a + x \in Nat /\ attr.size - b + y \in Nat
      <4> HIDE DEF StoredLen
      <4> QED BY <2>1
    <3> QED BY <2>5, <2>6, <3>1 DEF Piece
  <2>8. PICK ps : ps = <<p, q>>
    OBVIOUS
  <2>9. ps \in Seq(Piece) /\ Len(ps) = 2
    BY <2>7, <2>8
  <2>10. attr' = [attr EXCEPT !.pieces = ps]
    BY <2>4, <2>5, <2>6, <2>8
  <2>11. attr' \in Attr /\ attr'.item = attr.item /\ attr'.size = attr.size /\ attr'.pieces = ps
    BY <2>1, <2>9, <2>10 DEF Attr
  <2>12. attr' # None
    BY <2>11, NoneAssumption DEF Attr, Piece
  <2> QED BY <1>3, <2>1, <2>9, <2>11, <2>12 DEF MisstatePieces, Tampered
<1>4. CASE MisstateItem
  <2>1. attr \in Attr /\ attr # None
    BY <1>4 DEF MisstateItem, TypeInv
  <2>2. PICK item \in Items : attr' = [attr EXCEPT !.item = Recorded(item)]
    BY <1>4 DEF MisstateItem
  <2>3. Recorded(item) \in Nat
    BY CodecAssumption DEF Recorded
  <2>4. attr' \in Attr /\ attr'.size = attr.size /\ attr'.pieces = attr.pieces
    BY <2>1, <2>2, <2>3 DEF Attr
  <2>5. attr' # None
    BY <2>4, NoneAssumption DEF Attr, Piece
  <2> QED BY <1>4, <2>1, <2>4, <2>5 DEF MisstateItem, Tampered
<1> QED BY <1>1, <1>2, <1>3, <1>4

-----------------------------------------------------------------------------
(* What reading does. *)

Untouched == UNCHANGED <<data, codec, streams, attr, digest, verify, tampered>>

LEMMA AttrLen ==
  ASSUME TypeInv, attr # None
  PROVE  /\ attr \in Attr /\ attr.size \in Nat /\ attr.pieces \in Seq(Piece)
         /\ Len(attr.pieces) \in {0, 2}
BY DEF TypeInv, Attr

LEMMA AttrOf ==
  ASSUME TypeInv, attr # None
  PROVE  /\ attr \in Attr /\ attr.size \in Nat /\ attr.pieces \in Seq(Piece)
         /\ Len(attr.pieces) \in {0, 2} /\ (attr.pieces = <<>> <=> Len(attr.pieces) = 0)
         /\ Len(attr.pieces) = 2 =>
              \A k \in 1 .. 2 : /\ attr.pieces[k].stored \in Nat /\ attr.pieces[k].plain \in Nat
                                /\ attr.pieces[k] \in Piece
<1>1. attr \in Attr /\ attr.size \in Nat /\ attr.pieces \in Seq(Piece) /\ Len(attr.pieces) \in {0, 2}
  BY AttrLen
<1>2. Len(attr.pieces) = 2 => \A k \in 1 .. 2 : attr.pieces[k] \in Piece
  BY <1>1, SeqAt
<1>3. attr.pieces = <<>> <=> Len(attr.pieces) = 0
  BY <1>1, EmptySeq
<1> QED BY <1>1, <1>2, <1>3 DEF Piece

\* The stored bytes before a subblock, and the subblock.
FromOf(k) == IF k = 0 THEN 0 ELSE attr.pieces[1].stored

LEMMA SubblockReads ==
  ASSUME TypeInv, DecompressSubblock
  PROVE  /\ phase = "decompress" /\ Untouched
         /\ Len(attr.pieces) = 2 /\ n \in 0 .. 1
         /\ \E plain \in Decoded(FromOf(n), attr.pieces[n + 1].stored, attr.pieces[n + 1].plain) :
              \/ /\ plain = None \/ Len(plain) # attr.pieces[n + 1].plain
                 /\ Decline("Compression")
              \/ /\ plain # None /\ Len(plain) = attr.pieces[n + 1].plain
                 /\ out' = out \o plain /\ n' = n + 1
                 /\ phase' = IF n = 1 THEN "check" ELSE "decompress"
                 /\ UNCHANGED result
<1>1. phase = "decompress" /\ Untouched /\ attr # None /\ n < Len(attr.pieces) /\ n \in 0 .. 2
  BY DEF DecompressSubblock, Untouched, TypeInv
<1>2. Len(attr.pieces) = 2 /\ n \in 0 .. 1 /\ attr.pieces \in Seq(Piece)
  <2>1. attr.pieces \in Seq(Piece)
    BY <1>1, AttrLen
  <2>2. Len(attr.pieces) = 0 \/ Len(attr.pieces) = 2
    BY <1>1, AttrLen
  <2>3. CASE Len(attr.pieces) = 0
    BY <1>1, <2>3
  <2>4. CASE Len(attr.pieces) = 2
    BY <1>1, <2>1, <2>4
  <2> QED BY <2>2, <2>3, <2>4
<1>3. \A k \in 1 .. 2 : attr.pieces[k].stored \in Nat
  BY <1>1, <1>2, AttrOf
<1>4. Total(StoredLens(SubSeq(attr.pieces, 1, n))) = FromOf(n)
  <2>1. PICK k : k = n + 1
    OBVIOUS
  <2>2. k \in 1 .. Len(attr.pieces) /\ Len(attr.pieces) \in 1 .. 2 /\ k - 1 = n
    BY <1>2, <2>1
  <2>3. Total(StoredLens(SubSeq(attr.pieces, 1, k - 1))) = IF k = 1 THEN 0 ELSE attr.pieces[1].stored
    BY <1>2, <1>3, <2>2, StoredBefore
  <2> QED BY <1>2, <2>1, <2>2, <2>3 DEF FromOf
<1>5. PICK plain \in Decoded(FromOf(n), attr.pieces[n + 1].stored, attr.pieces[n + 1].plain) :
        IF plain = None \/ Len(plain) # attr.pieces[n + 1].plain
        THEN Decline("Compression")
        ELSE /\ out' = out \o plain
             /\ n' = n + 1
             /\ phase' = IF n + 1 = Len(attr.pieces) THEN "check" ELSE phase
             /\ UNCHANGED result
  BY <1>4 DEF DecompressSubblock
<1> QED BY <1>1, <1>2, <1>5

LEMMA TypeStep ==
  ASSUME TypeInv, [Next]_vars
  PROVE  TypeInv'
<1>1. CASE Wrote
  <2>1. Len(streams') \in 0 .. 2 /\ tampered' = {} /\ phase = "write"
    BY <1>1 DEF Wrote
  <2> QED BY <1>1, <2>1 DEF Wrote, TypeInv
<1>2. CASE Unwritten
  BY <1>2 DEF Unwritten, TypeInv
<1>3. CASE Tampered
  <2>1. attr' # None => Len(attr'.pieces) \in {0, 2}
    BY <1>3 DEF Tampered, TypeInv
  <2> QED BY <1>3, <2>1 DEF Tampered, TypeInv
<1>4. CASE ReadStored
  BY <1>4 DEF ReadStored, Decline, Fail, TypeInv
<1>5. CASE CheckClaims
  BY <1>5 DEF CheckClaims, Decline, Fail, TypeInv
<1>6. CASE DecompressWhole
  <2>1. PICK plain \in Decoded(0, StoredLen, attr.size) :
          IF plain = None THEN Decline("Compression")
          ELSE out' = plain /\ phase' = "check" /\ UNCHANGED <<n, result>>
    BY <1>6 DEF DecompressWhole
  <2>2. phase = "decompress" /\ Untouched /\ attr # None
    BY <1>6 DEF DecompressWhole, Untouched, TypeInv
  <2>3. plain # None => plain \in Bytes
    <3>1. StoredLen \in Nat /\ attr.size \in Nat /\ streams \in Seq(Stream)
      BY <2>2, StoredLenIsNat, AttrOf DEF TypeInv
    <3> QED BY <3>1, DecodedOf
  <2>4. /\ n' = n /\ (phase' = "check" \/ phase' = "done") /\ out' \in Bytes
    BY <2>1, <2>3 DEF Decline, Fail, TypeInv
  <2> QED BY <2>2, <2>4 DEF Untouched, TypeInv
<1>7. CASE DecompressSubblock
  <2>1. /\ phase = "decompress" /\ Untouched /\ attr # None
        /\ Len(attr.pieces) = 2 /\ n \in 0 .. 1
    BY <1>7, SubblockReads DEF TypeInv
  <2>2. PICK plain \in Decoded(FromOf(n), attr.pieces[n + 1].stored, attr.pieces[n + 1].plain) :
              \/ Decline("Compression")
              \/ /\ plain # None /\ out' = out \o plain /\ n' = n + 1
                 /\ phase' = IF n = 1 THEN "check" ELSE "decompress"
    BY <1>7, SubblockReads
  <2>3. plain # None => plain \in Bytes
    <3>1. n + 1 \in 1 .. 2 /\ streams \in Seq(Stream)
      BY <2>1 DEF TypeInv
    <3>2. attr.pieces[n + 1].stored \in Nat /\ attr.pieces[n + 1].plain \in Nat
      BY <2>1, <3>1, AttrOf
    <3> QED BY <3>1, <3>2, DecodedOf
  <2>4. /\ n' \in 0 .. 2 /\ phase' \in {"check", "decompress", "done"} /\ out' \in Bytes
    <3>1. plain # None => out \o plain \in Bytes
      BY <2>3, ConcatProperties DEF Bytes, TypeInv
    <3>2. CASE Decline("Compression")
      BY <2>1, <3>2 DEF Decline, Fail, TypeInv
    <3>3. CASE /\ plain # None /\ out' = out \o plain /\ n' = n + 1
               /\ phase' = IF n = 1 THEN "check" ELSE "decompress"
      <4>1. n' \in 0 .. 2
        BY <2>1, <3>3
      <4> QED BY <3>1, <3>3, <4>1
    <3> QED BY <2>2, <3>2, <3>3
  <2> QED BY <2>1, <2>4 DEF Untouched, TypeInv
<1>8. CASE FinishDecode
  BY <1>8 DEF FinishDecode, Decline, Fail, TypeInv
<1>9. CASE Done \/ UNCHANGED vars
  BY <1>9 DEF Done, vars, TypeInv
<1>10. CASE \/ \E item \in Items, checksum \in BOOLEAN :
                 \/ \E compress \in BOOLEAN : Write(compress, item, checksum)
                 \/ \E cut \in 0 .. MaxLen : WriteSplit(cut, item, checksum)
            \/ DamageStream \/ MisstateSize \/ MisstatePieces \/ MisstateItem
  BY <1>1, <1>2, <1>3, <1>10, WriteStores, SplitStores, TamperingOf
<1> QED BY <1>4, <1>5, <1>6, <1>7, <1>8, <1>9, <1>10 DEF Next

LEMMA InitType == Init => TypeInv
<1> SUFFICES ASSUME Init PROVE TypeInv
  OBVIOUS
<1>1. data \in Seq(Pos)
  <2>1. PICK len \in 0 .. MaxLen : data = Block(len)
    BY DEF Init
  <2>2. len \in Nat /\ data \in [1 .. len -> Pos]
    BY <2>1, CodecAssumption DEF Block, Pos
  <2> QED BY <2>2
<1>2. <<>> \in Seq(Nat) /\ <<>> \in Seq(Stream) /\ Len(<<>>) = 0
  OBVIOUS
<1> QED BY <1>1, <1>2 DEF Init, TypeInv, Bytes

LEMMA TypeHolds == Spec => []TypeInv
BY InitType, TypeStep, PTL DEF Spec

-----------------------------------------------------------------------------
(***************************************************************************)
(* The checksum covers the bytes that were stored, so it matches them just *)
(* as long as none has changed.                                            *)
(***************************************************************************)
DigestInv ==
  /\ phase # "write" /\ "stream" \notin tampered => digest = None \/ digest.of = streams
  /\ "stream" \in tampered => digest = None \/ digest.of # streams
  /\ DamageDetected

LEMMA DigestStep ==
  ASSUME TypeInv, DigestInv, [Next]_vars
  PROVE  DigestInv'
<1>1. CASE Wrote \/ Unwritten
  <2>1. CASE Wrote
    BY <2>1 DEF Wrote, DigestInv, DamageDetected
  <2>2. CASE Unwritten
    BY <2>2 DEF Unwritten, DigestInv, DamageDetected, TypeInv
  <2> QED BY <1>1, <2>1, <2>2
<1>2. CASE Tampered
  BY <1>2 DEF Tampered, DigestInv, DamageDetected
<1>3. CASE ReadStored
  BY <1>3 DEF ReadStored, Decline, Fail, DigestInv, DamageDetected
<1>4. CASE CheckClaims \/ DecompressWhole \/ DecompressSubblock \/ FinishDecode
  <2>1. phase \in {"ceiling", "decompress", "check"} /\ Untouched
    BY <1>4 DEF CheckClaims, DecompressWhole, DecompressSubblock, FinishDecode, Untouched
  <2>2. ~("stream" \in tampered /\ verify /\ digest # None)
    BY <2>1 DEF DigestInv, DamageDetected
  <2> QED BY <2>1, <2>2 DEF Untouched, DigestInv, DamageDetected
<1>5. CASE Done \/ UNCHANGED vars
  BY <1>5 DEF Done, vars, DigestInv, DamageDetected
<1>6. CASE \/ \E item \in Items, checksum \in BOOLEAN :
                \/ \E compress \in BOOLEAN : Write(compress, item, checksum)
                \/ \E cut \in 0 .. MaxLen : WriteSplit(cut, item, checksum)
           \/ DamageStream \/ MisstateSize \/ MisstatePieces \/ MisstateItem
  BY <1>1, <1>2, <1>6, WriteStores, SplitStores, TamperingOf
<1> QED BY <1>3, <1>4, <1>5, <1>6 DEF Next

\* A checksum that is recorded and looked at catches every change of the stored bytes,
\* and does so before any of them is decompressed.
THEOREM ChecksumCatchesDamage == Spec => []DamageDetected
<1>1. Init => DigestInv
  BY DEF Init, DigestInv, DamageDetected
<1>2. TypeInv /\ DigestInv /\ [Next]_vars => DigestInv'
  BY DigestStep
<1>3. DigestInv => DamageDetected
  BY DEF DigestInv
<1> QED BY <1>1, <1>2, <1>3, TypeHolds, PTL DEF Spec

-----------------------------------------------------------------------------
(***************************************************************************)
(* How much has been decompressed: as much as the subblocks so far say, or *)
(* one byte more than the attribute at most.                               *)
(***************************************************************************)
Progress ==
  /\ attr.size <= Ceiling
  /\ attr.pieces = <<>> =>
       n = 0 /\ Len(out) <= attr.size + 1 /\ (phase = "decompress" => out = <<>>)
  /\ attr.pieces # <<>> =>
       /\ attr.pieces[1].plain + attr.pieces[2].plain = attr.size
       /\ attr.pieces[1].stored + attr.pieces[2].stored = StoredLen
       /\ IF phase = "check" THEN n = 2 ELSE n \in 0 .. 1
       /\ Len(out) = IF n = 0 THEN 0 ELSE IF n = 1 THEN attr.pieces[1].plain ELSE attr.size

ProgressInv == phase \in {"decompress", "check"} => Progress

LEMMA KeptLengths ==
  ASSUME Untouched
  PROVE  StoredLen' = StoredLen /\ Ceiling' = Ceiling /\ attr' = attr
BY DEF Untouched, StoredLen, Ceiling

LEMMA ProgressStep ==
  ASSUME TypeInv, ProgressInv, [Next]_vars
  PROVE  ProgressInv'
<1>1. CASE phase' \notin {"decompress", "check"}
  BY <1>1 DEF ProgressInv
<1>2. CASE CheckClaims
  <2>1. /\ attr # None /\ Untouched /\ n = 0 /\ out = <<>>
        /\ (phase' = "done" \/ phase' = "decompress")
    BY <1>2 DEF CheckClaims, Decline, Fail, Untouched, TypeInv
  <2>2. CASE phase' = "decompress"
    <3>1. /\ ~(attr.size > Ceiling) /\ n' = n /\ out' = out
          /\ attr.pieces # <<>> => /\ Total(StoredLens(attr.pieces)) = StoredLen
                                   /\ Total(PlainLens(attr.pieces)) = attr.size
      BY <1>2, <2>2 DEF CheckClaims, Decline, Fail
    <3>2. attr.size <= Ceiling
      <4>1. StoredLen \in Nat /\ attr.size \in Nat /\ Ratio \in Nat /\ Floor \in Nat
        BY <2>1, StoredLenIsNat, AttrLen, CodecAssumption
      <4>2. StoredLen * Ratio \in Nat
        BY <4>1
      <4> QED BY <3>1, <4>1, <4>2 DEF Ceiling
    <3>3. attr.pieces # <<>> =>
            /\ attr.pieces[1].plain + attr.pieces[2].plain = attr.size
            /\ attr.pieces[1].stored + attr.pieces[2].stored = StoredLen
      <4>1. SUFFICES ASSUME attr.pieces # <<>>
                     PROVE  /\ attr.pieces[1].plain + attr.pieces[2].plain = attr.size
                            /\ attr.pieces[1].stored + attr.pieces[2].stored = StoredLen
        OBVIOUS
      <4>2. attr.pieces \in Seq(Piece) /\ Len(attr.pieces) = 2
        BY <2>1, <4>1, AttrOf
      <4>3. \A k \in 1 .. 2 : attr.pieces[k].stored \in Nat
        BY <2>1, <4>2, AttrOf
      <4>4. Total(PlainLens(attr.pieces)) = attr.pieces[1].plain + attr.pieces[2].plain
        BY <4>2, PlainTotal
      <4>5. Total(StoredLens(attr.pieces)) = attr.pieces[1].stored + attr.pieces[2].stored
        BY <4>2, <4>3, StoredTotal
      <4> QED BY <3>1, <4>1, <4>4, <4>5
    <3>4. Len(out) = 0 /\ attr.size \in Nat
      BY <2>1, AttrLen
    <3> QED BY <2>1, <2>2, <3>1, <3>2, <3>3, <3>4, KeptLengths DEF ProgressInv, Progress
  <2> QED BY <1>1, <2>1, <2>2
<1>3. CASE DecompressWhole
  <2>1. /\ attr # None /\ Untouched /\ Progress /\ attr.pieces = <<>> /\ phase = "decompress"
    BY <1>3 DEF DecompressWhole, Untouched, TypeInv, ProgressInv
  <2>2. PICK plain \in Decoded(0, StoredLen, attr.size) :
          IF plain = None THEN Decline("Compression")
          ELSE out' = plain /\ phase' = "check" /\ UNCHANGED <<n, result>>
    BY <1>3 DEF DecompressWhole
  <2>3. CASE plain = None
    BY <1>1, <2>2, <2>3 DEF Decline, Fail
  <2>4. CASE plain # None
    <3>1. StoredLen \in Nat /\ attr.size \in Nat /\ streams \in Seq(Stream)
      BY <2>1, StoredLenIsNat, AttrLen DEF TypeInv
    <3>2. Len(plain) <= attr.size + 1
      BY <2>4, <3>1, DecodedOf
    <3> QED BY <2>1, <2>2, <2>4, <3>2, KeptLengths DEF ProgressInv, Progress
  <2> QED BY <2>3, <2>4
<1>4. CASE DecompressSubblock
  <2>1. /\ phase = "decompress" /\ Untouched /\ Len(attr.pieces) = 2 /\ n \in 0 .. 1 /\ attr # None
    BY <1>4, SubblockReads DEF TypeInv
  <2>2. PICK plain \in Decoded(FromOf(n), attr.pieces[n + 1].stored, attr.pieces[n + 1].plain) :
              \/ Decline("Compression")
              \/ /\ plain # None /\ Len(plain) = attr.pieces[n + 1].plain
                 /\ out' = out \o plain /\ n' = n + 1
                 /\ phase' = IF n = 1 THEN "check" ELSE "decompress"
    BY <1>4, SubblockReads
  <2>3. CASE Decline("Compression")
    BY <1>1, <2>3 DEF Decline, Fail
  <2>4. CASE /\ plain # None /\ Len(plain) = attr.pieces[n + 1].plain
             /\ out' = out \o plain /\ n' = n + 1
             /\ phase' = IF n = 1 THEN "check" ELSE "decompress"
    <3>1. \A k \in 1 .. 2 : attr.pieces[k].stored \in Nat /\ attr.pieces[k].plain \in Nat
      BY <2>1, AttrOf
    <3>2. attr.pieces # <<>> /\ attr.size \in Nat
      BY <2>1, AttrLen
    <3>3. plain \in Bytes /\ out \in Bytes
      <4>1. n + 1 \in 1 .. 2 /\ streams \in Seq(Stream) /\ out \in Bytes
        BY <2>1 DEF TypeInv
      <4> QED BY <2>4, <3>1, <4>1, DecodedOf
    <3>4. Len(out') = Len(out) + Len(plain)
      BY <2>4, <3>3, ConcatProperties DEF Bytes
    <3>5. Progress
      BY <2>1 DEF ProgressInv
    <3>6. CASE n = 0
      BY <2>1, <2>4, <3>1, <3>2, <3>4, <3>5, <3>6, KeptLengths DEF ProgressInv, Progress
    <3>7. CASE n = 1
      BY <2>1, <2>4, <3>1, <3>2, <3>4, <3>5, <3>7, KeptLengths DEF ProgressInv, Progress
    <3> QED BY <2>1, <3>6, <3>7
  <2> QED BY <2>2, <2>3, <2>4
<1>5. CASE ReadStored \/ FinishDecode \/ Tampered \/ Wrote \/ Unwritten
  BY <1>1, <1>5 DEF ReadStored, FinishDecode, Tampered, Wrote, Unwritten, Decline, Fail
<1>6. CASE Done \/ UNCHANGED vars
  BY <1>6 DEF Done, vars, ProgressInv, Progress, Ceiling, StoredLen
<1>7. CASE \/ \E item \in Items, checksum \in BOOLEAN :
                \/ \E compress \in BOOLEAN : Write(compress, item, checksum)
                \/ \E cut \in 0 .. MaxLen : WriteSplit(cut, item, checksum)
           \/ DamageStream \/ MisstateSize \/ MisstatePieces \/ MisstateItem
  BY <1>5, <1>7, WriteStores, SplitStores, TamperingOf
<1> QED BY <1>2, <1>3, <1>4, <1>5, <1>6, <1>7 DEF Next

\* Decompressing never makes more than one byte above what the attribute claims, which is
\* never more than the stored bytes could honestly expand to.
THEOREM DecompressionIsBounded == Spec => []OutputBounded
<1>1. Init => ProgressInv
  BY DEF Init, ProgressInv
<1>2. TypeInv /\ ProgressInv /\ [Next]_vars => ProgressInv'
  BY ProgressStep
<1>3. TypeInv /\ ProgressInv => OutputBounded
  <2> SUFFICES ASSUME TypeInv, Progress, phase \in {"decompress", "check"}
               PROVE  /\ attr.size <= Ceiling
                      /\ Len(out) <= attr.size + 1
                      /\ attr.pieces # <<>> => Len(out) <= attr.size
    BY DEF OutputBounded, ProgressInv
  <2>1. attr # None
    BY DEF TypeInv
  <2>2. attr.size \in Nat
    BY <2>1, AttrLen
  <2>3. CASE attr.pieces = <<>>
    BY <2>3 DEF Progress
  <2>4. CASE attr.pieces # <<>>
    <3>1. \A k \in 1 .. 2 : attr.pieces[k].plain \in Nat
      BY <2>1, <2>4, AttrOf
    <3>2. n \in 0 .. 2 /\ attr.pieces[1].plain \in Nat /\ attr.pieces[2].plain \in Nat
      BY <3>1 DEF TypeInv
    <3> QED BY <2>2, <2>4, <3>2 DEF Progress
  <2> QED BY <2>3, <2>4 DEF Progress
<1> QED BY <1>1, <1>2, <1>3, TypeHolds, PTL DEF Spec

-----------------------------------------------------------------------------
(***************************************************************************)
(* What a block is read back as, as long as no stored byte changed.        *)
(***************************************************************************)

\* Which stream begins where.
LEMMA StreamsAtOf ==
  ASSUME TypeInv, Len(streams) \in 1 .. 2, NEW from
  PROVE  StreamsAt(from) =
           {k \in 1 .. Len(streams) : from = IF k = 1 THEN 0 ELSE streams[1].stored}
<1>1. streams \in Seq(Stream) /\ \A k \in 1 .. Len(streams) : streams[k].stored \in Nat
  <2>1. streams \in Seq(Stream)
    BY DEF TypeInv
  <2>2. \A k \in 1 .. Len(streams) : streams[k] \in Stream
    BY <2>1, SeqAt
  <2> QED BY <2>1, <2>2 DEF Stream
<1>2. \A k \in 1 .. Len(streams) :
        Total(StoredLens(SubSeq(streams, 1, k - 1))) = IF k = 1 THEN 0 ELSE streams[1].stored
  BY <1>1, StoredBefore
<1> QED BY <1>2 DEF StreamsAt

LEMMA SoundIsBytes ==
  ASSUME NEW s, Sound(s)
  PROVE  /\ s.plain \in Bytes /\ s.plain # None /\ s.stored \in Nat /\ s.stored # 0
         /\ Len(s.plain) \in Nat
<1>1. s.plain \in Bytes /\ s.stored \in Nat /\ s.stored # 0 /\ Len(s.plain) \in Nat
  BY SeqWider DEF Sound, Bytes, Pos
<1> QED BY <1>1, NoneAssumption DEF Bytes

\* A sound stream that is asked for what it holds yields that and nothing else.
LEMMA DecodedSound ==
  ASSUME NEW from, NEW k, StreamsAt(from) = {k}, Sound(streams[k])
  PROVE  Decoded(from, streams[k].stored, Len(streams[k].plain)) = {streams[k].plain}
<1>1. PICK s : s = streams[k]
  OBVIOUS
<1>2. s.plain \in Bytes /\ s.plain # None /\ s.stored \in Nat /\ Len(s.plain) \in Nat
  BY <1>1, SoundIsBytes
<1>3. Yield(s.plain, Len(s.plain)) = {s.plain}
  BY <1>2, YieldOf
<1>4. {j \in StreamsAt(from) : streams[j].plain # None} = {k}
  BY <1>1, <1>2
<1>5. ~(s.stored < s.stored) /\ ~(s.stored > s.stored)
  BY <1>2
<1>6. Decoded(from, s.stored, Len(s.plain)) = Yield(s.plain, Len(s.plain))
  BY <1>1, <1>4, <1>5 DEF Decoded
<1> QED BY <1>1, <1>3, <1>6

LEMMA UnshuffledBack ==
  ASSUME TypeInv, NEW item \in Nat
  PROVE  Unshuffle(Shuffle(data, item), Recorded(item)) = data
<1>1. data \in Seq(Pos)
  BY DEF TypeInv
<1>2. CASE item > 1
  BY <1>1, <1>2, UnshuffleInvertsShuffle DEF Recorded
<1>3. CASE ~(item > 1)
  BY <1>3 DEF Recorded, Shuffle, Unshuffle, Unshuffled
<1> QED BY <1>2, <1>3

\* The first of two subblocks holds a part of the first stream, or all of it.
FirstPart ==
  /\ attr.pieces[1].stored < streams[1].stored =>
       out \in Parts(streams[1].plain, attr.pieces[1].stored)
  /\ attr.pieces[1].stored >= streams[1].stored => out = streams[1].plain

ReadBack(item) ==
  /\ phase = "decompress" /\ n = 1 => FirstPart
  /\ phase = "check" =>
       /\ Len(out) = attr.size => out = Shuffle(data, item)
       /\ tampered = {} => Len(out) = attr.size

Answer ==
  phase = "done" => /\ result.ok => IF tampered = {"item"} THEN Len(result.bytes) = Len(data)
                                   ELSE result.bytes = data
                    /\ tampered = {} => result = [ok |-> TRUE, bytes |-> data]

ContentInv ==
  "stream" \notin tampered /\ phase # "write" /\ streams # <<>> =>
    (\E item \in Nat : Stored(item) /\ ReadBack(item)) /\ Answer

\* A step of the reader leaves what was stored as it is.
LEMMA StoredKept ==
  ASSUME Untouched, NEW item
  PROVE  Stored(item)' <=> Stored(item)
BY DEF Untouched, Stored, AsOne, AsTwo, Plainly

\* A table nobody touched tells of the streams.
LEMMA HonestPieces ==
  ASSUME tampered = {}, NEW st, AsTwo(st)
  PROVE  /\ attr.size = Len(st) /\ Len(attr.pieces) = 2
         /\ attr.pieces[1].stored = streams[1].stored /\ attr.pieces[1].plain = Len(streams[1].plain)
         /\ attr.pieces[2].stored = streams[2].stored /\ attr.pieces[2].plain = Len(streams[2].plain)
         /\ attr.pieces[1].plain + attr.pieces[2].plain = Len(st)
<1>1. /\ attr.size = Len(st) /\ Len(attr.pieces) = 2
      /\ Len(streams[1].plain) + Len(streams[2].plain) = Len(st)
      /\ \A k \in 1 .. 2 : /\ attr.pieces[k].stored = streams[k].stored
                          /\ attr.pieces[k].plain = Len(streams[k].plain)
  BY DEF AsTwo
<1>2. 1 \in 1 .. 2 /\ 2 \in 1 .. 2
  OBVIOUS
<1> QED BY <1>1, <1>2

LEMMA TamperedContent ==
  ASSUME TypeInv, ContentInv, Tampered
  PROVE  ContentInv'
<1> SUFFICES ASSUME tampered' \in {{"attribute"}, {"item"}}, streams # <<>>
             PROVE  \E item \in Nat : Stored(item)' /\ ReadBack(item)'
  BY DEF Tampered, ContentInv, Answer
<1>1. /\ phase = "stored" /\ tampered = {} /\ streams' = streams /\ data' = data /\ phase' = phase
      /\ attr # None /\ attr' # None /\ (tampered' # {"item"} => attr'.item = attr.item)
      /\ attr'.pieces = attr.pieces \/ (attr'.size = attr.size /\ Len(attr'.pieces) = 2)
  BY DEF Tampered
<1>2. PICK item \in Nat : Stored(item)
  BY <1>1 DEF ContentInv
<1>3. PICK st : st = Shuffle(data, item)
  OBVIOUS
<1>4. AsOne(st) => AsOne(st)'
  BY <1>1 DEF AsOne
<1>5. AsTwo(st) => AsTwo(st)'
  <2> SUFFICES ASSUME AsTwo(st) PROVE AsTwo(st)'
    OBVIOUS
  <2>1. /\ attr.size = Len(st) /\ Len(attr.pieces) = 2
        /\ attr.pieces[1].plain + attr.pieces[2].plain = Len(st)
    BY <1>1, HonestPieces
  <2>2. /\ Len(attr'.pieces) = 2
        /\ attr'.size = Len(st) \/ attr'.pieces[1].plain + attr'.pieces[2].plain = Len(st)
    BY <1>1, <2>1
  <2>3. tampered' # {}
    OBVIOUS
  <2> QED BY <1>1, <2>2, <2>3 DEF AsTwo
<1>6. Stored(item)'
  <2>1. attr.item = Recorded(item) /\ (AsOne(st) \/ AsTwo(st))
    BY <1>1, <1>2, <1>3 DEF Stored
  <2>2. AsOne(Shuffle(data, item))' \/ AsTwo(Shuffle(data, item))'
    BY <1>1, <1>3, <1>4, <1>5, <2>1 DEF AsOne, AsTwo
  <2> QED BY <1>1, <2>1, <2>2 DEF Stored
<1> QED BY <1>1, <1>6 DEF ReadBack

\* One stream or two, and the lengths of what they hold.
LEMMA StoredShape ==
  ASSUME TypeInv, NEW item \in Nat, Stored(item), attr # None,
         NEW st, st = Shuffle(data, item)
  PROVE  /\ AsOne(st) \/ AsTwo(st)
         /\ tampered # {"item"} => attr.item = Recorded(item)
         /\ Len(st) \in Nat /\ st \in Seq(Pos)
         /\ AsOne(st) => StoredLen = streams[1].stored
         /\ AsTwo(st) => StoredLen = streams[1].stored + streams[2].stored
<1>1. AsOne(st) \/ AsTwo(st)
  BY DEF Stored
<1>2. tampered # {"item"} => attr.item = Recorded(item)
  BY DEF Stored
<1>3. st \in Seq(Pos) /\ Len(st) \in Nat
  BY ShuffleType DEF TypeInv
<1>4. streams \in Seq(Stream) /\ Len(streams) \in 0 .. 2 /\ \A k \in 1 .. Len(streams) : streams[k].stored \in Nat
  <2>1. streams \in Seq(Stream) /\ Len(streams) \in 0 .. 2
    BY DEF TypeInv
  <2>2. \A k \in 1 .. Len(streams) : streams[k] \in Stream
    BY <2>1, SeqAt
  <2> QED BY <2>1, <2>2 DEF Stream
<1>5. /\ Len(streams) = 1 => Total(StoredLens(streams)) = streams[1].stored
      /\ Len(streams) = 2 => Total(StoredLens(streams)) = streams[1].stored + streams[2].stored
  BY <1>4, StoredTotal
<1> QED BY <1>1, <1>2, <1>3, <1>5 DEF StoredLen, AsOne, AsTwo

\* A block stored plainly is its one stream.
LEMMA PlainRead ==
  ASSUME streams = Plainly
  PROVE  PlainBytes = data
<1> DEFINE seqs == [k \in 1 .. Len(streams) |-> streams[k].plain]
           Def(g) == g = [i \in 1 .. Len(seqs) |-> IF i = 1 THEN seqs[i] ELSE g[i - 1] \o seqs[i]]
           flat == CHOOSE g : Def(g)
           f == [i \in 1 .. 1 |-> data]
<1>1. Len(streams) = 1 /\ streams[1].plain = data
  BY DEF Plainly
<1>2. Len(seqs) = 1 /\ seqs[1] = data
  BY <1>1
<1>3. PlainBytes = FlattenSeq(seqs)
  BY DEF PlainBytes
<1> HIDE DEF seqs
<1>7. FlattenSeq(seqs) = flat[Len(seqs)]
  BY <1>2 DEF FlattenSeq
<1>4. Def(f)
  BY <1>2
<1>5. Def(flat)
  <2> HIDE DEF Def, f
  <2> QED BY <1>4
<1>6. flat[1] = data
  <2> HIDE DEF flat
  <2> QED BY <1>2, <1>5
<1> QED BY <1>2, <1>3, <1>6, <1>7

LEMMA ReadStoredContent ==
  ASSUME TypeInv, DigestInv, ContentInv, ReadStored
  PROVE  ContentInv'
<1>1. phase = "stored" /\ Untouched /\ phase' \in {"done", "ceiling"}
  BY DEF ReadStored, Untouched, Decline, Fail
<1> SUFFICES ASSUME "stream" \notin tampered, streams # <<>>
             PROVE  (\E item \in Nat : Stored(item)' /\ ReadBack(item)') /\ Answer'
  BY <1>1 DEF ContentInv, Untouched
<1>2. PICK item \in Nat : Stored(item)
  BY <1>1 DEF ContentInv
<1>3. Stored(item)' /\ ReadBack(item)'
  BY <1>1, <1>2, StoredKept DEF ReadBack
<1>4. ~(digest # None /\ digest.of # streams)
  BY <1>1 DEF DigestInv
<1>5. Answer'
  <2> SUFFICES ASSUME phase' = "done"
               PROVE  result' = [ok |-> TRUE, bytes |-> data]
    BY <1>1 DEF Answer, Untouched
  <2>1. attr = None /\ result' = [ok |-> TRUE, bytes |-> PlainBytes]
    BY <1>4 DEF ReadStored
  <2>2. streams = Plainly
    BY <1>2, <2>1 DEF Stored
  <2> QED BY <2>1, <2>2, PlainRead
<1> QED BY <1>3, <1>5

LEMMA CheckClaimsContent ==
  ASSUME TypeInv, ContentInv, CheckClaims
  PROVE  ContentInv'
<1>1. phase = "ceiling" /\ Untouched /\ phase' \in {"done", "decompress"} /\ attr # None /\ n = 0
  BY DEF CheckClaims, Untouched, Decline, Fail, TypeInv
<1> SUFFICES ASSUME "stream" \notin tampered, streams # <<>>
             PROVE  (\E item \in Nat : Stored(item)' /\ ReadBack(item)') /\ Answer'
  BY <1>1 DEF ContentInv, Untouched
<1>2. PICK item \in Nat : Stored(item)
  BY <1>1 DEF ContentInv
<1>3. n' = n
  BY DEF CheckClaims, Decline
<1>4. Stored(item)' /\ ReadBack(item)'
  BY <1>1, <1>2, <1>3, StoredKept DEF ReadBack
<1>5. PICK st : st = Shuffle(data, item)
  OBVIOUS
<1>6. /\ AsOne(st) \/ AsTwo(st)
      /\ Len(st) \in Nat
      /\ AsOne(st) => StoredLen = streams[1].stored
      /\ AsTwo(st) => StoredLen = streams[1].stored + streams[2].stored
  BY <1>1, <1>2, <1>5, StoredShape
<1>7. Ratio \in Nat /\ Floor \in Nat /\ StoredLen \in Nat /\ attr.size \in Nat
  BY <1>1, CodecAssumption, StoredLenIsNat, AttrLen
<1>8. ASSUME tampered = {}
      PROVE  /\ ~(attr.size > Ceiling)
             /\ attr.pieces # <<>> => /\ Total(StoredLens(attr.pieces)) = StoredLen
                                      /\ Total(PlainLens(attr.pieces)) = attr.size
  <2>1. CASE AsOne(st)
    <3>1. attr.pieces = <<>> /\ attr.size = Len(st) /\ Len(st) <= StoredLen * Ratio
      BY <1>6, <1>8, <2>1 DEF AsOne, Sound
    <3>2. StoredLen * Ratio \in Nat
      BY <1>7
    <3> QED BY <1>6, <1>7, <3>1, <3>2 DEF Ceiling
  <2>2. CASE AsTwo(st)
    <3>1. /\ Sound(streams[1]) /\ Sound(streams[2]) /\ attr.size = Len(st)
          /\ Len(streams[1].plain) + Len(streams[2].plain) = Len(st)
          /\ Len(attr.pieces) = 2
          /\ attr.pieces[1].stored = streams[1].stored /\ attr.pieces[2].stored = streams[2].stored
          /\ attr.pieces[1].plain = Len(streams[1].plain)
          /\ attr.pieces[2].plain = Len(streams[2].plain)
      BY <1>8, <2>2, HonestPieces DEF AsTwo
    <3>2. attr.pieces \in Seq(Piece) /\ \A k \in 1 .. 2 : attr.pieces[k].stored \in Nat
      BY <1>1, <3>1, AttrOf
    <3>3. Total(PlainLens(attr.pieces)) = attr.pieces[1].plain + attr.pieces[2].plain
      BY <3>1, <3>2, PlainTotal
    <3>4. Total(StoredLens(attr.pieces)) = attr.pieces[1].stored + attr.pieces[2].stored
      BY <3>1, <3>2, StoredTotal
    <3>5. Len(st) <= StoredLen * Ratio
      <4>1. PICK a \in Nat : a = streams[1].stored
        BY <3>1, SoundIsBytes
      <4>2. PICK b \in Nat : b = streams[2].stored
        BY <3>1, SoundIsBytes
      <4>3. PICK x \in Nat : x = Len(streams[1].plain)
        BY <3>1, SoundIsBytes
      <4>4. PICK y \in Nat : y = Len(streams[2].plain)
        BY <3>1, SoundIsBytes
      <4>5. x <= a * Ratio /\ y <= b * Ratio
        BY <3>1, <4>1, <4>2, <4>3, <4>4 DEF Sound
      <4>6. (a + b) * Ratio = a * Ratio + b * Ratio /\ a * Ratio \in Nat /\ b * Ratio \in Nat
        BY <1>7
      <4>7. x + y <= (a + b) * Ratio
        BY <4>5, <4>6
      <4> QED BY <1>6, <2>2, <3>1, <4>1, <4>2, <4>3, <4>4, <4>7
    <3>6. StoredLen * Ratio \in Nat
      BY <1>7
    <3>7. ~(attr.size > Ceiling)
      BY <1>6, <1>7, <3>1, <3>5, <3>6 DEF Ceiling
    <3> QED BY <1>6, <2>2, <3>1, <3>3, <3>4, <3>7
  <2> QED BY <1>6, <2>1, <2>2
<1>9. Answer'
  <2> SUFFICES ASSUME phase' = "done" PROVE tampered # {} /\ result'.ok = FALSE
    BY <1>1 DEF Answer, Untouched
  <2>1. result' = [ok |-> FALSE, error |-> "Compression"]
    BY DEF CheckClaims, Decline, Fail
  <2>2. tampered # {}
    BY <1>8 DEF CheckClaims
  <2> QED BY <2>1, <2>2
<1> QED BY <1>4, <1>9

LEMMA WholeContent ==
  ASSUME TypeInv, ContentInv, DecompressWhole
  PROVE  ContentInv'
<1>1. phase = "decompress" /\ Untouched /\ attr # None /\ attr.pieces = <<>>
  BY DEF DecompressWhole, Untouched, TypeInv
<1> SUFFICES ASSUME "stream" \notin tampered, streams # <<>>
             PROVE  (\E item \in Nat : Stored(item)' /\ ReadBack(item)') /\ Answer'
  BY <1>1 DEF ContentInv, Untouched
<1>2. PICK item \in Nat : Stored(item)
  BY <1>1 DEF ContentInv
<1>3. PICK st : st = Shuffle(data, item)
  OBVIOUS
<1>4. /\ Len(streams) = 1 /\ Sound(streams[1]) /\ streams[1].plain = st
      /\ tampered = {} => attr.size = Len(st)
      /\ StoredLen = streams[1].stored
  <2>1. /\ AsOne(st) \/ AsTwo(st)
        /\ AsOne(st) => StoredLen = streams[1].stored
    BY <1>1, <1>2, <1>3, StoredShape
  <2>2. Len(attr.pieces) # 2
    BY <1>1
  <2> QED BY <2>1, <2>2 DEF AsOne, AsTwo
<1>5. StreamsAt(0) = {1}
  <2>1. Len(streams) \in 1 .. 2
    BY <1>4
  <2>2. StreamsAt(0) = {k \in 1 .. Len(streams) : 0 = IF k = 1 THEN 0 ELSE streams[1].stored}
    BY <2>1, StreamsAtOf
  <2> QED BY <1>4, <2>2
<1>6. streams[1].stored \in Nat /\ attr.size \in Nat /\ streams \in Seq(Stream)
  BY <1>1, <1>4, SoundIsBytes, AttrLen DEF TypeInv
<1>7. PICK d \in Decoded(0, streams[1].stored, attr.size) :
        IF d = None THEN Decline("Compression")
        ELSE out' = d /\ phase' = "check" /\ UNCHANGED <<n, result>>
  BY <1>4 DEF DecompressWhole
<1>8. d # None /\ Len(d) = attr.size => d = st
  <2> SUFFICES ASSUME d # None, Len(d) = attr.size PROVE d = st
    OBVIOUS
  <2>1. Exact(d, 0, streams[1].stored)
    BY <1>6, <1>7, DecodedOf
  <2> QED BY <1>4, <1>5, <1>6, <2>1 DEF Exact
<1>9. tampered = {} => d = st /\ st # None
  <2> SUFFICES ASSUME tampered = {} PROVE d = st /\ st # None
    OBVIOUS
  <2>1. Decoded(0, streams[1].stored, Len(streams[1].plain)) = {streams[1].plain}
    BY <1>4, <1>5, DecodedSound
  <2> QED BY <1>4, <1>7, <2>1, SoundIsBytes
<1>10. Stored(item)'
  BY <1>1, <1>2, StoredKept
<1>11. CASE d = None
  <2>1. phase' = "done" /\ result' = [ok |-> FALSE, error |-> "Compression"] /\ tampered # {}
    BY <1>7, <1>9, <1>11 DEF Decline, Fail
  <2> QED BY <1>1, <1>10, <2>1 DEF ReadBack, Answer, Untouched
<1>12. CASE d # None
  <2>1. phase' = "check" /\ out' = d
    BY <1>7, <1>12
  <2>2. ReadBack(item)'
    BY <1>1, <1>3, <1>4, <1>8, <1>9, <1>12, <2>1 DEF ReadBack, Untouched
  <2> QED BY <1>10, <2>1, <2>2 DEF Answer
<1> QED BY <1>11, <1>12

\* An untouched table has each subblock decompress to what it was made of.
LEMMA HonestSubblock ==
  ASSUME TypeInv, attr # None, tampered = {}, Len(attr.pieces) = 2, n \in 0 .. 1,
         NEW st, AsOne(st) \/ AsTwo(st),
         NEW d \in Decoded(FromOf(n), attr.pieces[n + 1].stored, attr.pieces[n + 1].plain)
  PROVE  d # None /\ Len(d) = attr.pieces[n + 1].plain
<1>1. AsTwo(st)
  BY DEF AsOne
<1>2. /\ attr.pieces[1].stored = streams[1].stored /\ attr.pieces[1].plain = Len(streams[1].plain)
      /\ attr.pieces[2].stored = streams[2].stored /\ attr.pieces[2].plain = Len(streams[2].plain)
      /\ Len(streams) = 2 /\ Sound(streams[1]) /\ Sound(streams[2])
  BY <1>1, HonestPieces DEF AsTwo
<1>3. PICK k : k = n + 1
  OBVIOUS
<1>4. PICK from : from = FromOf(n)
  OBVIOUS
<1>5. streams[1].stored # 0 /\ streams[1].stored \in Nat
  BY <1>2, SoundIsBytes
<1>6. StreamsAt(from) = {k} /\ Sound(streams[k])
  <2>1. Len(streams) \in 1 .. 2
    BY <1>2
  <2>2. StreamsAt(from) = {j \in 1 .. 2 : from = IF j = 1 THEN 0 ELSE streams[1].stored}
    BY <1>2, <2>1, StreamsAtOf
  <2>3. CASE n = 0
    BY <1>2, <1>3, <1>4, <1>5, <2>2, <2>3 DEF FromOf
  <2>4. CASE n = 1
    BY <1>2, <1>3, <1>4, <1>5, <2>2, <2>4 DEF FromOf
  <2> QED BY <2>3, <2>4
<1>7. attr.pieces[k].stored = streams[k].stored /\ attr.pieces[k].plain = Len(streams[k].plain)
  <2>1. k = 1 \/ k = 2
    BY <1>3
  <2> QED BY <1>2, <2>1
<1>8. Decoded(from, streams[k].stored, Len(streams[k].plain)) = {streams[k].plain}
  BY <1>6, DecodedSound
<1>9. d = streams[k].plain
  BY <1>3, <1>4, <1>7, <1>8
<1> QED BY <1>3, <1>6, <1>7, <1>9, SoundIsBytes

\* The first subblock begins where the first stream does.
LEMMA FirstSubblock ==
  ASSUME TypeInv, Len(streams) \in 1 .. 2, Sound(streams[1]), NEW len, NEW d, Exact(d, 0, len)
  PROVE  /\ len < streams[1].stored => d \in Parts(streams[1].plain, len)
         /\ len >= streams[1].stored => d = streams[1].plain
<1>1. streams[1].stored \in Nat /\ streams[1].stored # 0
  BY SoundIsBytes
<1>2. StreamsAt(0) = {k \in 1 .. Len(streams) : 0 = IF k = 1 THEN 0 ELSE streams[1].stored}
  BY StreamsAtOf
<1>3. \A k \in StreamsAt(0) : k = 1
  BY <1>1, <1>2
<1> QED BY <1>3 DEF Exact

\* The second begins there too, after an empty first one, or where the second stream does:
\* the two together hold the block.
LEMMA SecondSubblock ==
  ASSUME TypeInv, attr # None, FirstPart, Progress, n = 1, phase = "decompress",
         Len(attr.pieces) = 2, NEW item \in Nat, Stored(item),
         NEW st, st = Shuffle(data, item), NEW d \in Bytes, Len(d) = attr.pieces[2].plain,
         Exact(d, attr.pieces[1].stored, attr.pieces[2].stored)
  PROVE  out \o d = st
<1>1. /\ AsOne(st) \/ AsTwo(st)
      /\ AsOne(st) => StoredLen = streams[1].stored
      /\ AsTwo(st) => StoredLen = streams[1].stored + streams[2].stored
  BY StoredShape
<1>2. st \in Bytes /\ Len(st) \in Nat /\ out \in Bytes /\ Ratio \in Nat
  BY StoredShape, SeqWider, CodecAssumption DEF TypeInv, Bytes, Pos
<1>3. /\ attr.pieces[1].stored \in Nat /\ attr.pieces[1].plain \in Nat
      /\ attr.pieces[2].stored \in Nat /\ attr.pieces[2].plain \in Nat /\ attr.size \in Nat
  BY AttrOf
<1>4. /\ attr.pieces[1].plain + attr.pieces[2].plain = attr.size
      /\ attr.pieces[1].stored + attr.pieces[2].stored = StoredLen
      /\ Len(out) = attr.pieces[1].plain
  <2>1. attr.pieces # <<>>
    BY AttrOf
  <2> QED BY <2>1 DEF Progress
<1>5. /\ Sound(streams[1]) /\ streams[1].plain \in Bytes /\ Len(streams[1].plain) \in Nat
      /\ streams[1].stored \in Nat /\ streams[1].stored # 0
      /\ (AsOne(st) => Len(streams) = 1) /\ (AsTwo(st) => Len(streams) = 2)
      /\ Len(streams) \in 1 .. 2
  <2>1. Sound(streams[1]) /\ (Len(streams) = 1 \/ Len(streams) = 2)
    BY <1>1 DEF AsOne, AsTwo
  <2>2. (AsOne(st) => Len(streams) = 1) /\ (AsTwo(st) => Len(streams) = 2)
    BY DEF AsOne, AsTwo
  <2> QED BY <2>1, <2>2, SoundIsBytes
<1>6. PICK k \in StreamsAt(attr.pieces[1].stored) :
        attr.pieces[2].stored >= streams[k].stored => d = streams[k].plain
  BY DEF Exact
<1>7. k \in 1 .. Len(streams) /\ attr.pieces[1].stored = IF k = 1 THEN 0 ELSE streams[1].stored
  BY <1>5, <1>6, StreamsAtOf
<1>8. CASE k = 1
  <2>1. out = <<>>
    <3>1. out \in Parts(streams[1].plain, 0)
      BY <1>5, <1>7, <1>8 DEF FirstPart
    <3>2. Len(out) <= 0 * Ratio
      BY <1>5, <3>1, PartsOf
    <3>3. Len(out) = 0
      BY <1>2, <3>2, LenProperties DEF Bytes
    <3> QED BY <1>2, <3>3, EmptySeq DEF Bytes
  <2>2. attr.pieces[2].stored = StoredLen
    BY <1>3, <1>4, <1>7, <1>8
  <2>3. out \o d = d
    BY <2>1, ConcatEmptySeq DEF Bytes
  <2>4. CASE AsOne(st)
    <3>1. d = streams[1].plain
      BY <1>1, <1>5, <1>6, <1>8, <2>2, <2>4
    <3> QED BY <2>3, <2>4, <3>1 DEF AsOne
  <2>5. CASE AsTwo(st)
    <3>1. streams[2].stored \in Nat /\ streams[2].plain \in Bytes /\ Len(streams[2].plain) \in Nat
      BY <2>5, SoundIsBytes DEF AsTwo
    <3>2. d = streams[1].plain
      BY <1>1, <1>5, <1>6, <1>8, <2>2, <2>5, <3>1
    <3>3. Len(out) = 0
      BY <2>1
    <3>4. Len(streams[1].plain) = attr.size /\ attr.pieces[1].plain = 0
      BY <1>3, <1>4, <3>2, <3>3
    <3>5. Len(streams[1].plain) = Len(st)
      BY <1>4, <2>5, <3>4 DEF AsTwo
    <3>6. Len(streams[2].plain) = 0
      BY <1>2, <1>5, <2>5, <3>1, <3>5 DEF AsTwo
    <3>7. streams[2].plain = <<>>
      BY <3>1, <3>6, EmptySeq DEF Bytes
    <3>8. streams[1].plain \o streams[2].plain = streams[1].plain
      BY <1>5, <3>7, ConcatEmptySeq DEF Bytes
    <3> QED BY <2>3, <2>5, <3>2, <3>8 DEF AsTwo
  <2> QED BY <1>1, <2>4, <2>5
<1>9. CASE k # 1
  <2>1. AsTwo(st) /\ k = 2 /\ attr.pieces[1].stored = streams[1].stored
    <3>1. PICK m : m = Len(streams)
      OBVIOUS
    <3>2. k \in 1 .. m /\ (m = 1 \/ m = 2)
      BY <1>1, <1>5, <1>7, <3>1
    <3>3. k = 2 /\ m = 2
      BY <1>9, <3>2
    <3>4. ~AsOne(st)
      BY <1>5, <3>1, <3>3
    <3> QED BY <1>1, <1>7, <1>9, <3>3, <3>4
  <2>2. streams[2].stored \in Nat
    BY <2>1, SoundIsBytes DEF AsTwo
  <2>3. attr.pieces[2].stored = streams[2].stored
    BY <1>1, <1>3, <1>4, <1>5, <2>1, <2>2
  <2>4. d = streams[2].plain
    BY <1>6, <2>1, <2>2, <2>3
  <2>5. out = streams[1].plain
    BY <1>5, <2>1 DEF FirstPart
  <2> QED BY <2>1, <2>4, <2>5 DEF AsTwo
<1> QED BY <1>8, <1>9

LEMMA SubblockContent ==
  ASSUME TypeInv, ContentInv, ProgressInv, ProgressInv', DecompressSubblock
  PROVE  ContentInv'
<1>1. /\ phase = "decompress" /\ Untouched /\ attr # None
      /\ Len(attr.pieces) = 2 /\ n \in 0 .. 1 /\ Progress
  BY SubblockReads DEF TypeInv, ProgressInv
<1> SUFFICES ASSUME "stream" \notin tampered, streams # <<>>
             PROVE  (\E item \in Nat : Stored(item)' /\ ReadBack(item)') /\ Answer'
  BY <1>1 DEF ContentInv, Untouched
<1>2. PICK item \in Nat : Stored(item) /\ ReadBack(item)
  BY <1>1 DEF ContentInv
<1>3. PICK st : st = Shuffle(data, item)
  OBVIOUS
<1>4. AsOne(st) \/ AsTwo(st)
  BY <1>1, <1>2, <1>3, StoredShape
<1>5. PICK d \in Decoded(FromOf(n), attr.pieces[n + 1].stored, attr.pieces[n + 1].plain) :
        \/ /\ d = None \/ Len(d) # attr.pieces[n + 1].plain
           /\ Decline("Compression")
        \/ /\ d # None /\ Len(d) = attr.pieces[n + 1].plain
           /\ out' = out \o d /\ n' = n + 1
           /\ phase' = IF n = 1 THEN "check" ELSE "decompress"
           /\ UNCHANGED result
  BY SubblockReads
<1>6. Stored(item)'
  BY <1>1, <1>2, StoredKept
<1>7. CASE (d = None \/ Len(d) # attr.pieces[n + 1].plain) /\ Decline("Compression")
  <2>1. tampered # {}
    BY <1>1, <1>4, <1>7, HonestSubblock
  <2>2. phase' = "done" /\ result' = [ok |-> FALSE, error |-> "Compression"]
    BY <1>7 DEF Decline, Fail
  <2> QED BY <1>1, <1>6, <2>1, <2>2 DEF ReadBack, Answer, Untouched
<1>8. CASE /\ d # None /\ Len(d) = attr.pieces[n + 1].plain
           /\ out' = out \o d /\ n' = n + 1
           /\ phase' = IF n = 1 THEN "check" ELSE "decompress"
  <2>1. d \in Bytes /\ Exact(d, FromOf(n), attr.pieces[n + 1].stored)
    <3>1. n + 1 \in 1 .. 2 /\ streams \in Seq(Stream)
      BY <1>1 DEF TypeInv
    <3>2. attr.pieces[n + 1].stored \in Nat /\ attr.pieces[n + 1].plain \in Nat
      BY <1>1, <3>1, AttrOf
    <3> QED BY <1>8, <3>1, <3>2, DecodedOf
  <2>2. CASE n = 0
    <3>1. Len(streams) \in 1 .. 2 /\ Sound(streams[1])
      <4>1. Sound(streams[1]) /\ (Len(streams) = 1 \/ Len(streams) = 2)
        BY <1>4 DEF AsOne, AsTwo
      <4> QED BY <4>1
    <3>2. Exact(d, 0, attr.pieces[1].stored)
      BY <2>1, <2>2 DEF FromOf
    <3>3. /\ attr.pieces[1].stored < streams[1].stored =>
               d \in Parts(streams[1].plain, attr.pieces[1].stored)
          /\ attr.pieces[1].stored >= streams[1].stored => d = streams[1].plain
      BY <3>1, <3>2, FirstSubblock
    <3>4. out = <<>>
      <4>1. Len(out) = 0
        <5>1. attr.pieces # <<>>
          BY <1>1
        <5> QED BY <1>1, <2>2, <5>1 DEF Progress
      <4> QED BY <4>1, EmptySeq DEF TypeInv, Bytes
    <3>5. out' = d /\ phase' = "decompress"
      BY <1>8, <2>1, <2>2, <3>4, ConcatEmptySeq DEF Bytes
    <3>6. FirstPart'
      BY <1>1, <3>3, <3>5 DEF FirstPart, Untouched, Parts
    <3> QED BY <1>6, <3>5, <3>6 DEF ReadBack, Answer
  <2>3. CASE n = 1
    <3>1. FirstPart
      BY <1>1, <1>2, <2>3 DEF ReadBack
    <3>2. d \in Bytes /\ Len(d) = attr.pieces[2].plain /\ Exact(d, attr.pieces[1].stored, attr.pieces[2].stored)
      BY <1>8, <2>1, <2>3 DEF FromOf
    <3>3. out' = st /\ phase' = "check"
      BY <1>1, <1>2, <1>3, <1>8, <2>3, <3>1, <3>2, SecondSubblock
    <3>4. Len(out') = attr'.size
      <4>1. attr' = attr /\ attr.pieces # <<>> /\ n' = 2
        BY <1>1, <1>8, <2>3 DEF Untouched
      <4> QED BY <3>3, <4>1 DEF ProgressInv, Progress
    <3>5. ReadBack(item)'
      BY <1>1, <1>3, <3>3, <3>4 DEF ReadBack, Untouched
    <3> QED BY <1>6, <3>3, <3>5 DEF Answer
  <2> QED BY <1>1, <2>2, <2>3
<1> QED BY <1>5, <1>7, <1>8

LEMMA FinishContent ==
  ASSUME TypeInv, ContentInv, FinishDecode
  PROVE  ContentInv'
<1>1. phase = "check" /\ phase' = "done" /\ Untouched /\ attr # None
  BY DEF FinishDecode, Untouched, Decline, Fail, TypeInv
<1> SUFFICES ASSUME "stream" \notin tampered, streams # <<>>
             PROVE  (\E item \in Nat : Stored(item)' /\ ReadBack(item)') /\ Answer'
  BY <1>1 DEF ContentInv, Untouched
<1>2. PICK item \in Nat : Stored(item) /\ ReadBack(item)
  BY <1>1 DEF ContentInv
<1>3. Stored(item)' /\ ReadBack(item)'
  BY <1>1, <1>2, StoredKept DEF ReadBack
<1>4. CASE Len(out) # attr.size
  <2>1. tampered # {} /\ result'.ok = FALSE
    BY <1>1, <1>2, <1>4 DEF FinishDecode, Decline, Fail, ReadBack
  <2> QED BY <1>1, <1>3, <2>1 DEF Answer, Untouched
<1>5. CASE Len(out) = attr.size
  <2>1. out = Shuffle(data, item) /\ (tampered # {"item"} => attr.item = Recorded(item))
    BY <1>1, <1>2, <1>5 DEF ReadBack, Stored
  <2>2. result' = [ok |-> TRUE, bytes |-> Unshuffle(out, attr.item)]
    BY <1>5 DEF FinishDecode
  <2>3. tampered # {"item"} => result' = [ok |-> TRUE, bytes |-> data]
    BY <2>1, <2>2, UnshuffledBack
  <2>4. Len(Unshuffle(out, attr.item)) = Len(data)
    <3>1. out \in Seq(Pos) /\ Len(out) = Len(data)
      BY <2>1, ShuffleType DEF TypeInv
    <3>2. attr.item \in Nat
      BY <1>1 DEF TypeInv, Attr
    <3>3. CASE Unshuffled(out, attr.item)
      BY <3>1, <3>3 DEF Unshuffle
    <3>4. CASE ~Unshuffled(out, attr.item)
      BY <3>1, <3>2, <3>4, ShuffleShape
    <3> QED BY <3>3, <3>4
  <2>5. tampered' = tampered /\ data' = data
    BY <1>1 DEF Untouched
  <2>6. result'.ok /\ result'.bytes = Unshuffle(out, attr.item)
    BY <2>2
  <2>7. Answer'
    BY <2>3, <2>4, <2>5, <2>6 DEF Answer
  <2> QED BY <1>3, <2>7
<1> QED BY <1>4, <1>5

LEMMA ContentStep ==
  ASSUME TypeInv, DigestInv, ProgressInv, ProgressInv', ContentInv, [Next]_vars
  PROVE  ContentInv'
<1>1. CASE Wrote
  <2>1. phase' = "stored" /\ \E item \in Nat : Stored(item)'
    BY <1>1 DEF Wrote
  <2> QED BY <2>1 DEF ContentInv, ReadBack, Answer
<1>2. CASE Unwritten
  BY <1>2 DEF Unwritten, TypeInv, ContentInv
<1>3. CASE Tampered
  BY <1>3, TamperedContent
<1>4. CASE ReadStored
  BY <1>4, ReadStoredContent
<1>5. CASE CheckClaims
  BY <1>5, CheckClaimsContent
<1>6. CASE DecompressWhole
  BY <1>6, WholeContent
<1>7. CASE DecompressSubblock
  BY <1>7, SubblockContent
<1>8. CASE FinishDecode
  BY <1>8, FinishContent
<1>9. CASE Done \/ UNCHANGED vars
  <2>1. UNCHANGED <<data, streams, attr, tampered, phase, out, n, result>>
    BY <1>9 DEF Done, vars
  <2>2. \A item \in Nat : Stored(item)' <=> Stored(item)
    BY <2>1 DEF Stored, AsOne, AsTwo, Plainly
  <2>3. \A item \in Nat : ReadBack(item)' <=> ReadBack(item)
    BY <2>1 DEF ReadBack, FirstPart, Parts
  <2>4. Answer' <=> Answer
    BY <2>1 DEF Answer
  <2> HIDE DEF Stored, ReadBack, Answer
  <2> QED BY <2>1, <2>2, <2>3, <2>4 DEF ContentInv
<1>10. CASE \/ \E item \in Items, checksum \in BOOLEAN :
                 \/ \E compress \in BOOLEAN : Write(compress, item, checksum)
                 \/ \E cut \in 0 .. MaxLen : WriteSplit(cut, item, checksum)
            \/ DamageStream \/ MisstateSize \/ MisstatePieces \/ MisstateItem
  BY <1>1, <1>2, <1>3, <1>10, WriteStores, SplitStores, TamperingOf
<1> QED BY <1>4, <1>5, <1>6, <1>7, <1>8, <1>9, <1>10 DEF Next

LEMMA ContentHolds == Spec => [](TypeInv /\ ContentInv)
<1>1. Init => DigestInv /\ ProgressInv /\ ContentInv
  BY DEF Init, DigestInv, DamageDetected, ProgressInv, ContentInv
<1>2. TypeInv /\ DigestInv /\ ProgressInv /\ ContentInv /\ [Next]_vars
        => (DigestInv /\ ProgressInv /\ ContentInv)'
  BY DigestStep, ProgressStep, ContentStep
<1> QED BY <1>1, <1>2, TypeHolds, PTL DEF Spec

\* What was written and not touched is read back as it was given: for every length, item
\* size, compressed length and cut, kept or dropped, with and without a checksum.
THEOREM WrittenIsReadBack == Spec => []RoundTrip
<1>1. TypeInv /\ ContentInv => RoundTrip
  BY DEF TypeInv, ContentInv, Answer, RoundTrip
<1> QED BY <1>1, ContentHolds, PTL

\* Whatever size, or else whatever subblocks, the attribute is made to state, intact streams are
\* read back as the bytes that were given or refused: they are never returned as something else;
\* and as many as were given, whatever item size it is made to state.
THEOREM NothingElseIsReadBack == Spec => []NoSilentCorruption
<1>1. TypeInv /\ ContentInv => NoSilentCorruption
  BY DEF TypeInv, ContentInv, Answer, NoSilentCorruption
<1> QED BY <1>1, ContentHolds, PTL
=============================================================================
