----------------------------- MODULE WriterProofs -----------------------------
(***************************************************************************)
(* Proofs about Writer::to_bytes, for every set of images and every bound. *)
(*                                                                         *)
(* The text of the header is known only through its length; what the proof *)
(* asks of it is what the code relies on, that a header which spells out   *)
(* later positions is not shorter.                                         *)
(***************************************************************************)
EXTENDS WrittenUnit, SequenceTheorems, FunctionTheorems, FiniteSetTheorems, TLAPS

StoredBlock ==
  [owner : (Nat \ {0}) \X Roles, length : Nat, uncompressed : Nat \cup {None}]

\* Positions are written in decimal (render, writer.rs:571-586).
HeaderIsMonotone ==
  \A blocks \in Seq(StoredBlock) :
    /\ \A p \in Nat : HeaderLen(blocks, p) \in Nat
    /\ \A p, q \in Nat : p <= q => HeaderLen(blocks, p) <= HeaderLen(blocks, q)

-----------------------------------------------------------------------------
(* Induction, by the least counterexample. *)

\* A set of naturals that is not empty has a least element.
LEMMA LeastNatural ==
  ASSUME NEW T, T \subseteq Nat, T # {}
  PROVE  \E m \in T : \A n \in T : m <= n
<1> DEFINE Segments == {0 .. m : m \in T}
           R == StrictSubsetOrdering(Nat)
<1>1. Segments \subseteq FiniteSubsetsOf(Nat) /\ Segments # {}
  <2>1. ASSUME NEW m \in T
        PROVE  0 .. m \in FiniteSubsetsOf(Nat)
    <3>1. IsFiniteSet(0 .. m)
      BY FS_Interval
    <3> QED BY <3>1 DEF FiniteSubsetsOf
  <2> QED BY <2>1
<1>2. PICK s \in Segments : \A t \in Segments : <<t, s>> \notin R
  <2>1. IsWellFoundedOn(R, FiniteSubsetsOf(Nat))
    BY FS_StrictSubsetOrderingWellFounded
  <2> HIDE DEF Segments, R
  <2> QED BY <1>1, <2>1, WFMin, Zenon
<1>3. PICK m \in T : s = 0 .. m
  OBVIOUS
<1>4. ASSUME NEW n \in T, n < m
      PROVE  FALSE
  <2>1. 0 .. n \subseteq 0 .. m /\ m \in 0 .. m /\ m \notin 0 .. n
    BY <1>4
  <2>2. <<0 .. n, s>> \in R
    BY <1>3, <2>1 DEF StrictSubsetOrdering
  <2> QED BY <1>2, <2>2
<1>5. \A n \in T : ~(n < m)
  BY <1>4
<1> QED BY <1>5

-----------------------------------------------------------------------------
(***************************************************************************)
(* Where the blocks of a list are laid down: one after another, none       *)
(* before the base.                                                        *)
(***************************************************************************)
Measured(blocks) == Len(blocks) \in Nat /\ \A k \in 1 .. Len(blocks) : blocks[k].length \in Nat

\* A cursor over the first m blocks.
Moves(blocks, m, f) == f[0] = 0 /\ \A k \in 1 .. m : f[k] = f[k - 1] + blocks[k].length

Cursor(blocks, m, f) == f \in [0 .. m -> Nat] /\ Moves(blocks, m, f)

LEMMA CursorMoves ==
  ASSUME NEW blocks, NEW m \in Nat, NEW f, Cursor(blocks, m, f), blocks[m + 1].length \in Nat
  PROVE  \E g : Cursor(blocks, m + 1, g)
<1> DEFINE g == [k \in 0 .. m + 1 |-> IF k = m + 1 THEN f[m] + blocks[m + 1].length ELSE f[k]]
<1>1. g \in [0 .. m + 1 -> Nat] /\ g[0] = 0
  BY DEF Cursor, Moves
<1>2. ASSUME NEW k \in 1 .. m + 1
      PROVE  g[k] = g[k - 1] + blocks[k].length
  <2>1. CASE k = m + 1
    BY <2>1
  <2>2. CASE k \in 1 .. m
    BY <2>2 DEF Cursor, Moves
  <2> QED BY <2>1, <2>2
<1> HIDE DEF g
<1>3. Cursor(blocks, m + 1, g)
  BY <1>1, <1>2 DEF Cursor, Moves
<1> QED BY <1>3

LEMMA CursorExists ==
  ASSUME NEW blocks, Measured(blocks)
  PROVE  \E f : Cursor(blocks, Len(blocks), f)
<1> DEFINE T == {m \in 0 .. Len(blocks) : ~\E f : Cursor(blocks, m, f)}
<1>1. SUFFICES ASSUME T # {} PROVE FALSE
  BY DEF Measured
<1>2. PICK m \in T : \A n \in T : m <= n
  <2>1. T \subseteq Nat
    BY DEF Measured
  <2> HIDE DEF T
  <2> QED BY <1>1, <2>1, LeastNatural
<1>3. CASE m = 0
  <2>1. Cursor(blocks, 0, [k \in 0 .. 0 |-> 0])
    BY DEF Cursor, Moves
  <2> QED BY <1>3, <2>1
<1>4. CASE m # 0
  <2>1. m - 1 \in 0 .. Len(blocks) /\ m \in 1 .. Len(blocks)
    BY <1>4 DEF Measured
  <2>2. PICK f : Cursor(blocks, m - 1, f)
    BY <1>2, <2>1
  <2>3. \E g : Cursor(blocks, m, g)
    <3>1. blocks[(m - 1) + 1].length \in Nat /\ m - 1 \in Nat /\ (m - 1) + 1 = m
      BY <2>1 DEF Measured
    <3> QED BY <2>2, <3>1, CursorMoves
  <2> QED BY <2>3
<1> QED BY <1>3, <1>4

\* A cursor is what its first value and its steps make it.
LEMMA CursorsAgree ==
  ASSUME NEW blocks, NEW m \in Nat, NEW f, NEW g, Cursor(blocks, m, f), Moves(blocks, m, g)
  PROVE  \A k \in 0 .. m : f[k] = g[k]
<1> DEFINE T == {k \in 0 .. m : f[k] # g[k]}
<1>1. SUFFICES ASSUME T # {} PROVE FALSE
  OBVIOUS
<1>2. PICK k \in T : \A n \in T : k <= n
  <2>1. T \subseteq Nat
    OBVIOUS
  <2> HIDE DEF T
  <2> QED BY <1>1, <2>1, LeastNatural
<1>3. k # 0
  BY DEF Cursor, Moves
<1>4. k - 1 \in 0 .. m /\ k \in 1 .. m
  BY <1>3
<1>5. f[k - 1] = g[k - 1]
  BY <1>2, <1>4
<1> QED BY <1>4, <1>5 DEF Cursor, Moves

LEMMA BeforeIsCursor ==
  ASSUME NEW blocks, Measured(blocks)
  PROVE  Cursor(blocks, Len(blocks), Before(blocks))
<1> DEFINE n == Len(blocks)
           Def(g) == g = [k \in 0 .. n |-> IF k = 0 THEN 0 ELSE g[k - 1] + blocks[k].length]
           sum == CHOOSE g : Def(g)
<1>1. n \in Nat
  BY DEF Measured
<1>2. PICK f : Cursor(blocks, n, f)
  BY CursorExists
<1>3. Def(f)
  BY <1>1, <1>2 DEF Cursor, Moves
<1>4. Def(sum)
  <2> HIDE DEF Def
  <2> QED BY <1>3
<1>5. Moves(blocks, n, sum) /\ sum = [k \in 0 .. n |-> sum[k]]
  <2> HIDE DEF sum
  <2> QED BY <1>1, <1>4 DEF Moves
<1>6. Before(blocks) = sum
  BY DEF Before
<1> HIDE DEF sum, Def, n
<1>7. \A k \in 0 .. n : f[k] = sum[k]
  <2>1. PICK g : g = sum
    OBVIOUS
  <2>2. Moves(blocks, n, g)
    BY <1>5, <2>1
  <2>3. \A k \in 0 .. n : f[k] = g[k]
    BY <1>1, <1>2, <2>2, CursorsAgree
  <2> QED BY <2>1, <2>3
<1>8. sum \in [0 .. n -> Nat]
  BY <1>2, <1>5, <1>7 DEF Cursor, Moves
<1> QED BY <1>5, <1>6, <1>8 DEF Cursor, n

LEMMA CursorClimbs ==
  ASSUME NEW blocks, NEW m \in Nat, NEW f, Cursor(blocks, m, f),
         \A k \in 1 .. m : blocks[k].length \in Nat, NEW j \in 0 .. m
  PROVE  \A k \in j .. m : f[j] <= f[k]
<1> DEFINE T == {k \in j .. m : ~(f[j] <= f[k])}
<1>1. SUFFICES ASSUME T # {} PROVE FALSE
  OBVIOUS
<1>2. PICK k \in T : \A n \in T : k <= n
  <2>1. T \subseteq Nat
    OBVIOUS
  <2> HIDE DEF T
  <2> QED BY <1>1, <2>1, LeastNatural
<1>3. f \in [0 .. m -> Nat] /\ \A n \in 1 .. m : f[n] = f[n - 1] + blocks[n].length
  BY DEF Cursor, Moves
<1>4. k # j
  BY <1>3
<1>5. k - 1 \in j .. m /\ k \in 1 .. m /\ k - 1 \in 0 .. m
  BY <1>4
<1>6. f[j] <= f[k - 1]
  BY <1>2, <1>5
<1>7. f[k] = f[k - 1] + blocks[k].length /\ f[j] \in Nat /\ f[k - 1] \in Nat /\ blocks[k].length \in Nat
  BY <1>3, <1>5
<1> QED BY <1>6, <1>7

\* No block begins before the base, and none ends after the next begins.
LEMMA Positions ==
  ASSUME NEW blocks, Measured(blocks), NEW base \in Nat
  PROVE  /\ \A k \in 1 .. Len(blocks) + 1 :
              Position(blocks, base, k) \in Nat /\ Position(blocks, base, k) >= base
         /\ \A k \in 1 .. Len(blocks) + 1, j \in 1 .. Len(blocks) :
              j < k => Position(blocks, base, j) + blocks[j].length <= Position(blocks, base, k)
<1>1. PICK f : f = Before(blocks)
  OBVIOUS
<1>2. PICK m : m = Len(blocks)
  OBVIOUS
<1>3. Cursor(blocks, m, f) /\ m \in Nat /\ \A k \in 1 .. m : blocks[k].length \in Nat
  BY <1>1, <1>2, BeforeIsCursor DEF Measured
<1>4. \A k : Position(blocks, base, k) = base + f[k - 1]
  BY <1>1 DEF Position
<1>5. \A k \in 1 .. m + 1 : k - 1 \in 0 .. m /\ f[k - 1] \in Nat
  <2>1. f \in [0 .. m -> Nat] /\ m \in Nat
    BY <1>3 DEF Cursor
  <2> QED BY <2>1
<1>6. ASSUME NEW k \in 1 .. m + 1, NEW j \in 1 .. m, j < k
      PROVE  base + f[j - 1] + blocks[j].length <= base + f[k - 1]
  <2>1. j \in 0 .. m /\ k - 1 \in j .. m
    BY <1>3, <1>6
  <2>2. f[j] <= f[k - 1]
    BY <1>3, <2>1, CursorClimbs
  <2>3. f[j] = f[j - 1] + blocks[j].length /\ f[j - 1] \in Nat /\ f[k - 1] \in Nat
    BY <1>3, <1>5 DEF Cursor, Moves
  <2> QED BY <1>3, <2>2, <2>3
<1>7. \A k \in 1 .. m + 1 : Position(blocks, base, k) \in Nat /\ Position(blocks, base, k) >= base
  BY <1>4, <1>5
<1>8. \A k \in 1 .. m + 1, j \in 1 .. m :
        j < k => Position(blocks, base, j) + blocks[j].length <= Position(blocks, base, k)
  BY <1>4, <1>6
<1> QED BY <1>2, <1>7, <1>8

\* Lists of equal lengths are laid down alike.
LEMMA PositionsAlike ==
  ASSUME NEW blocks, NEW others, Measured(blocks), Len(others) = Len(blocks),
         \A k \in 1 .. Len(blocks) : others[k].length = blocks[k].length,
         NEW base \in Nat, NEW k \in 1 .. Len(blocks)
  PROVE  Position(others, base, k) = Position(blocks, base, k)
<1>1. PICK f : f = Before(blocks)
  OBVIOUS
<1>2. PICK g : g = Before(others)
  OBVIOUS
<1>3. PICK m : m = Len(blocks)
  OBVIOUS
<1>4. Cursor(blocks, m, f) /\ m \in Nat
  BY <1>1, <1>3, BeforeIsCursor DEF Measured
<1>5. Measured(others)
  BY DEF Measured
<1>6. Cursor(others, m, g)
  BY <1>2, <1>3, <1>5, BeforeIsCursor
<1>7. Moves(blocks, m, g)
  BY <1>3, <1>6 DEF Cursor, Moves
<1>8. \A j \in 0 .. m : f[j] = g[j]
  BY <1>4, <1>7, CursorsAgree
<1>9. k - 1 \in 0 .. m
  BY <1>3, <1>4
<1> QED BY <1>1, <1>2, <1>8, <1>9 DEF Position

-----------------------------------------------------------------------------
(* The blocks that are stored. *)

LEMMA StoredType ==
  ASSUME NEW raw \in Raw, NEW n \in Nat \ {0}, NEW role \in Roles
  PROVE  Stored(raw, <<n, role>>) \in StoredBlock
<1>1. raw.length \in Nat /\ (Compressed(raw) => raw.packed \in Nat)
  BY DEF Raw, Compressed
<1> QED BY <1>1 DEF Stored, StoredBlock

LEMMA Extended ==
  ASSUME NEW S, NEW s \in Seq(S), NEW b \in S
  PROVE  /\ s \o <<b>> \in Seq(S)
         /\ Len(s \o <<b>>) = Len(s) + 1
         /\ \A j \in 1 .. Len(s) + 1 : (s \o <<b>>)[j] = IF j <= Len(s) THEN s[j] ELSE b
<1>1. <<b>> \in Seq(S) /\ Len(<<b>>) = 1 /\ <<b>>[1] = b
  OBVIOUS
<1>2. \A j \in 1 .. Len(s) + 1 : (s \o <<b>>)[j] = IF j <= Len(s) THEN s[j] ELSE <<b>>[j - Len(s)]
  BY <1>1, ConcatProperties
<1>3. ASSUME NEW j \in 1 .. Len(s) + 1, ~(j <= Len(s)) PROVE j - Len(s) = 1
  BY <1>3
<1> QED BY <1>1, <1>2, <1>3, ConcatProperties

\* One block, and up to two more of which each may be missing.
LEMMA UpToThree ==
  ASSUME NEW S, NEW a \in S, NEW b \in S, NEW c \in S
  PROVE  /\ Len(<<a>> \o <<>> \o <<>>) = 1 /\ (<<a>> \o <<>> \o <<>>)[1] = a
         /\ Len(<<a>> \o <<b>> \o <<>>) = 2
         /\ (<<a>> \o <<b>> \o <<>>)[1] = a /\ (<<a>> \o <<b>> \o <<>>)[2] = b
         /\ Len(<<a>> \o <<>> \o <<c>>) = 2
         /\ (<<a>> \o <<>> \o <<c>>)[1] = a /\ (<<a>> \o <<>> \o <<c>>)[2] = c
         /\ Len(<<a>> \o <<b>> \o <<c>>) = 3
         /\ (<<a>> \o <<b>> \o <<c>>)[1] = a /\ (<<a>> \o <<b>> \o <<c>>)[2] = b
         /\ (<<a>> \o <<b>> \o <<c>>)[3] = c
<1>1. <<a>> \in Seq(S) /\ Len(<<a>>) = 1 /\ <<a>>[1] = a
  OBVIOUS
<1>2. <<a>> \o <<>> = <<a>>
  BY <1>1, ConcatEmptySeq
<1>3. <<a>> \o <<b>> \in Seq(S)
  BY <1>1, Extended
<1>9. Len(<<a>> \o <<b>>) = 2 /\ (<<a>> \o <<b>>)[1] = a /\ (<<a>> \o <<b>>)[2] = b
  BY <1>1, Extended
<1>4. <<a>> \o <<b>> \o <<>> = <<a>> \o <<b>>
  BY <1>3, ConcatEmptySeq
<1>5. Len(<<a>> \o <<c>>) = 2 /\ (<<a>> \o <<c>>)[1] = a /\ (<<a>> \o <<c>>)[2] = c
  BY <1>1, Extended
<1>6. /\ Len(<<a>> \o <<b>> \o <<c>>) = 3
      /\ (<<a>> \o <<b>> \o <<c>>)[1] = a /\ (<<a>> \o <<b>> \o <<c>>)[2] = b
      /\ (<<a>> \o <<b>> \o <<c>>)[3] = c
  <2> DEFINE two   == <<a>> \o <<b>>
             three == two \o <<c>>
  <2>1. /\ Len(three) = Len(two) + 1
        /\ \A j \in 1 .. Len(two) + 1 : three[j] = IF j <= Len(two) THEN two[j] ELSE c
    BY <1>3, Extended
  <2>2. Len(two) = 2 /\ two[1] = a /\ two[2] = b
    BY <1>9
  <2> HIDE DEF two, three
  <2>3. Len(three) = 3 /\ \A j \in 1 .. 3 : three[j] = IF j <= 2 THEN two[j] ELSE c
    BY <2>1, <2>2
  <2>4. three[1] = two[1] /\ three[2] = two[2]
    BY <2>3
  <2>5. three[3] = c
    BY <2>3
  <2> QED BY <2>2, <2>3, <2>4, <2>5 DEF two, three
<1>7. Len(<<a>> \o <<>> \o <<>>) = 1 /\ (<<a>> \o <<>> \o <<>>)[1] = a
  BY <1>1, <1>2
<1>8. <<a>> \o <<>> \o <<c>> = <<a>> \o <<c>>
  BY <1>2
<1> QED BY <1>9, <1>4, <1>5, <1>6, <1>7, <1>8

\* The roles an image's blocks have, and the blocks that have them.
LEMMA BlocksOfType ==
  ASSUME NEW p \in PendingImage
  PROVE  /\ Len(BlocksOf(p)) = Len(RolesOf(p))
         /\ Len(BlocksOf(p)) \in 1 .. 3
         /\ \A k \in 1 .. Len(BlocksOf(p)) : BlocksOf(p)[k] \in Raw /\ RolesOf(p)[k] \in Roles
         /\ \A j, k \in 1 .. Len(BlocksOf(p)) : RolesOf(p)[j] = RolesOf(p)[k] => j = k
<1>1. p.data \in Raw /\ (p.icc # None => p.icc \in Raw) /\ (p.thumbnail # None => p.thumbnail \in Raw)
  BY DEF PendingImage
<1> HIDE DEF Raw
<1>2. CASE p.icc = None /\ p.thumbnail = None
  <2>1. BlocksOf(p) = <<p.data>> \o <<>> \o <<>> /\ RolesOf(p) = <<"data">> \o <<>> \o <<>>
    BY <1>2 DEF BlocksOf, RolesOf
  <2>2. Len(BlocksOf(p)) = 1 /\ Len(RolesOf(p)) = 1
    BY <1>1, <1>2, <2>1, UpToThree DEF Roles
  <2>3. /\ BlocksOf(p)[1] \in Raw /\ RolesOf(p)[1] = "data"
    BY <1>1, <1>2, <2>1, UpToThree DEF Roles
  <2>4. \A k \in 1 .. 1 : k = 1
    OBVIOUS
  <2> QED BY <2>2, <2>3, <2>4 DEF Roles
<1>3. CASE p.icc # None /\ p.thumbnail = None
  <2>1. BlocksOf(p) = <<p.data>> \o <<p.icc>> \o <<>> /\ RolesOf(p) = <<"data">> \o <<"icc">> \o <<>>
    BY <1>3 DEF BlocksOf, RolesOf
  <2>2. Len(BlocksOf(p)) = 2 /\ Len(RolesOf(p)) = 2
    BY <1>1, <1>3, <2>1, UpToThree DEF Roles
  <2>3. /\ BlocksOf(p)[1] \in Raw /\ RolesOf(p)[1] = "data"
        /\ BlocksOf(p)[2] \in Raw /\ RolesOf(p)[2] = "icc"
    BY <1>1, <1>3, <2>1, UpToThree DEF Roles
  <2>4. \A k \in 1 .. 2 : k = 1 \/ k = 2
    OBVIOUS
  <2> QED BY <2>2, <2>3, <2>4 DEF Roles
<1>4. CASE p.icc = None /\ p.thumbnail # None
  <2>1. BlocksOf(p) = <<p.data>> \o <<>> \o <<p.thumbnail>> /\ RolesOf(p) = <<"data">> \o <<>> \o <<"thumbnail">>
    BY <1>4 DEF BlocksOf, RolesOf
  <2>2. Len(BlocksOf(p)) = 2 /\ Len(RolesOf(p)) = 2
    BY <1>1, <1>4, <2>1, UpToThree DEF Roles
  <2>3. /\ BlocksOf(p)[1] \in Raw /\ RolesOf(p)[1] = "data"
        /\ BlocksOf(p)[2] \in Raw /\ RolesOf(p)[2] = "thumbnail"
    BY <1>1, <1>4, <2>1, UpToThree DEF Roles
  <2>4. \A k \in 1 .. 2 : k = 1 \/ k = 2
    OBVIOUS
  <2> QED BY <2>2, <2>3, <2>4 DEF Roles
<1>5. CASE p.icc # None /\ p.thumbnail # None
  <2>1. BlocksOf(p) = <<p.data>> \o <<p.icc>> \o <<p.thumbnail>> /\ RolesOf(p) = <<"data">> \o <<"icc">> \o <<"thumbnail">>
    BY <1>5 DEF BlocksOf, RolesOf
  <2>2. Len(BlocksOf(p)) = 3 /\ Len(RolesOf(p)) = 3
    BY <1>1, <1>5, <2>1, UpToThree DEF Roles
  <2>3. /\ BlocksOf(p)[1] \in Raw /\ RolesOf(p)[1] = "data"
        /\ BlocksOf(p)[2] \in Raw /\ RolesOf(p)[2] = "icc"
        /\ BlocksOf(p)[3] \in Raw /\ RolesOf(p)[3] = "thumbnail"
    BY <1>1, <1>5, <2>1, UpToThree DEF Roles
  <2>4. \A k \in 1 .. 3 : k = 1 \/ k = 2 \/ k = 3
    OBVIOUS
  <2> QED BY <2>2, <2>3, <2>4 DEF Roles
<1> QED BY <1>2, <1>3, <1>4, <1>5

-----------------------------------------------------------------------------
(***************************************************************************)
(* The invariant.  The rounds of to_bytes climb because each assumes a     *)
(* length the last one reached; the positions it prints are those of the   *)
(* blocks because no two of them have one owner; and a finished file is    *)
(* what the round that agreed with itself had rendered.                    *)
(***************************************************************************)
BlocksInv ==
  /\ images \in Seq(Pendings)
  /\ prepared \in 0 .. Len(images)
  /\ stored \in Seq(StoredBlock)
  /\ \A k \in 1 .. Len(stored) : stored[k].owner[1] <= prepared
  /\ \A j, k \in 1 .. Len(stored) : stored[j].owner = stored[k].owner => j = k

SettleInv ==
  /\ assumed \in Nat
  /\ phase = "settle" => assumed <= HeaderLen(stored, Preamble + assumed)
  /\ phase = "assemble" => header = Attachments(Preamble + assumed)
  /\ phase = "index" => form # "attached"

\* The blocks the first n of some images own.
Owned(list, n) ==
  {o \in (1 .. n) \X Roles :
     \E k \in 1 .. Len(RolesOf(list[o[1]])) : RolesOf(list[o[1]])[k] = o[2]}

OwnersInv == Len(stored) <= 3 * prepared /\ Owners = Owned(images, prepared)

\* What to_distributed hands to write_blocks_file, and the header that goes with it.
Rendered ==
  /\ header = Identifiers
  /\ pending = [k \in 1 .. Len(stored) |->
                  [id |-> BlockId(k), length |-> stored[k].length,
                   uncompressed |-> stored[k].uncompressed]]

IndexElement == [id : Nat, position : Nat, length : Nat, uncompressed : Nat]

\* The elements so far are those of the blocks so far, which are not empty and not alike.
IndexInv ==
  /\ pending \in Seq(PendingBlock)
  /\ elements \in Seq(IndexElement) /\ Len(elements) <= Len(pending)
  /\ \A k \in 1 .. Len(elements) :
       /\ elements[k].id = pending[k].id
       /\ elements[k].length = pending[k].length /\ pending[k].length # 0
       /\ elements[k].position = Position(pending, FirstBlock(Len(pending)), k)
  /\ \A k \in 1 .. Len(elements) : \A j \in 1 .. k - 1 : pending[j].id # pending[k].id

Distributing == form \in {"distributed", "blocks"} /\ (form = "distributed" => Rendered)

\* What a call returned is what its locals still hold.
OutputInv ==
  /\ form \in {"none", "attached", "distributed", "blocks"}
  /\ phase \in {"idle", "prepare", "settle", "assemble", "index"}
  /\ phase # "idle" => output = None
  /\ phase = "index" => Distributing
  /\ \/ output = None
     \/ output.kind = "error"
     \/ /\ output = [kind |-> "attached", headerLen |-> assumed, header |-> header,
                      blocks |-> stored]
        /\ header = Attachments(Preamble + assumed)
     \/ /\ output.kind \in {"distributed", "blocks"}
        /\ output = [kind |-> output.kind, header |-> header, elements |-> elements,
                      blocks |-> pending]
        /\ Len(elements) = Len(pending)
        /\ output.kind = "distributed" => Rendered

WriterInv == BlocksInv /\ SettleInv /\ OwnersInv /\ IndexInv /\ OutputInv

LEMMA BlocksInit == Init => BlocksInv
BY DEF Init, BlocksInv

LEMMA SeqMember ==
  ASSUME NEW S, NEW s \in Seq(S), NEW k \in 1 .. Len(s)
  PROVE  s[k] \in S
OBVIOUS

\* What one more image adds to the blocks: one for each of its roles.
LEMMA PreparedBlocks ==
  ASSUME BlocksInv, PrepareImage, NEW n, n = prepared + 1
  PROVE  /\ n \in 1 .. Len(images) /\ prepared' = n /\ images' = images
         /\ images[n] \in PendingImage /\ Len(RolesOf(images[n])) \in 1 .. 3
         /\ \E more \in Seq(StoredBlock) :
              /\ stored' = stored \o more
              /\ Len(more) = Len(RolesOf(images[n]))
              /\ \A k \in 1 .. Len(more) : more[k].owner = <<n, RolesOf(images[n])[k]>>
<1> DEFINE p == images[n]
           more == [k \in 1 .. Len(BlocksOf(p)) |-> Stored(BlocksOf(p)[k], <<n, RolesOf(p)[k]>>)]
<1>1. n \in 1 .. Len(images) /\ n \in Nat \ {0} /\ prepared' = n /\ images' = images
  BY DEF PrepareImage, BlocksInv
<1>2. p \in PendingImage
  <2>1. p \in Pendings
    BY <1>1, SeqMember DEF BlocksInv
  <2> QED BY <2>1, WriterAssumption
<1>3. stored' = stored \o more
  BY DEF PrepareImage
<1>4. Len(BlocksOf(p)) \in 1 .. 3 /\ Len(BlocksOf(p)) = Len(RolesOf(p))
  BY <1>2, BlocksOfType
<1>5. ASSUME NEW k \in 1 .. Len(BlocksOf(p))
      PROVE  /\ Stored(BlocksOf(p)[k], <<n, RolesOf(p)[k]>>) \in StoredBlock
             /\ Stored(BlocksOf(p)[k], <<n, RolesOf(p)[k]>>).owner = <<n, RolesOf(p)[k]>>
  <2>1. BlocksOf(p)[k] \in Raw /\ RolesOf(p)[k] \in Roles
    BY <1>2, BlocksOfType
  <2>2. Stored(BlocksOf(p)[k], <<n, RolesOf(p)[k]>>) \in StoredBlock
    BY <1>1, <2>1, StoredType
  <2> QED BY <2>2 DEF Stored
<1> DEFINE count == Len(BlocksOf(p))
<1>6. more \in [1 .. count -> StoredBlock]
  BY <1>5
<1>7. \A k \in 1 .. count : more[k].owner = <<n, RolesOf(p)[k]>>
  BY <1>5
<1> HIDE DEF p, more, count
<1>8. count \in Nat /\ count = Len(RolesOf(p)) /\ Len(RolesOf(p)) \in 1 .. 3
  BY <1>4 DEF count
<1>9. more \in Seq(StoredBlock) /\ Len(more) = count
  BY <1>6, <1>8
<1>10. \E t \in Seq(StoredBlock) :
         /\ stored' = stored \o t
         /\ Len(t) = Len(RolesOf(p))
         /\ \A k \in 1 .. Len(t) : t[k].owner = <<n, RolesOf(p)[k]>>
  BY <1>3, <1>7, <1>8, <1>9
<1> QED BY <1>1, <1>2, <1>8, <1>10 DEF p

\* The blocks of one more image keep owners apart.
LEMMA PrepareKeepsBlocks ==
  ASSUME BlocksInv, PrepareImage
  PROVE  BlocksInv'
<1> DEFINE n == prepared + 1
           p == images[n]
<1>1. n \in 1 .. Len(images) /\ n \in Nat \ {0} /\ prepared' = n /\ images' = images
  BY PreparedBlocks DEF BlocksInv
<1>2. p \in PendingImage /\ Len(RolesOf(p)) \in 1 .. 3
  BY PreparedBlocks
<1>3. PICK more \in Seq(StoredBlock) :
        /\ stored' = stored \o more
        /\ Len(more) = Len(RolesOf(p))
        /\ \A k \in 1 .. Len(more) : more[k].owner = <<n, RolesOf(p)[k]>>
  BY PreparedBlocks
<1> DEFINE count == Len(RolesOf(p))
<1>4. stored' = stored \o more
  BY <1>3
<1>7. \A k \in 1 .. count : more[k].owner = <<n, RolesOf(p)[k]>>
  BY <1>3
<1>8. \A j, k \in 1 .. count : RolesOf(p)[j] = RolesOf(p)[k] => j = k
  BY <1>2, BlocksOfType
<1>9. count \in Nat
  BY <1>2
<1>10. more \in Seq(StoredBlock) /\ Len(more) = count
  BY <1>3
<1> HIDE DEF n, p, count
<1>11. stored \in Seq(StoredBlock) /\ Len(stored) \in Nat
  BY DEF BlocksInv
<1>12. /\ stored' \in Seq(StoredBlock)
       /\ Len(stored') = Len(stored) + count
       /\ \A k \in 1 .. Len(stored) + count :
            stored'[k] = IF k <= Len(stored) THEN stored[k] ELSE more[k - Len(stored)]
  BY <1>4, <1>10, <1>11, ConcatProperties
<1>13. ASSUME NEW k \in 1 .. Len(stored') PROVE stored'[k].owner[1] <= prepared'
  <2>1. CASE k <= Len(stored)
    <3>1. stored'[k].owner[1] <= prepared /\ stored[k].owner[1] \in Nat
      <4>1. k \in 1 .. Len(stored) /\ stored'[k] = stored[k]
        BY <1>9, <1>11, <1>12, <2>1
      <4>2. stored[k] \in StoredBlock
        BY <1>11, <4>1, SeqMember
      <4> QED BY <4>1, <4>2 DEF BlocksInv, StoredBlock
    <3>2. stored'[k] = stored[k] /\ prepared \in Nat
      BY <1>9, <1>11, <1>12, <2>1 DEF BlocksInv
    <3> QED BY <1>1, <3>1, <3>2 DEF n
  <2>2. CASE ~(k <= Len(stored))
    <3>1. k - Len(stored) \in 1 .. count /\ stored'[k] = more[k - Len(stored)]
      BY <1>9, <1>11, <1>12, <2>2
    <3>2. stored'[k].owner[1] = n
      BY <1>7, <3>1
    <3> QED BY <1>1, <3>2
  <2> QED BY <2>1, <2>2
<1>14. ASSUME NEW j \in 1 .. Len(stored'), NEW k \in 1 .. Len(stored'),
              stored'[j].owner = stored'[k].owner
       PROVE  j = k
  <2>1. \A m \in 1 .. Len(stored') :
          \/ m \in 1 .. Len(stored) /\ stored'[m] = stored[m] /\ stored'[m].owner[1] # n
          \/ /\ m - Len(stored) \in 1 .. count
             /\ stored'[m].owner = <<n, RolesOf(p)[m - Len(stored)]>>
    <3> TAKE m \in 1 .. Len(stored')
    <3>1. CASE m <= Len(stored)
      <4>1. m \in 1 .. Len(stored) /\ stored'[m] = stored[m]
        BY <1>9, <1>11, <1>12, <3>1
      <4>2. stored[m].owner[1] \in Nat /\ stored[m].owner[1] <= prepared /\ prepared \in Nat
        <5>1. stored[m] \in StoredBlock
          BY <1>11, <4>1, SeqMember
        <5> QED BY <4>1, <5>1 DEF BlocksInv, StoredBlock
      <4> QED BY <4>1, <4>2 DEF n
    <3>2. CASE ~(m <= Len(stored))
      <4>1. m - Len(stored) \in 1 .. count /\ stored'[m] = more[m - Len(stored)]
        BY <1>9, <1>11, <1>12, <3>2
      <4>2. more[m - Len(stored)].owner = <<n, RolesOf(p)[m - Len(stored)]>>
        BY <1>7, <4>1
      <4>3. stored'[m].owner = <<n, RolesOf(p)[m - Len(stored)]>>
        BY <4>1, <4>2
      <4> QED BY <4>1, <4>3
    <3> QED BY <3>1, <3>2
  <2>2. CASE j \in 1 .. Len(stored) /\ k \in 1 .. Len(stored)
            /\ stored'[j] = stored[j] /\ stored'[k] = stored[k]
    BY <1>14, <2>2 DEF BlocksInv
  <2>3. CASE /\ j - Len(stored) \in 1 .. count /\ k - Len(stored) \in 1 .. count
             /\ stored'[j].owner = <<n, RolesOf(p)[j - Len(stored)]>>
             /\ stored'[k].owner = <<n, RolesOf(p)[k - Len(stored)]>>
    <3>1. RolesOf(p)[j - Len(stored)] = RolesOf(p)[k - Len(stored)]
      <4>1. <<n, RolesOf(p)[j - Len(stored)]>> = <<n, RolesOf(p)[k - Len(stored)]>>
        BY <1>14, <2>3, Zenon
      <4> QED BY <4>1
    <3>2. j - Len(stored) = k - Len(stored)
      BY <1>8, <2>3, <3>1
    <3> QED BY <1>9, <1>11, <1>12, <3>2
  <2>4. \A m \in 1 .. Len(stored') :
          m - Len(stored) \in 1 .. count
          /\ stored'[m].owner = <<n, RolesOf(p)[m - Len(stored)]>> => stored'[m].owner[1] = n
    OBVIOUS
  <2> QED BY <1>14, <2>1, <2>2, <2>3, <2>4
<1>15. images' \in Seq(Pendings) /\ prepared' \in 0 .. Len(images')
  BY <1>1 DEF BlocksInv
<1> QED BY <1>12, <1>13, <1>14, <1>15 DEF BlocksInv

LEMMA BlocksStep ==
  ASSUME BlocksInv, [Next]_vars
  PROVE  BlocksInv'
<1>1. ASSUME NEW q \in Pendings, AddImage(q) PROVE BlocksInv'
  <2>1. images' \in Seq(Pendings) /\ Len(images') = Len(images) + 1
    BY <1>1, AppendProperties DEF AddImage, BlocksInv
  <2> QED BY <1>1, <2>1 DEF AddImage, BlocksInv
<1>2. ASSUME NEW f, NEW first, Begin(f, first), UNCHANGED images PROVE BlocksInv'
  BY <1>2 DEF Begin, BlocksInv
<1>3. CASE ToBytes
  BY <1>2, <1>3 DEF ToBytes, Start
<1>4. ASSUME NEW name \in PlainNames \cup OddNames, ToDistributed(name) PROVE BlocksInv'
  <2>1. CASE Start("distributed")
    BY <1>2, <2>1 DEF Start
  <2>2. CASE UNCHANGED <<images, stored, prepared>>
    BY <2>2 DEF BlocksInv
  <2> QED BY <1>4, <2>1, <2>2 DEF ToDistributed
<1>5. ASSUME NEW blocks \in CallerBlocks, WriteBlocksFile(blocks) PROVE BlocksInv'
  BY <1>2, <1>5 DEF WriteBlocksFile
<1>6. CASE PrepareImage
  BY <1>6, PrepareKeepsBlocks
<1>7. CASE UNCHANGED <<images, stored, prepared>>
  BY <1>7 DEF BlocksInv
<1>8. RefuseBlock \/ Measure \/ Settle \/ Assemble \/ RenderDistributed \/ IndexBlock \/ WriteIndex
        \/ UNCHANGED vars
      => UNCHANGED <<images, stored, prepared>>
  BY DEF RefuseBlock, Measure, Settle, Assemble, RenderDistributed, IndexBlock, WriteIndex, vars
<1> QED BY <1>1, <1>3, <1>4, <1>5, <1>6, <1>7, <1>8 DEF Next, Serialise

LEMMA SettleInit == Init => SettleInv
BY DEF Init, SettleInv

LEMMA SettleStep ==
  ASSUME HeaderIsMonotone, BlocksInv, SettleInv, [Next]_vars
  PROVE  SettleInv'
<1> USE DEF SettleInv
<1>1. ASSUME NEW q \in Pendings, AddImage(q) PROVE SettleInv'
  BY <1>1 DEF AddImage, Attachments, Owners, OwnedBlock
<1>2. ASSUME NEW f, Begin(f, "prepare") PROVE SettleInv'
  BY <1>2 DEF Begin
<1>3. CASE ToBytes
  BY <1>2, <1>3 DEF ToBytes, Start
<1>4. ASSUME NEW name \in PlainNames \cup OddNames, ToDistributed(name) PROVE SettleInv'
  <2>1. CASE Start("distributed")
    BY <1>2, <2>1 DEF Start
  <2>2. CASE phase' = "idle" /\ assumed' = assumed
    BY <2>2
  <2> QED BY <1>4, <2>1, <2>2 DEF ToDistributed, Fail, Return
<1>5. ASSUME NEW blocks \in CallerBlocks, WriteBlocksFile(blocks) PROVE SettleInv'
  BY <1>5 DEF WriteBlocksFile, Begin
<1>6. CASE PrepareImage
  BY <1>6 DEF PrepareImage
<1>7. CASE RefuseBlock
  BY <1>7 DEF RefuseBlock, Fail, Return
<1>8. CASE Measure
  <2>1. assumed' \in Nat /\ assumed' = HeaderLen(stored, Preamble) /\ stored' = stored
    BY <1>8 DEF Measure, HeaderIsMonotone, BlocksInv, Preamble
  <2>2. HeaderLen(stored, Preamble) <= HeaderLen(stored, Preamble + assumed')
    BY <2>1 DEF HeaderIsMonotone, BlocksInv, Preamble
  <2> QED BY <1>8, <2>1, <2>2 DEF Measure
<1>9. CASE Settle
  <2>1. HeaderLen(stored, Preamble + assumed) \in Nat
    <3>1. Preamble + assumed \in Nat
      BY DEF SettleInv, Preamble
    <3>2. stored \in Seq(StoredBlock)
      BY DEF BlocksInv
    <3> QED BY <3>1, <3>2 DEF HeaderIsMonotone
  <2>2. CASE /\ assumed' = HeaderLen(stored, Preamble + assumed)
             /\ phase' = phase /\ stored' = stored /\ form' = form
    <3>1. assumed <= assumed'
      BY <1>9, <2>2 DEF Settle
    <3>2. HeaderLen(stored, Preamble + assumed) <= HeaderLen(stored, Preamble + assumed')
      BY <2>1, <2>2, <3>1 DEF HeaderIsMonotone, BlocksInv, Preamble
    <3> QED BY <1>9, <2>1, <2>2, <3>2 DEF Settle
  <2>3. CASE /\ header' = Attachments(Preamble + assumed)
             /\ phase' = "assemble" /\ assumed' = assumed /\ stored' = stored
    BY <2>3 DEF Attachments, Owners, OwnedBlock, Position
  <2> QED BY <1>9, <2>2, <2>3 DEF Settle
<1>10. CASE Assemble
  BY <1>10 DEF Assemble, Fail, Return
<1>11. CASE RenderDistributed
  BY <1>11 DEF RenderDistributed
<1>12. CASE IndexBlock
  BY <1>12 DEF IndexBlock, Fail, Return
<1>13. CASE WriteIndex
  BY <1>13 DEF WriteIndex, Return
<1>14. CASE UNCHANGED vars
  BY <1>14 DEF vars, Attachments, Owners, OwnedBlock, Position
<1> QED
  BY <1>1, <1>3, <1>4, <1>5, <1>6, <1>7, <1>8, <1>9, <1>10, <1>11, <1>12, <1>13, <1>14
     DEF Next, Serialise

\* A block is found under its owner.
LEMMA OwnerFinds ==
  ASSUME BlocksInv, NEW k \in 1 .. Len(stored)
  PROVE  OwnedBlock(stored[k].owner) = k
BY DEF BlocksInv, OwnedBlock

-----------------------------------------------------------------------------
(* The owners, the index and what is returned. *)

\* A call begins.
Began ==
  /\ phase' \in {"prepare", "index"} /\ output' = None /\ UNCHANGED images
  /\ form' \in {"attached", "distributed", "blocks"} /\ (phase' = "index" => form' = "blocks")
  /\ stored' = <<>> /\ prepared' = 0 /\ elements' = <<>>
  /\ pending' \in Seq(PendingBlock)

\* A call refuses.
Refused ==
  /\ phase' = "idle" /\ form' = "none" /\ output'.kind = "error"
  /\ UNCHANGED <<images, stored, prepared, pending, elements>>

Assembled ==
  /\ phase = "assemble" /\ phase' = "idle" /\ form' = "none"
  /\ output' = [kind |-> "attached", headerLen |-> assumed, header |-> header, blocks |-> stored]
  /\ UNCHANGED <<images, stored, prepared, assumed, header, pending, elements>>

Indexed ==
  /\ phase = "index" /\ Len(elements) < Len(pending)
  /\ LET k == Len(elements) + 1
         block == pending[k]
     IN  /\ block.length # 0 /\ \A j \in 1 .. k - 1 : pending[j].id # block.id
         /\ elements' = Append(elements,
              [id |-> block.id,
               position |-> Position(pending, FirstBlock(Len(pending)), k),
               length |-> block.length,
               uncompressed |-> IF block.uncompressed = None THEN 0 ELSE block.uncompressed])
  /\ UNCHANGED <<images, form, phase, stored, prepared, assumed, header, pending, output>>

LEMMA StepOf ==
  ASSUME [Next]_vars
  PROVE  \/ (\E p \in Pendings : AddImage(p)) \/ Began \/ Refused \/ PrepareImage
         \/ Measure \/ Settle \/ Assembled \/ RenderDistributed \/ Indexed \/ WriteIndex
         \/ UNCHANGED vars
<1>1. ASSUME NEW f \in {"attached", "distributed"}, Start(f) PROVE Began
  BY <1>1 DEF Start, Begin, Began
<1>2. ToBytes => Began
  BY <1>1 DEF ToBytes
<1>3. ASSUME NEW name \in PlainNames \cup OddNames, ToDistributed(name) PROVE Began \/ Refused
  BY <1>1, <1>3 DEF ToDistributed, Refused, Fail, Return
<1>4. ASSUME NEW blocks \in CallerBlocks, WriteBlocksFile(blocks) PROVE Began
  BY <1>4, WriterAssumption DEF WriteBlocksFile, Begin, Began
<1>5. RefuseBlock => Refused
  BY DEF RefuseBlock, Refused, Fail, Return
<1>6. Assemble => Assembled \/ Refused
  BY DEF Assemble, Assembled, Refused, Fail, Return
<1>7. IndexBlock => Indexed \/ Refused
  BY DEF IndexBlock, Indexed, Refused, Fail, Return
<1> QED BY <1>2, <1>3, <1>4, <1>5, <1>6, <1>7 DEF Next, Serialise


LEMMA OwnersPrepared ==
  ASSUME BlocksInv, OwnersInv, PrepareImage
  PROVE  OwnersInv'
<1> DEFINE n == prepared + 1
           roles == RolesOf(images[n])
<1>1. /\ n \in 1 .. Len(images) /\ n \in Nat \ {0} /\ prepared' = n /\ images' = images
      /\ prepared \in Nat /\ prepared = n - 1
  BY PreparedBlocks DEF BlocksInv
<1>2. Len(roles) \in 1 .. 3 /\ \A k \in 1 .. Len(roles) : roles[k] \in Roles
  <2>1. images[n] \in PendingImage /\ Len(roles) \in 1 .. 3
    BY PreparedBlocks
  <2> QED BY <2>1, BlocksOfType
<1>3. PICK more \in Seq(StoredBlock) :
        /\ stored' = stored \o more
        /\ Len(more) = Len(roles)
        /\ \A k \in 1 .. Len(more) : more[k].owner = <<n, roles[k]>>
  BY PreparedBlocks
<1>4. PICK m \in Nat : m = Len(stored)
  BY DEF BlocksInv
<1>5. PICK c \in 1 .. 3 : c = Len(more)
  BY <1>2, <1>3
<1>6. /\ Len(stored') = m + c
      /\ \A k \in 1 .. m + c : stored'[k] = IF k <= m THEN stored[k] ELSE more[k - m]
  <2>1. stored \in Seq(StoredBlock) /\ more \in Seq(StoredBlock) /\ stored' = stored \o more
    BY <1>3 DEF BlocksInv
  <2>2. /\ Len(stored \o more) = m + c
        /\ \A k \in 1 .. m + c : (stored \o more)[k] = IF k <= m THEN stored[k] ELSE more[k - m]
    BY <1>4, <1>5, <2>1, ConcatProperties
  <2> QED BY <2>1, <2>2
<1> HIDE DEF n
<1>7. Len(stored') <= 3 * prepared'
  <2>1. m <= 3 * prepared
    BY <1>4 DEF OwnersInv
  <2>2. prepared' = prepared + 1 /\ prepared \in Nat
    BY <1>1
  <2>3. Len(stored') = m + c
    BY <1>6
  <2>4. \A x \in Nat : m <= 3 * x => m + c <= 3 * (x + 1)
    OBVIOUS
  <2> QED BY <2>1, <2>2, <2>3, <2>4
<1>8. Owners' = Owners \cup {<<n, roles[k]>> : k \in 1 .. c}
  <2>1. Owners' = {stored'[k].owner : k \in 1 .. m + c}
    BY <1>6 DEF Owners
  <2>2. ASSUME NEW k \in 1 .. m + c
        PROVE  stored'[k].owner \in Owners \cup {<<n, roles[j]>> : j \in 1 .. c}
    <3>1. CASE k <= m
      BY <1>4, <1>6, <3>1 DEF Owners
    <3>2. CASE ~(k <= m)
      <4>1. k - m \in 1 .. c
        BY <1>4, <1>5, <3>2
      <4>2. stored'[k] = more[k - m]
        BY <1>6, <3>2
      <4> QED BY <1>3, <1>5, <4>1, <4>2
    <3> QED BY <3>1, <3>2
  <2>3. ASSUME NEW k \in 1 .. m
        PROVE  stored[k].owner \in Owners'
    <3>1. k \in 1 .. m + c /\ stored'[k] = stored[k]
      BY <1>4, <1>5, <1>6
    <3> QED BY <2>1, <3>1
  <2>4. ASSUME NEW k \in 1 .. c
        PROVE  <<n, roles[k]>> \in Owners'
    <3>1. k + m \in 1 .. m + c /\ ~(k + m <= m) /\ (k + m) - m = k
      BY <1>4, <1>5
    <3>2. stored'[k + m] = more[k]
      BY <1>6, <3>1
    <3>3. stored'[k + m].owner = <<n, roles[k]>>
      BY <1>3, <1>5, <3>2
    <3> QED BY <2>1, <3>1, <3>3
  <2>5. Owners = {stored[k].owner : k \in 1 .. m}
    BY <1>4 DEF Owners
  <2> HIDE DEF roles
  <2>6. Owners' \subseteq Owners \cup {<<n, roles[k]>> : k \in 1 .. c}
    BY <2>1, <2>2
  <2>7. Owners \subseteq Owners'
    BY <2>3, <2>5
  <2>8. {<<n, roles[k]>> : k \in 1 .. c} \subseteq Owners'
    BY <2>4
  <2> QED BY <2>6, <2>7, <2>8
<1>9. Owned(images, n) = Owned(images, prepared) \cup {<<n, roles[k]>> : k \in 1 .. c}
  <2>1. ASSUME NEW o \in Owned(images, n)
        PROVE  o \in Owned(images, prepared) \cup {<<n, roles[k]>> : k \in 1 .. c}
    <3>1. /\ o[1] \in 1 .. n /\ o[2] \in Roles /\ o = <<o[1], o[2]>>
          /\ \E k \in 1 .. Len(RolesOf(images[o[1]])) : RolesOf(images[o[1]])[k] = o[2]
      BY DEF Owned
    <3>2. CASE o[1] = n
      <4>1. \E k \in 1 .. Len(roles) : roles[k] = o[2]
        BY <3>1, <3>2
      <4> QED BY <1>3, <1>5, <3>1, <3>2, <4>1
    <3>3. CASE o[1] # n
      <4>1. o[1] \in 1 .. prepared
        BY <1>1, <3>1, <3>3
      <4> QED BY <3>1, <4>1 DEF Owned
    <3> QED BY <3>2, <3>3
  <2>2. ASSUME NEW o \in Owned(images, prepared)
        PROVE  o \in Owned(images, n)
    BY <1>1 DEF Owned
  <2>3. ASSUME NEW k \in 1 .. c
        PROVE  <<n, roles[k]>> \in Owned(images, n)
    <3>1. <<n, roles[k]>> \in (1 .. n) \X Roles
      BY <1>1, <1>2, <1>3, <1>5
    <3>2. \E j \in 1 .. Len(roles) : roles[j] = roles[k]
      BY <1>3, <1>5
    <3> HIDE DEF roles
    <3>3. <<n, roles[k]>>[1] = n /\ <<n, roles[k]>>[2] = roles[k]
      OBVIOUS
    <3> QED BY <3>1, <3>2, <3>3 DEF Owned, roles
  <2> QED BY <2>1, <2>2, <2>3
<1> QED BY <1>1, <1>7, <1>8, <1>9 DEF OwnersInv

LEMMA OwnersStep ==
  ASSUME BlocksInv, OwnersInv, [Next]_vars
  PROVE  OwnersInv'
<1>1. ASSUME NEW q \in Pendings, AddImage(q) PROVE OwnersInv'
  <2>1. \A k \in 1 .. prepared : images'[k] = images[k]
    <3>1. images' = Append(images, q) /\ prepared \in 0 .. Len(images)
      BY <1>1 DEF AddImage, BlocksInv
    <3> QED BY <3>1, AppendProperties DEF BlocksInv
  <2>2. Owned(images', prepared) = Owned(images, prepared)
    BY <2>1 DEF Owned
  <2>3. stored' = stored /\ prepared' = prepared
    BY <1>1 DEF AddImage
  <2> QED BY <2>2, <2>3 DEF OwnersInv, Owners
<1>2. CASE Began
  <2>1. stored' = <<>> /\ prepared' = 0
    BY <1>2 DEF Began
  <2>2. Owners' = {} /\ Len(stored') = 0
    BY <2>1 DEF Owners
  <2>3. Owned(images', prepared') = {}
    BY <2>1 DEF Owned
  <2> QED BY <2>1, <2>2, <2>3 DEF OwnersInv
<1>3. CASE PrepareImage
  BY <1>3, OwnersPrepared
<1>4. CASE UNCHANGED <<images, stored, prepared>>
  BY <1>4 DEF OwnersInv, Owners
<1>5. Refused \/ Measure \/ Settle \/ Assembled \/ RenderDistributed \/ Indexed \/ WriteIndex
        \/ UNCHANGED vars
      => UNCHANGED <<images, stored, prepared>>
  BY DEF Refused, Measure, Settle, Assembled, RenderDistributed, Indexed, WriteIndex, vars
<1> QED BY <1>1, <1>2, <1>3, <1>4, <1>5, StepOf

LEMMA PendingMeasured ==
  ASSUME NEW blocks \in Seq(PendingBlock)
  PROVE  Measured(blocks) /\ FirstBlock(Len(blocks)) \in Nat /\ FirstBlock(Len(blocks)) >= 32
<1>1. Len(blocks) \in Nat /\ \A k \in 1 .. Len(blocks) : blocks[k] \in PendingBlock
  BY SeqMember
<1>2. PICK m \in Nat : m = Len(blocks)
  BY <1>1
<1>3. 16 + 16 + 40 * m \in Nat /\ 16 + 16 + 40 * m >= 32
  OBVIOUS
<1> QED BY <1>1, <1>2, <1>3 DEF Measured, PendingBlock, FirstBlock

LEMMA IndexedStep ==
  ASSUME IndexInv, Indexed
  PROVE  IndexInv'
<1>1. PICK m \in Nat : m = Len(elements)
  BY DEF IndexInv
<1>2. PICK first : first = FirstBlock(Len(pending))
  OBVIOUS
<1>3. PICK k \in Nat : k = m + 1
  OBVIOUS
<1>4. k \in 1 .. Len(pending) /\ pending \in Seq(PendingBlock) /\ Len(pending) \in Nat
  BY <1>1, <1>3 DEF Indexed, IndexInv
<1>5. pending[k] \in PendingBlock
  BY <1>4, SeqMember
<1>6. PICK e : e = [id |-> pending[k].id,
                    position |-> Position(pending, first, k),
                    length |-> pending[k].length,
                    uncompressed |-> IF pending[k].uncompressed = None THEN 0
                                     ELSE pending[k].uncompressed]
  OBVIOUS
<1>7. /\ elements' = Append(elements, e) /\ pending' = pending
      /\ pending[k].length # 0 /\ \A j \in 1 .. k - 1 : pending[j].id # pending[k].id
  BY <1>1, <1>2, <1>3, <1>6 DEF Indexed
<1>8. e \in IndexElement
  <2>1. Position(pending, first, k) \in Nat
    <3>1. k \in 1 .. Len(pending) + 1
      BY <1>4
    <3> QED BY <1>2, <1>4, <3>1, PendingMeasured, Positions
  <2> QED BY <1>5, <1>6, <2>1 DEF IndexElement, PendingBlock
<1>9. elements \in Seq(IndexElement)
  BY DEF IndexInv
<1>10. /\ elements' \in Seq(IndexElement) /\ Len(elements') = k
       /\ elements'[k] = e /\ \A j \in 1 .. m : elements'[j] = elements[j]
  BY <1>1, <1>3, <1>7, <1>8, <1>9, AppendProperties
<1>11. \A j \in 1 .. k : j = k \/ j \in 1 .. m
  BY <1>3
<1>12. \A j \in 1 .. k :
         /\ elements'[j].id = pending[j].id
         /\ elements'[j].length = pending[j].length /\ pending[j].length # 0
         /\ elements'[j].position = Position(pending, first, j)
  <2>1. \A j \in 1 .. m :
          /\ elements[j].id = pending[j].id
          /\ elements[j].length = pending[j].length /\ pending[j].length # 0
          /\ elements[j].position = Position(pending, first, j)
    BY <1>1, <1>2 DEF IndexInv
  <2>2. /\ elements'[k].id = pending[k].id
        /\ elements'[k].length = pending[k].length
        /\ elements'[k].position = Position(pending, first, k)
    BY <1>6, <1>10
  <2> QED BY <1>7, <1>10, <1>11, <2>1, <2>2
<1>13. \A i \in 1 .. k : \A j \in 1 .. i - 1 : pending[j].id # pending[i].id
  <2>1. \A i \in 1 .. m : \A j \in 1 .. i - 1 : pending[j].id # pending[i].id
    BY <1>1 DEF IndexInv
  <2> QED BY <1>7, <1>11, <2>1
<1> QED BY <1>2, <1>4, <1>7, <1>10, <1>12, <1>13 DEF IndexInv

LEMMA IndexStep ==
  ASSUME BlocksInv, IndexInv, [Next]_vars
  PROVE  IndexInv'
<1>1. CASE elements' = <<>> /\ pending' \in Seq(PendingBlock)
  <2>1. elements' \in Seq(IndexElement) /\ Len(elements') = 0
    BY <1>1
  <2>2. Len(elements') <= Len(pending')
    BY <1>1, <2>1
  <2> QED BY <1>1, <2>1, <2>2 DEF IndexInv
<1>2. CASE Began
  BY <1>1, <1>2 DEF Began
<1>3. CASE RenderDistributed
  <2>1. stored \in Seq(StoredBlock) /\ \A k \in 1 .. Len(stored) : stored[k] \in StoredBlock
    BY SeqMember DEF BlocksInv
  <2>2. pending' \in [1 .. Len(stored) -> PendingBlock]
    BY <1>3, <2>1 DEF RenderDistributed, StoredBlock, PendingBlock, BlockId
  <2>3. pending' \in Seq(PendingBlock)
    BY <2>1, <2>2
  <2> QED BY <1>1, <1>3, <2>3 DEF RenderDistributed
<1>4. CASE Indexed
  BY <1>4, IndexedStep
<1>5. CASE UNCHANGED <<pending, elements>>
  BY <1>5 DEF IndexInv
<1>6. (\E p \in Pendings : AddImage(p)) \/ Refused \/ PrepareImage \/ Measure \/ Settle \/ Assembled
        \/ WriteIndex \/ UNCHANGED vars
      => UNCHANGED <<pending, elements>>
  BY DEF AddImage, Refused, PrepareImage, Measure, Settle, Assembled, WriteIndex, vars
<1> QED BY <1>1, <1>2, <1>3, <1>4, <1>5, <1>6, StepOf

LEMMA OutputStep ==
  ASSUME SettleInv, OutputInv, [Next]_vars
  PROVE  OutputInv'
<1>1. ASSUME NEW q \in Pendings, AddImage(q) PROVE OutputInv'
  BY <1>1 DEF AddImage, OutputInv, Attachments, Owners, OwnedBlock, Position, Rendered, Identifiers,
              Distributing
<1>2. CASE Began
  BY <1>2 DEF Began, OutputInv, Distributing
<1>3. CASE Refused
  BY <1>3 DEF Refused, OutputInv
<1>4. CASE PrepareImage \/ Measure \/ Settle
  BY <1>4 DEF PrepareImage, Measure, Settle, OutputInv
<1>5. CASE Assembled
  <2>1. header = Attachments(Preamble + assumed)
    BY <1>5 DEF Assembled, SettleInv
  <2>2. Attachments(Preamble + assumed)' = Attachments(Preamble + assumed)
    BY <1>5 DEF Assembled, Attachments, Owners, OwnedBlock, Position
  <2> QED BY <1>5, <2>1, <2>2 DEF Assembled, OutputInv
<1>6. CASE RenderDistributed
  <2>1. Rendered'
    BY <1>6 DEF RenderDistributed, Rendered, Identifiers, Owners, OwnedBlock
  <2> QED BY <1>6, <2>1 DEF RenderDistributed, OutputInv, Distributing
<1>7. CASE Indexed
  BY <1>7 DEF Indexed, OutputInv, Distributing, Rendered, Identifiers, Owners, OwnedBlock
<1>8. CASE WriteIndex
  <2>1. Distributing /\ output'.kind = form
    BY <1>8 DEF WriteIndex, Return, OutputInv
  <2>2. Rendered => Rendered'
    BY <1>8 DEF WriteIndex, Rendered, Identifiers, Owners, OwnedBlock
  <2> QED BY <1>8, <2>1, <2>2 DEF WriteIndex, Return, OutputInv, Distributing
<1>9. CASE UNCHANGED vars
  BY <1>9 DEF vars, OutputInv, Attachments, Owners, OwnedBlock, Position, Rendered, Identifiers,
              Distributing
<1> QED BY <1>1, <1>2, <1>3, <1>4, <1>5, <1>6, <1>7, <1>8, <1>9, StepOf

LEMMA WriterInvHolds ==
  ASSUME HeaderIsMonotone
  PROVE  Spec => []WriterInv
<1>1. Init => SettleInv /\ OwnersInv /\ IndexInv /\ OutputInv
  <2> SUFFICES ASSUME Init PROVE SettleInv /\ OwnersInv /\ IndexInv /\ OutputInv
    OBVIOUS
  <2>1. Owners = {} /\ Owned(images, prepared) = {} /\ Len(stored) = 0 /\ Len(elements) = 0
    BY DEF Init, Owners, Owned
  <2>2. OwnersInv
    BY <2>1 DEF Init, OwnersInv
  <2>3. <<>> \in Seq(PendingBlock) /\ <<>> \in Seq(IndexElement) /\ Len(<<>>) = 0
    OBVIOUS
  <2>4. IndexInv
    BY <2>1, <2>3 DEF Init, IndexInv
  <2> QED BY <2>2, <2>4, SettleInit DEF Init, OutputInv
<1>2. WriterInv /\ [Next]_vars => WriterInv'
  BY BlocksStep, SettleStep, OwnersStep, IndexStep, OutputStep DEF WriterInv
<1> QED BY <1>1, <1>2, BlocksInit, PTL DEF Spec, WriterInv

\* If a header that spells out later positions is not shorter, no round of to_bytes ever
\* assumes a header shorter than the round before, whatever the images (writer.rs:453).
THEOREM RoundsOnlyGoOutward ==
  ASSUME HeaderIsMonotone
  PROVE  Spec => OnlyOutward
<1>1. WriterInv /\ [Next]_vars => [phase = "settle" /\ phase' = "settle" => assumed' > assumed]_vars
  <2> SUFFICES ASSUME WriterInv, [Next]_vars, phase = "settle", phase' = "settle", vars' # vars
               PROVE  assumed' > assumed
    OBVIOUS
  <2>1. CASE Settle
    <3>1. HeaderLen(stored, Preamble + assumed) \in Nat
      BY HeaderIsMonotone DEF HeaderIsMonotone, WriterInv, BlocksInv, SettleInv, Preamble
    <3> QED BY <2>1, <3>1 DEF Settle, WriterInv, SettleInv
  <2>2. ~Settle => phase' # "settle"
    BY DEF Next, Serialise, AddImage, ToBytes, ToDistributed, WriteBlocksFile, Start, Begin,
           PrepareImage, RefuseBlock, Measure, Assemble, RenderDistributed, IndexBlock,
           WriteIndex, Fail, Return
  <2> QED BY <2>1, <2>2
<1> QED BY <1>1, WriterInvHolds, PTL DEF Spec, OnlyOutward

\* A writer only ever holds images it was given, no more than three blocks of each and no
\* more elements than blocks, and a call returns a unit of its own form or an error.
THEOREM WriterIsTyped ==
  ASSUME HeaderIsMonotone
  PROVE  Spec => []TypeOK
<1>1. WriterInv => TypeOK
  <2> SUFFICES ASSUME WriterInv PROVE TypeOK
    OBVIOUS
  <2>1. Len(stored) <= 3 * Len(images)
    <3>1. Len(stored) \in Nat /\ Len(images) \in Nat /\ prepared \in 0 .. Len(images)
      BY DEF WriterInv, BlocksInv
    <3>2. Len(stored) <= 3 * prepared
      BY DEF WriterInv, OwnersInv
    <3> QED BY <3>1, <3>2
  <2>2. images \in Seq(Pendings) /\ prepared \in 0 .. Len(images) /\ assumed \in Nat
    BY DEF WriterInv, BlocksInv, SettleInv
  <2>3. Len(elements) <= Len(pending)
    BY DEF WriterInv, IndexInv
  <2>4. /\ form \in {"none", "attached", "distributed", "blocks"}
        /\ phase \in {"idle", "prepare", "settle", "assemble", "index"}
        /\ output = None \/ output.kind \in {"error", "attached", "distributed", "blocks"}
    BY DEF WriterInv, OutputInv
  <2> QED BY <2>1, <2>2, <2>3, <2>4 DEF TypeOK
<1> QED BY <1>1, WriterInvHolds, PTL

\* In every file to_bytes returns, the locations the header prints are those of its blocks,
\* whole, after the header and inside the file, although the header's own length moves them.
THEOREM AttachmentsArePlaced ==
  ASSUME HeaderIsMonotone
  PROVE  Spec => []AttachmentsPointAtTheirBlocks
<1>1. WriterInv => AttachmentsPointAtTheirBlocks
  <2> SUFFICES ASSUME WriterInv, output # None, output.kind = "attached"
               PROVE  /\ DOMAIN output.header = {output.blocks[k].owner : k \in 1 .. Len(output.blocks)}
                      /\ \A k \in 1 .. Len(output.blocks) :
                           LET place == output.header[output.blocks[k].owner]
                           IN  /\ place = Extent(output.blocks, Preamble + output.headerLen, k)
                               /\ place.at >= Preamble + output.headerLen
                               /\ place.at + place.length <= AttachedLen(output)
    BY DEF AttachmentsPointAtTheirBlocks
  <2>1. /\ output.header = header /\ output.headerLen = assumed /\ output.blocks = stored
        /\ header = Attachments(Preamble + assumed)
    BY DEF WriterInv, OutputInv
  <2>2. DOMAIN header = {stored[k].owner : k \in 1 .. Len(stored)}
    BY <2>1 DEF Attachments, Owners
  <2>3. PICK base \in Nat : base = Preamble + assumed
    BY DEF WriterInv, SettleInv, Preamble
  <2>4. Measured(stored)
    <3>1. stored \in Seq(StoredBlock)
      BY DEF WriterInv, BlocksInv
    <3>2. \A k \in 1 .. Len(stored) : stored[k] \in StoredBlock
      BY <3>1, SeqMember
    <3> QED BY <3>1, <3>2 DEF Measured, StoredBlock
  <2>5. ASSUME NEW k \in 1 .. Len(stored)
        PROVE  /\ header[stored[k].owner] = Extent(stored, base, k)
               /\ Extent(stored, base, k).at >= base
               /\ Extent(stored, base, k).at + Extent(stored, base, k).length
                    <= Position(stored, base, Len(stored) + 1)
    <3>1. header[stored[k].owner] = Extent(stored, base, k)
      <4>1. stored[k].owner \in Owners
        BY DEF Owners
      <4>2. OwnedBlock(stored[k].owner) = k
        BY OwnerFinds DEF WriterInv
      <4> QED BY <2>1, <2>3, <4>1, <4>2 DEF Attachments, Extent
    <3>2. k \in 1 .. Len(stored) + 1 /\ Len(stored) + 1 \in 1 .. Len(stored) + 1 /\ k < Len(stored) + 1
      BY <2>4 DEF Measured
    <3>3. /\ Position(stored, base, k) >= base
          /\ Position(stored, base, k) + stored[k].length <= Position(stored, base, Len(stored) + 1)
      BY <2>4, <3>2, Positions
    <3> QED BY <3>1, <3>3 DEF Extent
  <2> QED BY <2>1, <2>2, <2>3, <2>5 DEF AttachedLen
<1> QED BY <1>1, WriterInvHolds, PTL

\* Every image added before a call is in the unit it returns with every block it owns,
\* exactly once, and nothing else is.
THEOREM NoBlockIsLost ==
  ASSUME HeaderIsMonotone
  PROVE  Spec => []EveryBlockIsWritten
<1>1. WriterInv => EveryBlockIsWritten
  <2> SUFFICES ASSUME WriterInv, output # None, output.kind \in {"attached", "distributed"}
               PROVE  /\ DOMAIN output.header = Owned(images, prepared)
                      /\ Len(output.blocks) = Cardinality(DOMAIN output.header)
    BY DEF EveryBlockIsWritten, Owned
  <2>1. DOMAIN output.header = Owners /\ Len(output.blocks) = Len(stored)
    <3>1. CASE output.kind = "attached"
      BY <3>1 DEF WriterInv, OutputInv, Attachments
    <3>2. CASE output.kind = "distributed"
      <4>1. output.header = header /\ output.blocks = pending /\ Rendered
        BY <3>2 DEF WriterInv, OutputInv
      <4>2. Len(stored) \in Nat
        BY DEF WriterInv, BlocksInv
      <4> QED BY <4>1, <4>2 DEF Rendered, Identifiers
    <3> QED BY <3>1, <3>2
  <2>2. Owners = Owned(images, prepared)
    BY DEF WriterInv, OwnersInv
  <2>3. Cardinality(Owners) = Len(stored)
    <3> DEFINE f == [k \in 1 .. Len(stored) |-> stored[k].owner]
    <3>1. f \in Bijection(1 .. Len(stored), Owners)
      <4>1. f \in [1 .. Len(stored) -> Owners]
        BY DEF Owners
      <4>2. \A a, b \in 1 .. Len(stored) : f[a] = f[b] => a = b
        BY DEF WriterInv, BlocksInv
      <4>3. \A o \in Owners : \E k \in 1 .. Len(stored) : f[k] = o
        BY DEF Owners
      <4> HIDE DEF f
      <4> QED BY <4>1, <4>2, <4>3, Fun_IsBij
    <3>2. ExistsBijection(1 .. Len(stored), Owners)
      BY <3>1, Zenon DEF ExistsBijection
    <3>3. Len(stored) \in Nat
      BY DEF WriterInv, BlocksInv
    <3> QED BY <3>2, <3>3, FS_CountingElements
  <2> QED BY <2>1, <2>2, <2>3
<1> QED BY <1>1, WriterInvHolds, PTL

-----------------------------------------------------------------------------
(***************************************************************************)
(* The index of a data blocks file, as a reader takes it from the words of *)
(* the file.                                                               *)
(***************************************************************************)
LEMMA WordOf ==
  ASSUME NEW unit, Len(unit.elements) \in Nat, NEW i \in 0 .. Len(unit.elements) - 1
  PROVE  /\ BlocksFileWord(unit, 32 + 40 * i) = unit.elements[i + 1].id
         /\ BlocksFileWord(unit, 32 + 40 * i + 8) = unit.elements[i + 1].position
         /\ BlocksFileWord(unit, 32 + 40 * i + 16) = unit.elements[i + 1].length
<1>1. PICK m \in Nat : m = Len(unit.elements)
  OBVIOUS
<1>2. i \in Nat /\ i < m
  BY <1>1
<1>3. ASSUME NEW w \in 0 .. 2
      PROVE  BlocksFileWord(unit, 32 + 40 * i + 8 * w) = ElementWord(unit.elements[i + 1], w)
  <2>1. PICK at : at = 32 + 40 * i + 8 * w
    OBVIOUS
  <2>2. at >= 32 /\ at < 16 + 16 + 40 * m /\ at # 0 /\ at # 16
    BY <1>2, <2>1
  <2>3. (at - 32) \div 40 = i /\ ((at - 32) % 40) \div 8 = w
    BY <1>2, <2>1
  <2>4. BlocksFileWord(unit, at) = ElementWord(unit.elements[(at - 32) \div 40 + 1], ((at - 32) % 40) \div 8)
    BY <1>1, <2>2 DEF BlocksFileWord, FirstBlock
  <2> QED BY <2>1, <2>3, <2>4
<1>4. BlocksFileWord(unit, 32 + 40 * i + 8 * 0) = unit.elements[i + 1].id
  BY <1>3 DEF ElementWord
<1>5. BlocksFileWord(unit, 32 + 40 * i + 8 * 1) = unit.elements[i + 1].position
  BY <1>3 DEF ElementWord
<1>6. BlocksFileWord(unit, 32 + 40 * i + 8 * 2) = unit.elements[i + 1].length
  BY <1>3 DEF ElementWord
<1>7. 32 + 40 * i + 8 * 0 = 32 + 40 * i /\ 8 * 1 = 8 /\ 8 * 2 = 16
  BY <1>2
<1> QED BY <1>4, <1>5, <1>6, <1>7

LEMMA Wrapped ==
  ASSUME NEW x \in Nat, NEW m \in Nat \ {0}
  PROVE  /\ (x % m) % m = x % m /\ (x % m) \div m = 0 /\ x % m \in Nat /\ x % m <= x
<1>1. x % m \in 0 .. m - 1
  OBVIOUS
<1>2. \A y \in 0 .. m - 1 : y % m = y /\ y \div m = 0
  OBVIOUS
<1>3. x % m <= x
  OBVIOUS
<1> QED BY <1>1, <1>2, <1>3

\* The node of a written file: its words, and the elements it counts.
LEMMA NodeOf ==
  ASSUME NEW unit, Len(unit.elements) \in Nat
  PROVE  /\ Index!NodeCount(unit, 16) = Len(unit.elements) % MaxHeader
         /\ Index!NodeReserved(unit, 16) = 0 /\ Index!NodeNext(unit, 16) = 0
         /\ BlocksFileWord(unit, 0) = "XISB0100" /\ BlocksFileWord(unit, 8) = 0
<1>1. PICK m \in Nat : m = Len(unit.elements)
  OBVIOUS
<1>2. BlocksFileWord(unit, 16) = m % MaxHeader /\ BlocksFileWord(unit, 0) = "XISB0100"
  BY <1>1 DEF BlocksFileWord
<1>3. BlocksFileWord(unit, 8) = 0 /\ BlocksFileWord(unit, 16 + 8) = 0
  BY <1>1 DEF BlocksFileWord
<1>4. (m % MaxHeader) % MaxHeader = m % MaxHeader /\ (m % MaxHeader) \div MaxHeader = 0
  BY WriterAssumption, Wrapped
<1> QED BY <1>1, <1>2, <1>3, <1>4 DEF Index!NodeCount, Index!NodeReserved, Index!NodeNext

\* The elements a reader finds are among those that were written.
LEMMA OffsetsOf ==
  ASSUME NEW unit, Len(unit.elements) \in Nat,
         NEW a \in Index!ElementOffsets(unit, SingleNode(unit))
  PROVE  \E i \in 0 .. Len(unit.elements) - 1 :
           /\ a = 32 + 40 * i
           /\ Index!Element(unit, a).id = unit.elements[i + 1].id
           /\ Index!Element(unit, a).position = unit.elements[i + 1].position
           /\ Index!Element(unit, a).length = unit.elements[i + 1].length
<1>1. PICK m \in Nat : m = Len(unit.elements)
  OBVIOUS
<1>2. PICK i \in 0 .. (m % MaxHeader) - 1 : a = 16 + 16 + i * 40
  <2>1. PICK c : c = SingleNode(unit)
    OBVIOUS
  <2>2. Len(c) = 1 /\ c[1].at = 16
    BY <2>1 DEF SingleNode
  <2>3. PICK k \in 1 .. Len(c) : \E i \in 0 .. Index!NodeCount(unit, c[k].at) - 1 :
          a = c[k].at + 16 + i * 40
    BY <2>1 DEF Index!ElementOffsets, Index!ElementAt, Index!NodeHeaderLen, Index!ElementLen
  <2>4. k = 1
    BY <2>2
  <2> QED BY <1>1, <2>2, <2>3, <2>4, NodeOf
<1>3. i \in 0 .. m - 1 /\ a = 32 + 40 * i
  <2>1. m % MaxHeader <= m /\ m % MaxHeader \in Nat
    BY WriterAssumption, Wrapped
  <2> QED BY <1>2, <2>1
<1>4. /\ Index!Element(unit, a).id = unit.elements[i + 1].id
      /\ Index!Element(unit, a).position = unit.elements[i + 1].position
      /\ Index!Element(unit, a).length = unit.elements[i + 1].length
  BY <1>1, <1>3, WordOf DEF Index!Element
<1> QED BY <1>1, <1>3, <1>4

LEMMA IndexFits ==
  ASSUME NEW unit, IndexInv, Len(elements) = Len(pending),
         unit.elements = elements, unit.blocks = pending
  PROVE  /\ \A k \in 1 .. Len(elements) :
              /\ elements[k].position # 0
              /\ elements[k].position + elements[k].length <= BlocksFileLen(unit)
              /\ \A j \in 1 .. k - 1 :
                   /\ elements[j].position + elements[j].length <= elements[k].position
                   /\ elements[j].id # elements[k].id
         /\ BlocksFileLen(unit) \in Nat
         /\ BlocksFileLen(unit) >= FirstBlock(Len(elements))
<1>1. PICK m \in Nat : m = Len(pending) /\ m = Len(elements)
  BY DEF IndexInv
<1>2. PICK first : first = FirstBlock(m)
  OBVIOUS
<1>3. Measured(pending) /\ first \in Nat /\ first >= 32
  BY <1>1, <1>2, PendingMeasured DEF IndexInv
<1>4. /\ \A k \in 1 .. m + 1 : /\ Position(pending, first, k) \in Nat
                              /\ Position(pending, first, k) >= first
      /\ \A k \in 1 .. m + 1, j \in 1 .. m :
           j < k => Position(pending, first, j) + pending[j].length <= Position(pending, first, k)
  BY <1>1, <1>3, Positions
<1>5. BlocksFileLen(unit) = Position(pending, first, m + 1)
  BY <1>1, <1>2 DEF BlocksFileLen
<1>6. \A k \in 1 .. m : /\ elements[k].id = pending[k].id
                        /\ elements[k].length = pending[k].length
                        /\ elements[k].position = Position(pending, first, k)
  BY <1>1, <1>2 DEF IndexInv
<1>7. ASSUME NEW k \in 1 .. m
      PROVE  /\ elements[k].position # 0
             /\ elements[k].position + elements[k].length <= BlocksFileLen(unit)
             /\ \A j \in 1 .. k - 1 :
                  /\ elements[j].position + elements[j].length <= elements[k].position
                  /\ elements[j].id # elements[k].id
  <2>1. k \in 1 .. m + 1 /\ m + 1 \in 1 .. m + 1 /\ k < m + 1
    OBVIOUS
  <2>2. elements[k].position # 0
    BY <1>3, <1>4, <1>6, <2>1
  <2>3. elements[k].position + elements[k].length <= BlocksFileLen(unit)
    BY <1>4, <1>5, <1>6, <2>1
  <2>4. ASSUME NEW j \in 1 .. k - 1
        PROVE  /\ elements[j].position + elements[j].length <= elements[k].position
               /\ elements[j].id # elements[k].id
    <3>1. j \in 1 .. m /\ j < k
      OBVIOUS
    <3>2. pending[j].id # pending[k].id
      BY <1>1 DEF IndexInv
    <3> QED BY <1>4, <1>6, <2>1, <3>1, <3>2
  <2> QED BY <2>2, <2>3, <2>4
<1>8. BlocksFileLen(unit) \in Nat /\ BlocksFileLen(unit) >= first
  <2>1. m + 1 \in 1 .. m + 1
    OBVIOUS
  <2> QED BY <1>4, <1>5, <2>1
<1> QED BY <1>1, <1>2, <1>7, <1>8

LEMMA IndexIsWellFormed ==
  ASSUME NEW unit, IndexInv, Len(elements) = Len(pending),
         unit.elements = elements, unit.blocks = pending
  PROVE  Index!WellFormed(unit)
<1>1. PICK m \in Nat : m = Len(elements) /\ m = Len(unit.elements)
  BY DEF IndexInv
<1>2. PICK len \in Nat : len = BlocksFileLen(unit) /\ len >= 32 + 40 * m
  <2>1. BlocksFileLen(unit) \in Nat /\ BlocksFileLen(unit) >= FirstBlock(m)
    BY <1>1, IndexFits
  <2> QED BY <2>1 DEF FirstBlock
<1>3. PICK c : c = SingleNode(unit)
  OBVIOUS
<1>4. /\ c \in Seq([at : Nat, before : Nat]) /\ Len(c) = 1
      /\ c[1] = [at |-> 16, before |-> 0] /\ c[1].at = 16 /\ c[1].before = 0
  BY <1>3 DEF SingleNode
<1>5. /\ Index!NodeCount(unit, 16) = m % MaxHeader /\ Index!NodeReserved(unit, 16) = 0
      /\ Index!NodeNext(unit, 16) = 0
      /\ BlocksFileWord(unit, 0) = "XISB0100" /\ BlocksFileWord(unit, 8) = 0
  BY <1>1, NodeOf
<1>6. PICK count \in Nat : count = m % MaxHeader /\ count <= m
  BY WriterAssumption, Wrapped
<1>7. Index!PreambleError(unit) = "none"
  BY <1>2, <1>5 DEF Index!PreambleError, Index!PreambleLen
<1>8. Index!IsChain(unit, c)
  <2>1. count <= len \div 40 /\ 16 + 16 <= len /\ 16 + 16 + count * 40 <= len
    BY <1>2, <1>6
  <2>2. Index!NodeInside(unit, c[1])
    BY <1>2, <1>4, <1>5, <1>6, <2>1 DEF Index!NodeInside, Index!NodeHeaderLen, Index!ElementAt,
                                        Index!ElementLen, Index!MaxElements
  <2>3. Index!Linked(unit, c, 1)
    BY <1>4, <1>5 DEF Index!Linked
  <2>4. \A k \in 1 .. Len(c) : k = 1
    BY <1>4
  <2>5. Len(c) \in 1 .. 100000 - 1 /\ c[1] = [at |-> Index!PreambleLen, before |-> 0]
    BY <1>4 DEF Index!PreambleLen
  <2> QED BY <1>4, <2>2, <2>3, <2>4, <2>5 DEF Index!IsChain
<1>9. \A k \in 1 .. m :
        /\ elements[k].position + elements[k].length <= len
        /\ \A j \in 1 .. k - 1 : elements[j].id # elements[k].id
  BY <1>1, <1>2, IndexFits
<1>10. \A a \in Index!ElementOffsets(unit, c) : \E i \in 0 .. m - 1 :
         /\ a = 32 + 40 * i
         /\ Index!Element(unit, a).id = elements[i + 1].id
         /\ Index!Element(unit, a).position = elements[i + 1].position
         /\ Index!Element(unit, a).length = elements[i + 1].length
  BY <1>1, <1>3, OffsetsOf
<1>11. Index!ElementsUnique(unit, c)
  <2> SUFFICES ASSUME NEW a \in Index!ElementOffsets(unit, c), NEW b \in Index!ElementOffsets(unit, c),
                      Index!Element(unit, a).id = Index!Element(unit, b).id
               PROVE  a = b
    BY DEF Index!ElementsUnique
  <2>1. PICK i \in 0 .. m - 1 : a = 32 + 40 * i /\ Index!Element(unit, a).id = elements[i + 1].id
    BY <1>10
  <2>2. PICK j \in 0 .. m - 1 : b = 32 + 40 * j /\ Index!Element(unit, b).id = elements[j + 1].id
    BY <1>10
  <2>3. elements[i + 1].id = elements[j + 1].id
    BY <2>1, <2>2
  <2>4. CASE i < j
    <3>1. j + 1 \in 1 .. m /\ i + 1 \in 1 .. (j + 1) - 1
      BY <2>4
    <3> QED BY <1>9, <2>3, <3>1
  <2>5. CASE j < i
    <3>1. i + 1 \in 1 .. m /\ j + 1 \in 1 .. (i + 1) - 1
      BY <2>5
    <3> QED BY <1>9, <2>3, <3>1
  <2>6. CASE i = j
    BY <2>1, <2>2, <2>6
  <2> QED BY <2>4, <2>5, <2>6
<1>12. Index!BlocksInside(unit, c)
  <2> SUFFICES ASSUME NEW a \in Index!ElementOffsets(unit, c)
               PROVE  Index!Element(unit, a).position + Index!Element(unit, a).length <= len
    BY <1>2 DEF Index!BlocksInside
  <2>1. PICK i \in 0 .. m - 1 : /\ Index!Element(unit, a).position = elements[i + 1].position
                                /\ Index!Element(unit, a).length = elements[i + 1].length
    BY <1>10
  <2>2. i + 1 \in 1 .. m
    OBVIOUS
  <2> QED BY <1>9, <2>1, <2>2
<1> QED BY <1>3, <1>7, <1>8, <1>11, <1>12 DEF Index!WellFormed

\* Every index write_blocks_file returns, for to_distributed or for a caller, is one the
\* readers accept, and no two of its blocks share a byte.
THEOREM WrittenIndexIsAccepted ==
  ASSUME HeaderIsMonotone
  PROVE  Spec => []WrittenIndexIsWellFormed
<1>1. WriterInv => WrittenIndexIsWellFormed
  <2> SUFFICES ASSUME WriterInv, output # None, output.kind \in {"distributed", "blocks"}
               PROVE  /\ Index!WellFormed(output)
                      /\ \A k \in 1 .. Len(output.elements) :
                           LET e == output.elements[k]
                           IN  /\ ~Index!IsFree(e)
                               /\ \A j \in 1 .. k - 1 :
                                    output.elements[j].position + output.elements[j].length
                                      <= e.position
    BY DEF WrittenIndexIsWellFormed
  <2>1. /\ output.elements = elements /\ output.blocks = pending /\ Len(elements) = Len(pending)
        /\ IndexInv
    BY DEF WriterInv, OutputInv
  <2>2. Index!WellFormed(output)
    BY <2>1, IndexIsWellFormed
  <2>3. \A k \in 1 .. Len(elements) :
          /\ elements[k].position # 0
          /\ \A j \in 1 .. k - 1 :
               elements[j].position + elements[j].length <= elements[k].position
    BY <2>1, IndexFits
  <2> QED BY <2>1, <2>2, <2>3 DEF Index!IsFree
<1> QED BY <1>1, WriterInvHolds, PTL

\* In every distributed unit, the identifier the header gives for a block is that of one
\* element of the index, which points at the block and at the whole of it.
THEOREM IdentifiersName ==
  ASSUME HeaderIsMonotone
  PROVE  Spec => []IdentifiersNameTheirBlocks
<1>1. WriterInv => IdentifiersNameTheirBlocks
  <2> SUFFICES ASSUME WriterInv, output # None, output.kind = "distributed", NEW k \in 1 .. Len(stored)
               PROVE  LET named == {e \in {output.elements[j] : j \in 1 .. Len(output.elements)} :
                                      e.id = output.header[stored[k].owner]}
                          place == Extent(stored, FirstBlock(Len(stored)), k)
                      IN  {[at |-> e.position, length |-> e.length] : e \in named} = {place}
    BY DEF IdentifiersNameTheirBlocks
  <2>1. /\ output.elements = elements /\ output.header = header /\ Len(elements) = Len(pending)
        /\ IndexInv /\ Rendered
    BY DEF WriterInv, OutputInv
  <2>2. PICK m \in Nat : m = Len(stored)
    BY DEF WriterInv, BlocksInv
  <2>3. /\ Len(pending) = m /\ Len(elements) = m
        /\ \A j \in 1 .. m : pending[j].id = j /\ pending[j].length = stored[j].length
    BY <2>1, <2>2 DEF Rendered, BlockId
  <2>4. PICK first \in Nat : first = FirstBlock(m)
    BY DEF FirstBlock
  <2>5. header[stored[k].owner] = k
    <3>1. stored[k].owner \in Owners
      BY DEF Owners
    <3> QED BY <2>1, <3>1, OwnerFinds DEF Rendered, Identifiers, BlockId, WriterInv
  <2>6. \A j \in 1 .. m : /\ elements[j].id = j /\ elements[j].length = stored[j].length
                          /\ elements[j].position = Position(pending, first, j)
    BY <2>1, <2>3, <2>4 DEF IndexInv
  <2>7. Position(pending, first, k) = Position(stored, first, k)
    <3>1. Measured(stored)
      <4>1. stored \in Seq(StoredBlock)
        BY DEF WriterInv, BlocksInv
      <4>2. \A j \in 1 .. Len(stored) : stored[j] \in StoredBlock
        BY <4>1, SeqMember
      <4> QED BY <4>1, <4>2 DEF Measured, StoredBlock
    <3> QED BY <2>2, <2>3, <3>1, PositionsAlike
  <2>8. {e \in {elements[j] : j \in 1 .. m} : e.id = k} = {elements[k]}
    BY <2>2, <2>6
  <2>9. [at |-> elements[k].position, length |-> elements[k].length] = Extent(stored, first, k)
    BY <2>2, <2>6, <2>7 DEF Extent
  <2>10. PICK e : e = elements[k]
    OBVIOUS
  <2>11. {[at |-> x.position, length |-> x.length] : x \in {e}} = {[at |-> e.position, length |-> e.length]}
    OBVIOUS
  <2> QED BY <2>1, <2>2, <2>3, <2>4, <2>5, <2>8, <2>9, <2>10, <2>11
<1> QED BY <1>1, WriterInvHolds, PTL
=============================================================================
