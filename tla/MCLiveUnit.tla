------------------------------ MODULE MCLiveUnit ------------------------------
(***************************************************************************)
(* A handful of versions of one unit, word by word (byte 8k is word k):    *)
(*                                                                         *)
(*    0 signature   2 count   4..8 element   9..13 element   14 blocks     *)
(*    1 reserved    3 next                                                 *)
(*                                                                         *)
(* and a second node at word 16 where a version has one.                   *)
(***************************************************************************)
EXTENDS LiveUnit, TLC

Words == 0 .. 25
Sig == 100000
NarrowHalf == 1000

Lay(len, given) ==
  [len |-> len, word |-> given @@ [k \in Words |-> 0]]

Front == (0 :> Sig) @@ (2 :> 2)
Block1 == (4 :> 1) @@ (5 :> 112) @@ (6 :> 8)
Block2 == (9 :> 2) @@ (10 :> 120) @@ (11 :> 8)

\* One block and a free element; the free element filled; a node added after either.
OneAndFree == Lay(120, Front @@ Block1)
Filled == Lay(128, Front @@ Block1 @@ Block2)
TailNode == (3 :> 128) @@ (16 :> 1) @@ (18 :> 2) @@ (19 :> 184) @@ (20 :> 16)
Both == Lay(200, Front @@ Block1 @@ Block2 @@ (3 :> 128) @@ (16 :> 1) @@ (18 :> 3) @@ (19 :> 184) @@ (20 :> 16))
Longer == Lay(200, Front @@ Block1 @@ TailNode)

\* The same identifiers laid out the other way round, and block 1 alone in two nodes.
Swapped == Lay(128, Front @@ (4 :> 2) @@ (5 :> 112) @@ (6 :> 8) @@ (9 :> 1) @@ (10 :> 120) @@ (11 :> 8))
LateOne == Lay(200, Front @@ (3 :> 128) @@ (16 :> 1) @@ (18 :> 1) @@ (19 :> 184) @@ (20 :> 16))

\* A blocks file cut short, one whose list loops, one longer than
\* MaxNodes, one cut after its signature, and
\* plain files.
Cut == Lay(72, (0 :> Sig) @@ (2 :> 1) @@ (4 :> 1) @@ (5 :> 112) @@ (6 :> 8))
Looped == Lay(128, Front @@ (3 :> 16) @@ Block2)
LongList == Lay(128, (0 :> Sig) @@ (3 :> 32) @@ (5 :> 48) @@ (7 :> 64) @@ (9 :> 80))
Stub == Lay(8, (0 :> Sig))
Plain == Lay(128, <<>>)
Empty == Lay(0, <<>>)

Contents ==
  [OneAndFree |-> OneAndFree, Filled |-> Filled, Longer |-> Longer, Swapped |-> Swapped,
   LateOne |-> LateOne, Cut |-> Cut, Looped |-> Looped, Stub |-> Stub, Plain |-> Plain,
   Empty |-> Empty, Both |-> Both,
   LongList |-> LongList]

MCFiles == DOMAIN Contents

MCFileLen(f) == Contents[f].len

MCU64(f, offset) ==
  IF offset % 8 = 0 /\ offset \div 8 \in Words THEN Contents[f].word[offset \div 8] ELSE 0

MCGrowths == {<<"OneAndFree", "Filled">>, <<"OneAndFree", "Longer">>, <<"OneAndFree", "Both">>,
               <<"Filled", "Both">>}

\* The nodes of f in list order, as far as they lie inside the file and repeat no
\* position, at most MaxNodes of them.
RECURSIVE Follow(_, _, _, _)
Follow(f, p, before, chain) ==
  IF p = 0 \/ Len(chain) = MaxNodes \/ ~NodeInside(f, [at |-> p, before |-> before])
     \/ \E k \in 1 .. Len(chain) : chain[k].at = p
  THEN chain
  ELSE Follow(f, NodeNext(f, p), before + NodeCount(f, p),
              Append(chain, [at |-> p, before |-> before]))

MCChainOf(f) == Follow(f, PreambleLen, 0, <<>>)
=============================================================================
