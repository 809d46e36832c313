---------------------------- MODULE MCBlockLookup -----------------------------
(***************************************************************************)
(* Small data blocks files, word by word.  Byte 8k of a file is word k:    *)
(*                                                                         *)
(*    0 signature      2 node A: count, reserved     9 node B: count       *)
(*    1 reserved       3 node A: next               10 node B: next        *)
(*                     4 element: id                11 element: id         *)
(*                     5 element: position          12 element: position   *)
(*                     6 element: length            13 element: length     *)
(*                                                                         *)
(* The words of A's element are also a node at byte 32, those of B are     *)
(* also A's second element, and so on: the files include lists that loop,  *)
(* nodes that overlap, and nodes and blocks that run past the end.         *)
(***************************************************************************)
EXTENDS BlockLookup, TLC

CONSTANT Unaligned   \* what is read at an offset that no word starts at

Words == 0 .. 16
Sig == 100000
NarrowHalf == 1000

\* The file of a few given words; the rest are zero.
Lay(len, given) ==
  [len |-> len, word |-> given @@ [k \in Words |-> 0]]

IndexFiles ==
  {Lay(136, (0 :> Sig) @@ (2 :> a) @@ (3 :> b) @@ (4 :> 1) @@ (5 :> d) @@ (6 :> e)
              @@ (9 :> g) @@ (10 :> h) @@ (11 :> n) @@ (12 :> o) @@ (13 :> 8)) :
     a \in {0, 1, 2}, b \in {0, 16, 32, 72, 128},
     d \in {0, 72, 128}, e \in {8, 16},
     g \in {0, 1, 2, NarrowHalf}, h \in {0, 16}, n \in {1, 2}, o \in {0, 112}}

\* A plain resource, blocks files cut inside the preamble and the first node, one with
\* a reserved field that is not zero, one with more nodes than MaxNodes, and one with room
\* for a single element.
OddFiles ==
  {Lay(136, <<>>), Lay(0, <<>>), Lay(8, (0 :> Sig)), Lay(24, (0 :> Sig)),
   Lay(136, (0 :> Sig) @@ (1 :> 1)),
   Lay(136, (0 :> Sig) @@ (3 :> 32) @@ (5 :> 48) @@ (7 :> 64) @@ (9 :> 80)),
   Lay(72, (0 :> Sig) @@ (2 :> 1) @@ (4 :> 1) @@ (5 :> 64) @@ (6 :> 8))}

MCFiles == IndexFiles \cup OddFiles

MCFileLen(f) == f.len

MCU64(f, offset) ==
  IF offset % 8 = 0 /\ offset \div 8 \in Words THEN f.word[offset \div 8] ELSE Unaligned

\* The nodes of f in list order, as far as they lie inside the file and repeat no
\* position, at most MaxNodes of them.
RECURSIVE Follow(_, _, _, _)
Follow(f, p, before, chain) ==
  IF p = 0 \/ Len(chain) = MaxNodes \/ ~NodeInside(f, [at |-> p, before |-> before])
     \/ \E k \in 1 .. Len(chain) : chain[k].at = p
  THEN chain
  ELSE Follow(f, NodeNext(f, p), before + NodeCount(f, p),
              Append(chain, [at |-> p, before |-> before]))

MCChainOf(f) == Follow(f, PreambleLen, 0, <<>>)
=============================================================================
