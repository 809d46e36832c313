------------------------------- MODULE Shuffle --------------------------------
(***************************************************************************)
(* Byte shuffling, codec::shuffle and codec::unshuffle: the bytes of a     *)
(* block are regrouped so that byte 0 of every item comes first, then      *)
(* byte 1 of every item, and so on.                                        *)
(***************************************************************************)
EXTENDS Naturals, Sequences

\* Nothing to regroup: an item of one byte, or not one whole item.
Unshuffled(s, item) == item < 2 \/ Len(s) < item

\* Byte b of item k is stored at b * count + k; what does not fill an item stays.
Shuffle(s, item) ==
  LET count == Len(s) \div item
  IN  IF Unshuffled(s, item) THEN s
      ELSE [j \in 1 .. Len(s) |->
              IF j > count * item THEN s[j]
              ELSE s[((j - 1) % count) * item + (j - 1) \div count + 1]]

\* Mutant of Unshuffle: the planes are taken for items.
UnshuffleTransposed(s, item) == Shuffle(s, item)

Unshuffle(s, item) ==
  LET count == Len(s) \div item
  IN  IF Unshuffled(s, item) THEN s
      ELSE [j \in 1 .. Len(s) |->
              IF j > count * item THEN s[j]
              ELSE s[((j - 1) % item) * count + (j - 1) \div item + 1]]
=============================================================================
