------------------------------ MODULE BlockIndex ------------------------------
(***************************************************************************)
(* The XISF data blocks file (.xisb) as it lies on disk.                   *)
(*                                                                         *)
(* A file is seen through two operators: its length in bytes and the       *)
(* little-endian 64-bit word at a byte offset.  Nodes and elements are     *)
(* read out of the same words, so two nodes may overlap and the bytes of   *)
(* an element may be taken for a node, as in the code.                     *)
(***************************************************************************)
EXTENDS Naturals, Sequences

CONSTANTS
  Files,        \* the regular files a locator may name
  Missing,      \* what a path names when nothing is there
  NotRegular,   \* what it names when a directory, a device or a pipe is there
  FileLen(_),   \* length of a file in bytes
  U64(_, _),    \* U64(f, at): the 64-bit word of file f at byte offset at
  Half,         \* 2^32: a node header packs two 32-bit fields in its first word
  Signature,    \* the word "XISB0100"
  MaxNodes,     \* MAX_NODES, the bound of the walk
  ChainOf(_),   \* ChainOf(f): the node list f is claimed to hold (see IsChain)
  Ids,          \* the block identifiers a locator may carry
  NoIndex       \* a locator without the ":id" suffix

ASSUME FileAssumption ==
  \A f \in Files : /\ FileLen(f) \in Nat
                   /\ \A at \in 0 .. FileLen(f) : U64(f, at) \in Nat

ASSUME BoundAssumption ==
  /\ Half \in Nat \ {0}
  /\ MaxNodes \in Nat \ {0}
  /\ Ids \subseteq Nat
  /\ NoIndex \notin Ids
  /\ Missing \notin Files /\ NotRegular \notin Files

\* What a path may name.
Entries == Files \cup {Missing, NotRegular}

PreambleLen == 16
NodeHeaderLen == 16
ElementLen == 40

(***************************************************************************)
(* The node header at byte p: element count, reserved field, next node.    *)
(***************************************************************************)
NodeCount(f, p) == U64(f, p) % Half
NodeReserved(f, p) == U64(f, p) \div Half
NodeNext(f, p) == U64(f, p + 8)

(***************************************************************************)
(* IndexElement: `at` is where it was read, the rest its fields.  The      *)
(* uncompressed length and the reserved word are not used by any lookup.   *)
(***************************************************************************)
Element(f, at) ==
  [id |-> U64(f, at), position |-> U64(f, at + 8), length |-> U64(f, at + 16)]

\* IndexElement::is_free: a placeholder for a block not yet written.
IsFree(e) == e.position = 0

ElementAt(p, i) == p + NodeHeaderLen + i * ElementLen

\* No honest file describes more blocks than it has room for elements.
MaxElements(len) == len \div ElementLen

IsBlocksFile(f) == FileLen(f) >= 8 /\ U64(f, 0) = Signature

(***************************************************************************)
(* Why a walk refuses the preamble, or "none".                             *)
(***************************************************************************)
PreambleError(f) ==
  IF FileLen(f) < PreambleLen THEN "Truncated"
  ELSE IF U64(f, 0) # Signature THEN "NotXisf"
  ELSE IF U64(f, 8) # 0 THEN "BadHeader"
  ELSE "none"

(***************************************************************************)
(* Answers of a lookup.  `from` is the file the bytes were taken from.     *)
(***************************************************************************)
Errors == {"Truncated", "NotXisf", "BadHeader", "BadAttribute", "NotFound", "Io"}

Pending == [kind |-> "pending"]
Refused(e) == [kind |-> "refused", error |-> e]
Slice(f, at, n) == [kind |-> "slice", from |-> f, at |-> at, length |-> n]
Whole(f) == [kind |-> "whole", from |-> f]

Answers ==
  {Pending} \cup {Refused(e) : e \in Errors}
    \cup [kind : {"slice"}, from : Files, at : Nat, length : Nat]
    \cup [kind : {"whole"}, from : Files]

(***************************************************************************)
(* What a well-formed index is, without walking it: a finite sequence of   *)
(* nodes, each with the number of elements `before` it, that starts at     *)
(* byte 16, follows the next pointers to the zero that ends the list and   *)
(* stays inside the file.                                                  *)
(***************************************************************************)
NodeInside(f, n) ==
  /\ n.at # 0
  /\ n.at + NodeHeaderLen <= FileLen(f)
  /\ ElementAt(n.at, NodeCount(f, n.at)) <= FileLen(f)
  /\ NodeReserved(f, n.at) = 0
  /\ n.before + NodeCount(f, n.at) <= MaxElements(FileLen(f))

Linked(f, c, k) ==
  IF k = Len(c)
  THEN NodeNext(f, c[k].at) = 0
  ELSE /\ c[k + 1].at = NodeNext(f, c[k].at)
       /\ c[k + 1].before = c[k].before + NodeCount(f, c[k].at)

IsChain(f, c) ==
  /\ c \in Seq([at : Nat, before : Nat])
  /\ Len(c) \in 1 .. MaxNodes - 1
  /\ c[1] = [at |-> PreambleLen, before |-> 0]
  /\ \A k \in 1 .. Len(c) : NodeInside(f, c[k]) /\ Linked(f, c, k)
  /\ \A j, k \in 1 .. Len(c) : c[j].at = c[k].at => j = k

\* The elements of a chain, by the byte offset each is read from.
ElementOffsets(f, c) ==
  UNION {{ElementAt(c[k].at, i) : i \in 0 .. NodeCount(f, c[k].at) - 1} :
           k \in 1 .. Len(c)}

ElementsUnique(f, c) ==
  \A a, b \in ElementOffsets(f, c) : Element(f, a).id = Element(f, b).id => a = b

BlocksInside(f, c) ==
  \A a \in ElementOffsets(f, c) :
    IsFree(Element(f, a)) \/ Element(f, a).position + Element(f, a).length <= FileLen(f)

WellFormed(f) ==
  /\ PreambleError(f) = "none"
  /\ IsChain(f, ChainOf(f))
  /\ ElementsUnique(f, ChainOf(f))
  /\ BlocksInside(f, ChainOf(f))
=============================================================================
