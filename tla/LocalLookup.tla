----------------------------- MODULE LocalLookup ------------------------------
(***************************************************************************)
(* Reading an external block that sits beside the header:                  *)
(* reader::read_external_block and distributed::read_block_from.           *)
(*                                                                         *)
(* The length is taken from the path before the file is opened, the index  *)
(* is walked by seeking on the open handle, and a plain resource is read   *)
(* by opening the path again.  Each read of the file is a step of its own, *)
(* so that another process may change the file between two of them; this   *)
(* module leaves the file alone.                                           *)
(***************************************************************************)
EXTENDS ExternalBlock

VARIABLES
  pc,         \* which read comes next
  held,       \* the file behind the open handle
  statLen,    \* file_len, from metadata(path)
  position,   \* the node the walk is at; 0 ends the list
  seen,       \* positions of the nodes entered
  walked,     \* iterations of the loop so far
  counted,    \* elements declared by the nodes entered
  node,       \* count and next pointer of the node entered
  i,          \* next element of that node
  found,      \* the element taken, once there is one
  result

walkVars == <<position, seen, walked, counted, node, i, found>>
localVars == <<pc, held, statLen, walkVars, result>>

Stages == {"stat", "open", "whole", "preamble", "node", "element", "block", "done"}

\* The steps that use the open handle.
Reading == {"preamble", "node", "element", "block"}

LocalTypeOK ==
  /\ pc \in Stages
  /\ held \in Entries
  /\ pc \in Reading => held \in Files
  /\ statLen \in Nat
  /\ position \in Nat
  /\ seen \subseteq Nat
  /\ walked \in 0 .. MaxNodes
  /\ counted \in Nat
  /\ node \in [count : Nat, next : Nat]
  /\ i \in Nat
  /\ found \in [id : Nat, position : Nat, length : Nat]
  /\ result \in Answers

LocalInit ==
  /\ pc = "stat"
  /\ held = disk
  /\ statLen = 0
  /\ position = PreambleLen
  /\ seen = {}
  /\ walked = 0
  /\ counted = 0
  /\ node = [count |-> 0, next |-> 0]
  /\ i = 0
  /\ found = [id |-> 0, position |-> 0, length |-> 0]
  /\ result = Pending

Finish(answer) ==
  /\ result' = answer
  /\ pc' = "done"

-----------------------------------------------------------------------------
(* read_external_block *)

\* std::fs::metadata; what is not a regular file is refused before it is opened.
Stat ==
  /\ pc = "stat"
  /\ \/ /\ disk = Missing
        /\ Finish(Refused("NotFound"))
        /\ UNCHANGED statLen
     \/ /\ disk = NotRegular
        /\ Finish(Refused("BadAttribute"))
        /\ UNCHANGED statLen
     \/ /\ disk \in Files
        /\ statLen' = FileLen(disk)
        /\ pc' = "open"
        /\ UNCHANGED result
  /\ UNCHANGED <<held, walkVars>>

\* File::open, then the signature that tells the two shapes apart.
OpenFile ==
  /\ pc = "open"
  /\ disk \in Files
  /\ held' = disk
  /\ \/ /\ IsBlocksFile(disk) <=> wanted = NoIndex
        /\ Finish(Refused("BadAttribute"))
     \/ /\ ~IsBlocksFile(disk) /\ wanted = NoIndex
        /\ pc' = "whole"
        /\ UNCHANGED result
     \/ /\ IsBlocksFile(disk) /\ wanted # NoIndex
        /\ pc' = "preamble"
        /\ UNCHANGED result
  /\ UNCHANGED <<statLen, walkVars>>

\* The entry went away between metadata and File::open.
OpenFails ==
  /\ pc = "open"
  /\ disk = Missing
  /\ Finish(Refused("NotFound"))
  /\ UNCHANGED <<held, statLen, walkVars>>

\* A plain resource is its own block: std::fs::read opens the path again.
ReadWhole ==
  /\ pc = "whole"
  /\ Finish(IF disk \in Files THEN Whole(disk) ELSE Refused("Io"))
  /\ UNCHANGED <<held, statLen, walkVars>>

-----------------------------------------------------------------------------
(* read_block_from *)

ReadPreamble ==
  /\ pc = "preamble"
  /\ LET error == PreambleError(held)
     IN  \/ /\ error # "none"
            /\ Finish(Refused(error))
         \/ /\ error = "none"
            /\ pc' = "node"
            /\ UNCHANGED result
  /\ UNCHANGED <<held, statLen, walkVars>>

\* Mutant of NodeError: the elements of the nodes entered are not accounted for.
NodeErrorUncounted ==
  IF position \in seen THEN "BadHeader"
  ELSE IF position + NodeHeaderLen > statLen THEN "Truncated"
  ELSE IF position + NodeHeaderLen > FileLen(held) THEN "Io"
  ELSE IF NodeReserved(held, position) # 0 THEN "BadHeader"
  ELSE IF ElementAt(position, NodeCount(held, position)) > statLen THEN "Truncated"
  ELSE "none"

\* Why the node at `position` is refused, in the order the code asks.
NodeError ==
  IF position \in seen THEN "BadHeader"
  ELSE IF position + NodeHeaderLen > statLen THEN "Truncated"
  ELSE IF position + NodeHeaderLen > FileLen(held) THEN "Io"
  ELSE IF NodeReserved(held, position) # 0 THEN "BadHeader"
  ELSE IF ElementAt(position, NodeCount(held, position)) > statLen THEN "Truncated"
  ELSE IF counted + NodeCount(held, position) > MaxElements(statLen) THEN "BadHeader"
  ELSE "none"

\* The loop ran MAX_NODES times without meeting the end of the list.
WalkTooLong ==
  /\ pc = "node"
  /\ walked = MaxNodes
  /\ Finish(Refused("BadHeader"))
  /\ UNCHANGED <<held, statLen, walkVars>>

EndOfIndex ==
  /\ pc = "node"
  /\ walked < MaxNodes
  /\ position = 0
  /\ Finish(Refused("NotFound"))
  /\ UNCHANGED <<held, statLen, walkVars>>

RefuseNode ==
  /\ pc = "node"
  /\ walked < MaxNodes
  /\ position # 0
  /\ NodeError # "none"
  /\ Finish(Refused(NodeError))
  /\ UNCHANGED <<held, statLen, walkVars>>

\* Mutant of EnterNode: a walk bounded by the cycle check alone.
EnterNodeUnbounded ==
  /\ pc = "node"
  /\ position # 0
  /\ NodeError = "none"
  /\ seen' = seen \cup {position}
  /\ node' = [count |-> NodeCount(held, position), next |-> NodeNext(held, position)]
  /\ counted' = counted + NodeCount(held, position)
  /\ walked' = walked + 1
  /\ i' = 0
  /\ pc' = "element"
  /\ UNCHANGED <<held, statLen, position, found, result>>

EnterNode ==
  /\ pc = "node"
  /\ walked < MaxNodes
  /\ position # 0
  /\ NodeError = "none"
  /\ seen' = seen \cup {position}
  /\ node' = [count |-> NodeCount(held, position), next |-> NodeNext(held, position)]
  /\ counted' = counted + NodeCount(held, position)
  /\ walked' = walked + 1
  /\ i' = 0
  /\ pc' = "element"
  /\ UNCHANGED <<held, statLen, position, found, result>>

\* The element the loop over a node's elements is about to read.
HeldElement == Element(held, ElementAt(position, i))

ElementReadable == ElementAt(position, i + 1) <= FileLen(held)

\* Mutant of Matches: a free placeholder taken for a block.
MatchesFree(e) == e.id = wanted

Matches(e) == e.id = wanted /\ ~IsFree(e)

ElementUnreadable ==
  /\ pc = "element"
  /\ i < node.count
  /\ ~ElementReadable
  /\ Finish(Refused("Io"))
  /\ UNCHANGED <<held, statLen, walkVars>>

\* Mutant of SkipElement: the index of the element is not advanced.
SkipElementInPlace ==
  /\ pc = "element"
  /\ i < node.count
  /\ ElementReadable
  /\ ~Matches(HeldElement)
  /\ UNCHANGED localVars

SkipElement ==
  /\ pc = "element"
  /\ i < node.count
  /\ ElementReadable
  /\ ~Matches(HeldElement)
  /\ i' = i + 1
  /\ UNCHANGED <<pc, held, statLen, position, seen, walked, counted, node, found, result>>

\* Mutant of TakeElement: a block that ends where the file ends is refused.
TakeElementShort ==
  /\ pc = "element"
  /\ i < node.count
  /\ ElementReadable
  /\ Matches(HeldElement)
  /\ \/ /\ HeldElement.position + HeldElement.length >= statLen
        /\ Finish(Refused("Truncated"))
        /\ UNCHANGED found
     \/ /\ HeldElement.position + HeldElement.length < statLen
        /\ found' = HeldElement
        /\ pc' = "block"
        /\ UNCHANGED result
  /\ UNCHANGED <<held, statLen, position, seen, walked, counted, node, i>>

\* Mutant of TakeElement: the block is compared with the file's present length.
TakeElementPresent ==
  /\ pc = "element"
  /\ i < node.count
  /\ ElementReadable
  /\ Matches(HeldElement)
  /\ \/ /\ HeldElement.position + HeldElement.length > FileLen(held)
        /\ Finish(Refused("Truncated"))
        /\ UNCHANGED found
     \/ /\ HeldElement.position + HeldElement.length <= FileLen(held)
        /\ found' = HeldElement
        /\ pc' = "block"
        /\ UNCHANGED result
  /\ UNCHANGED <<held, statLen, position, seen, walked, counted, node, i>>

\* The bounds of the block are checked against file_len before its bytes are allocated.
TakeElement ==
  /\ pc = "element"
  /\ i < node.count
  /\ ElementReadable
  /\ Matches(HeldElement)
  /\ \/ /\ HeldElement.position + HeldElement.length > statLen
        /\ Finish(Refused("Truncated"))
        /\ UNCHANGED found
     \/ /\ HeldElement.position + HeldElement.length <= statLen
        /\ found' = HeldElement
        /\ pc' = "block"
        /\ UNCHANGED result
  /\ UNCHANGED <<held, statLen, position, seen, walked, counted, node, i>>

\* Mutant of ReadBlock: the block is read by opening the path again.
ReadBlockByPath ==
  /\ pc = "block"
  /\ Finish(IF disk \notin Files THEN Refused("Io")
            ELSE IF found.position + found.length > FileLen(disk) THEN Refused("Io")
            ELSE Slice(disk, found.position, found.length))
  /\ UNCHANGED <<held, statLen, walkVars>>

\* The block is read whole or not at all.
ReadBlock ==
  /\ pc = "block"
  /\ Finish(IF found.position + found.length > FileLen(held) THEN Refused("Io")
            ELSE Slice(held, found.position, found.length))
  /\ UNCHANGED <<held, statLen, walkVars>>

\* Mutant of LeaveNode: the last element of a node is not looked at.
LeaveNodeEarly ==
  /\ pc = "element"
  /\ i + 1 >= node.count
  /\ position' = node.next
  /\ pc' = "node"
  /\ UNCHANGED <<held, statLen, seen, walked, counted, node, i, found, result>>

LeaveNode ==
  /\ pc = "element"
  /\ i = node.count
  /\ position' = node.next
  /\ pc' = "node"
  /\ UNCHANGED <<held, statLen, seen, walked, counted, node, i, found, result>>

LocalStep ==
  \/ Stat \/ OpenFile \/ OpenFails \/ ReadWhole
  \/ ReadPreamble \/ WalkTooLong \/ EndOfIndex \/ RefuseNode \/ EnterNode
  \/ ElementUnreadable \/ SkipElement \/ TakeElement \/ ReadBlock \/ LeaveNode

LocalNext == LocalStep /\ UNCHANGED <<disk, wanted>>
=============================================================================
