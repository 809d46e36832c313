----------------------------- MODULE RemoteLookup -----------------------------
(***************************************************************************)
(* Taking a block out of an external file held in memory, which is how a   *)
(* block behind a URL is read: reader::extract_external and                *)
(* distributed::parse_blocks_file.                                         *)
(*                                                                         *)
(* The whole index is flattened before the identifier is looked up, so the *)
(* walk does not stop at the block wanted.  An iteration of the loop over  *)
(* nodes is one step: nothing can change the bytes while it runs.          *)
(***************************************************************************)
EXTENDS ExternalBlock

VARIABLES
  stage,      \* where extract_external has got to
  bytes,      \* the file fetched
  at,         \* the node the walk is at; 0 ends the list
  visited,    \* positions of the nodes parsed
  rounds,     \* iterations of the loop so far
  elements,   \* BlocksIndex::elements
  answer

remoteVars == <<stage, bytes, at, visited, rounds, elements, answer>>

RemoteTypeOK ==
  /\ stage \in {"fetch", "extract", "node", "take", "done"}
  /\ bytes \in Entries
  /\ stage \in {"extract", "node", "take"} => bytes \in Files
  /\ at \in Nat
  /\ visited \subseteq Nat
  /\ rounds \in 0 .. MaxNodes
  /\ elements \in Seq([id : Nat, position : Nat, length : Nat])
  /\ answer \in Answers

RemoteInit ==
  /\ stage = "fetch"
  /\ bytes = disk
  /\ at = PreambleLen
  /\ visited = {}
  /\ rounds = 0
  /\ elements = <<>>
  /\ answer = Pending

Conclude(a) ==
  /\ answer' = a
  /\ stage' = "done"

\* The caller's resolver returns the bytes the URL names now, or its own error.
Fetch ==
  /\ stage = "fetch"
  /\ \/ /\ disk \in Files
        /\ bytes' = disk
        /\ stage' = "extract"
        /\ UNCHANGED answer
     \/ /\ disk \notin Files
        /\ Conclude(Refused("Io"))
        /\ UNCHANGED bytes
  /\ UNCHANGED <<at, visited, rounds, elements>>

Extract ==
  /\ stage = "extract"
  /\ \/ /\ IsBlocksFile(bytes) <=> wanted = NoIndex
        /\ Conclude(Refused("BadAttribute"))
     \/ /\ ~IsBlocksFile(bytes) /\ wanted = NoIndex
        /\ Conclude(Whole(bytes))
     \/ /\ IsBlocksFile(bytes) /\ wanted # NoIndex
        /\ IF PreambleError(bytes) = "none"
           THEN stage' = "node" /\ UNCHANGED answer
           ELSE Conclude(Refused(PreambleError(bytes)))
  /\ UNCHANGED <<bytes, at, visited, rounds, elements>>

\* Mutant of ParseError: the node header is bounded, its elements are not.
ParseErrorHeaderOnly ==
  IF at \in visited THEN "BadHeader"
  ELSE IF at + NodeHeaderLen > FileLen(bytes) THEN "Truncated"
  ELSE IF NodeReserved(bytes, at) # 0 THEN "BadHeader"
  ELSE IF Len(elements) + NodeCount(bytes, at) > MaxElements(FileLen(bytes)) THEN "BadHeader"
  ELSE "none"

\* Why the node at `at` is refused, in the order the code asks.
ParseError ==
  IF at \in visited THEN "BadHeader"
  ELSE IF at + NodeHeaderLen > FileLen(bytes) THEN "Truncated"
  ELSE IF NodeReserved(bytes, at) # 0 THEN "BadHeader"
  ELSE IF ElementAt(at, NodeCount(bytes, at)) > FileLen(bytes) THEN "Truncated"
  ELSE IF Len(elements) + NodeCount(bytes, at) > MaxElements(FileLen(bytes)) THEN "BadHeader"
  ELSE "none"

ParseTooLong ==
  /\ stage = "node"
  /\ rounds = MaxNodes
  /\ Conclude(Refused("BadHeader"))
  /\ UNCHANGED <<bytes, at, visited, rounds, elements>>

ParseRefused ==
  /\ stage = "node"
  /\ rounds < MaxNodes
  /\ at # 0
  /\ ParseError # "none"
  /\ Conclude(Refused(ParseError))
  /\ UNCHANGED <<bytes, at, visited, rounds, elements>>

ParseNode ==
  /\ stage = "node"
  /\ rounds < MaxNodes
  /\ at # 0
  /\ ParseError = "none"
  /\ visited' = visited \cup {at}
  /\ elements' = elements \o
       [k \in 1 .. NodeCount(bytes, at) |-> Element(bytes, ElementAt(at, k - 1))]
  /\ at' = NodeNext(bytes, at)
  /\ rounds' = rounds + 1
  /\ UNCHANGED <<stage, bytes, answer>>

ParsedAll ==
  /\ stage = "node"
  /\ rounds < MaxNodes
  /\ at = 0
  /\ stage' = "take"
  /\ UNCHANGED <<bytes, at, visited, rounds, elements, answer>>

\* Mutant of IsFirst: the last element with the identifier.
IsLast(k) ==
  /\ elements[k].id = wanted
  /\ \A j \in k + 1 .. Len(elements) : elements[j].id # wanted

\* BlocksIndex::get: the first element with the identifier, free or not.
IsFirst(k) ==
  /\ elements[k].id = wanted
  /\ \A j \in 1 .. k - 1 : elements[j].id # wanted

\* Mutant of Taken: the end of the block is not compared with the end of the file.
TakenUnbounded(e) ==
  IF IsFree(e) THEN Refused("NotFound") ELSE Slice(bytes, e.position, e.length)

Taken(e) ==
  IF IsFree(e) THEN Refused("NotFound")
  ELSE IF e.position + e.length > FileLen(bytes) THEN Refused("Truncated")
  ELSE Slice(bytes, e.position, e.length)

TakeNamed ==
  /\ stage = "take"
  /\ \/ \E k \in 1 .. Len(elements) : IsFirst(k) /\ Conclude(Taken(elements[k]))
     \/ /\ \A k \in 1 .. Len(elements) : elements[k].id # wanted
        /\ Conclude(Refused("NotFound"))
  /\ UNCHANGED <<bytes, at, visited, rounds, elements>>

RemoteStep ==
  \/ Fetch \/ Extract
  \/ ParseTooLong \/ ParseRefused \/ ParseNode \/ ParsedAll
  \/ TakeNamed

RemoteNext == RemoteStep /\ UNCHANGED <<disk, wanted>>
=============================================================================
