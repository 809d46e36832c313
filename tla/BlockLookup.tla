----------------------------- MODULE BlockLookup ------------------------------
(***************************************************************************)
(* One unit read twice: by a reader whose blocks file sits beside the      *)
(* header, then by a reader that fetches the same bytes from a URL.  The   *)
(* readers share nothing but the file, which nobody changes here, so the   *)
(* order in which they run does not matter.                                *)
(***************************************************************************)
EXTENDS LocalLookup, RemoteLookup, FiniteSets

vars == <<disk, wanted, localVars, remoteVars>>

Init ==
  /\ RequestInit
  /\ LocalInit
  /\ RemoteInit

ReadLocal == LocalNext /\ UNCHANGED remoteVars

ReadRemote == pc = "done" /\ RemoteNext /\ UNCHANGED localVars

\* Both answers are given: nothing is left to do.
BothDone ==
  /\ pc = "done" /\ stage = "done"
  /\ UNCHANGED vars

Next == ReadLocal \/ ReadRemote \/ BothDone

\* A call runs to its end: the library has no suspension point in either walk.
Spec == Init /\ [][Next]_vars /\ WF_vars(ReadLocal) /\ WF_vars(ReadRemote)

-----------------------------------------------------------------------------

TypeOK == RequestTypeOK /\ LocalTypeOK /\ RemoteTypeOK

\* The local reader keeps the promise of BlockPromise on every file, damaged or not
\* (read_external_block and read_block_from).
LocalPromise == INSTANCE BlockPromise WITH reply <- result
LocalKeepsPromise == LocalPromise!Promise

\* So does the remote reader (extract_external and parse_blocks_file), although it
\* walks the index to its end before it looks for the identifier.
RemotePromise == INSTANCE BlockPromise WITH reply <- answer
RemoteKeepsPromise == RemotePromise!Promise

\* Overlapping nodes cannot multiply the index: neither walk ever accounts for more
\* elements than the file has room for, enters a node twice, or goes round the loop
\* more than MAX_NODES times (distributed.rs:133-140).
WalkBounded ==
  /\ counted <= MaxElements(statLen)
  /\ Cardinality(seen) = walked
  /\ elements # <<>> => Len(elements) <= MaxElements(FileLen(bytes))
  /\ Cardinality(visited) = rounds

\* Every node a walk enters lies inside the file with all its elements, so no slice
\* of the bytes can be out of range (a panic in parse_blocks_file, a short read in
\* read_block_from).
NodesInside ==
  /\ pc = "element" => ElementAt(position, node.count) <= FileLen(held)
  /\ \A p \in visited : ElementAt(p, NodeCount(bytes, p)) <= FileLen(bytes)

\* On every file whatsoever, a block the remote reader returns is the block the local
\* reader returns, byte for byte.
RemoteBlockIsLocalBlock ==
  pc = "done" /\ stage = "done" /\ answer.kind = "slice" => result = answer

\* Both walks end, on cyclic, overlapping and endless lists too.
LookupsEnd == <>(pc = "done" /\ stage = "done")
=============================================================================
