------------------------------- MODULE LiveUnit -------------------------------
(***************************************************************************)
(* A data blocks file that changes while read_external_block reads it.     *)
(*                                                                         *)
(* The reader takes no lock, stats the path, opens it, walks the index by  *)
(* seeking on the handle and, for a plain resource, opens the path once    *)
(* more.  Between any two of these reads another process may               *)
(*   - grow the file in place: blocks written past its end, then announced *)
(*     in a free element or in a node added to the list, which is what     *)
(*     free elements and the linked list are for;                          *)
(*   - put another file at the path (rename), or remove it;                *)
(*   - write over the open file (truncate and rewrite).                    *)
(* The writers are external: the library has none that edits a file.       *)
(***************************************************************************)
EXTENDS LocalLookup, FiniteSets

CONSTANTS
  Growths,     \* the pairs of files <<f, g>> such that g may be f grown in place
  MaxChanges   \* bound: changes made to the path during one call

ASSUME ChangesAssumption == MaxChanges \in Nat

VARIABLES
  replaced,   \* the path no longer names the file behind the handle
  versions,   \* everything the path has named since the call began
  changes     \* the kinds of change made so far, in order

worldVars == <<replaced, versions, changes>>
liveVars == <<disk, wanted, localVars, worldVars>>

LiveInit ==
  /\ RequestInit
  /\ LocalInit
  /\ replaced = FALSE
  /\ versions = {disk}
  /\ changes = <<>>

Read ==
  /\ LocalNext
  /\ replaced' = (replaced /\ pc # "open")
  /\ UNCHANGED <<versions, changes>>

\* g is f with blocks added: every node and occupied element of f is where it was.
Extends(f, g) ==
  LET c == ChainOf(f)
      d == ChainOf(g)
  IN  /\ WellFormed(f) /\ WellFormed(g)
      /\ FileLen(f) <= FileLen(g)
      /\ Len(c) <= Len(d)
      /\ \A k \in 1 .. Len(c) : c[k] = d[k] /\ NodeCount(f, c[k].at) = NodeCount(g, c[k].at)
      /\ \A a \in ElementOffsets(f, c) :
           ~IsFree(Element(f, a)) => Element(g, a) = Element(f, a)

ASSUME GrowthAssumption == \A g \in Growths : Extends(g[1], g[2])

Opened == pc \notin {"stat", "open", "done"}

\* Another file takes the place of the one on disk; the handle keeps the old one.
InPlace(g) == held' = IF Opened /\ ~replaced THEN g ELSE held

Change(kind, g) ==
  /\ pc # "done"
  /\ Len(changes) < MaxChanges
  /\ g # disk
  /\ disk' = g
  /\ versions' = versions \cup {g}
  /\ changes' = Append(changes, kind)
  /\ UNCHANGED <<wanted, pc, statLen, walkVars, result>>

Grow ==
  \E g \in Files :
    /\ <<disk, g>> \in Growths
    /\ Change("grow", g)
    /\ InPlace(g)
    /\ UNCHANGED replaced

Replace ==
  \E g \in Files \cup {Missing} :
    /\ Change("replace", g)
    /\ replaced' = Opened
    /\ UNCHANGED held

Overwrite ==
  \E g \in Files :
    /\ disk \in Files
    /\ Change("overwrite", g)
    /\ InPlace(g)
    /\ UNCHANGED replaced

Answered == pc = "done" /\ UNCHANGED liveVars

LiveNext == Read \/ Grow \/ Replace \/ Overwrite \/ Answered

\* The call runs to its end; the other processes need not do anything.
LiveSpec == LiveInit /\ [][LiveNext]_liveVars /\ WF_liveVars(Read)

-----------------------------------------------------------------------------

Only(kinds) == \A k \in DOMAIN changes : changes[k] \in kinds

Promised == INSTANCE BlockPromise WITH reply <- result

LiveTypeOK ==
  /\ RequestTypeOK
  /\ LocalTypeOK
  /\ replaced \in BOOLEAN
  /\ versions \subseteq Entries
  /\ changes \in Seq({"grow", "replace", "overwrite"})

\* A unit that is only grown answers for the blocks it already had: while identifiers
\* every version holds are looked up, the block returned is the one they all hold, even
\* when the index grows under the walk (distributed.rs:242-313).
GrowthUndisturbed ==
  pc = "done" /\ Only({"grow"})
    /\ (\A v \in versions : v \in Files /\ WellFormed(v)
                              /\ wanted # NoIndex /\ Promised!Holders(v, wanted) # {})
  => /\ result.kind = "slice"
     /\ \A v \in versions : \E e \in Promised!Holders(v, wanted) :
          result.at = e.position /\ result.length = e.length

\* A file replaced by rename is never mixed with its replacement: the bytes of a block
\* come from one version of the file, and are a block that version has under the
\* identifier wanted (the handle of read_external_block serves the whole walk).
BlockOfOneVersion ==
  pc = "done" /\ Only({"grow", "replace"}) /\ result.kind = "slice"
  => result \in UNION {Promised!Replies(v, wanted) : v \in versions}

\* Nor is a block reported missing that every version of the file holds.
NotFoundIsTrue ==
  pc = "done" /\ Only({"grow", "replace"}) /\ result = Refused("NotFound")
  => \E v \in versions : v = Missing \/ result \in Promised!Replies(v, wanted)

\* Whatever is written over the file during the walk, the walk stays bounded by the
\* length the file had when it was stated: elements, nodes and the block allocated.
BoundedUnderChange ==
  /\ counted <= MaxElements(statLen)
  /\ Cardinality(seen) = walked
  /\ pc = "block" => found.position + found.length <= statLen

\* The call returns, however the file changes while the walk follows its pointers.
CallEnds == <>(pc = "done")

\* "Reading a blocks file as though it were plain would hand the caller the signature
\* and index as though they were pixels" (reader.rs:568-569): bytes returned whole are
\* never those of a blocks file.
WholeIsPlain == result.kind = "whole" => ~IsBlocksFile(result.from)
=============================================================================
