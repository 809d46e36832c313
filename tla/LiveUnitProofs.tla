---------------------------- MODULE LiveUnitProofs ----------------------------
(***************************************************************************)
(* Proofs about a unit that changes while it is read, for every set of     *)
(* files and any number of changes.  The steps of the local walk are those *)
(* of BlockLookupProofs, whose facts about them hold whatever else goes    *)
(* on.                                                                     *)
(***************************************************************************)
EXTENDS LiveUnit, BlockLookupProofs

LEMMA WorldTypeStep ==
  ASSUME LiveTypeOK, [LiveNext]_liveVars
  PROVE  RequestTypeOK' /\ replaced' \in BOOLEAN /\ versions' \subseteq Entries
<1> USE DEF LiveTypeOK, RequestTypeOK
<1>1. CASE Read
  <2>1. replaced' \in BOOLEAN
    BY <1>1, Zenon DEF Read
  <2> QED BY <1>1, <2>1 DEF Read, LocalNext
<1>2. CASE Grow \/ Replace \/ Overwrite
  <2>1. replaced' \in BOOLEAN
    BY <1>2, Zenon DEF Grow, Replace, Overwrite, Opened
  <2>2. disk' \in Entries /\ wanted' = wanted /\ versions' = versions \cup {disk'}
    BY <1>2 DEF Grow, Replace, Overwrite, Change, Entries
  <2> QED BY <2>1, <2>2
<1>3. CASE Answered \/ UNCHANGED liveVars
  BY <1>3 DEF Answered, liveVars, worldVars
<1> QED BY <1>1, <1>2, <1>3 DEF LiveNext

LEMMA ChangesTypeStep ==
  ASSUME LiveTypeOK, [LiveNext]_liveVars
  PROVE  changes' \in Seq({"grow", "replace", "overwrite"})
<1>1. changes \in Seq({"grow", "replace", "overwrite"})
  BY DEF LiveTypeOK
<1>2. ASSUME NEW kind \in {"grow", "replace", "overwrite"}, NEW g, Change(kind, g)
      PROVE  changes' \in Seq({"grow", "replace", "overwrite"})
  BY <1>1, <1>2 DEF Change
<1>3. CASE Grow \/ Replace \/ Overwrite
  BY <1>2, <1>3 DEF Grow, Replace, Overwrite
<1>4. CASE Read \/ Answered \/ UNCHANGED liveVars
  BY <1>1, <1>4 DEF Read, Answered, liveVars, worldVars
<1> QED BY <1>3, <1>4 DEF LiveNext

\* A change to the file leaves every variable of the walk but the handle alone.
LEMMA ChangeStep ==
  ASSUME LiveTypeOK, Grow \/ Replace \/ Overwrite
  PROVE  /\ UNCHANGED <<pc, statLen, walkVars, result>>
         /\ held' \in Entries
         /\ held \in Files => held' \in Files
BY DEF LiveTypeOK, LocalTypeOK, Grow, Replace, Overwrite, Change, InPlace, Entries

LEMMA LiveTypeStep ==
  ASSUME LiveTypeOK, [LiveNext]_liveVars
  PROVE  LiveTypeOK'
<1>1. CASE Read
  <2>1. LocalTypeOK'
    BY <1>1, LocalTypeStep DEF LiveTypeOK, Read, LocalNext
  <2> QED BY <2>1, WorldTypeStep, ChangesTypeStep DEF LiveTypeOK
<1>2. CASE Grow \/ Replace \/ Overwrite
  <2>1. LocalTypeOK'
    BY <1>2, ChangeStep DEF LiveTypeOK, LocalTypeOK, walkVars
  <2> QED BY <2>1, WorldTypeStep, ChangesTypeStep DEF LiveTypeOK
<1>3. CASE Answered \/ UNCHANGED liveVars
  <2>1. LocalTypeOK'
    BY <1>3 DEF LiveTypeOK, LocalTypeOK, Answered, liveVars, localVars, walkVars
  <2> QED BY <2>1, WorldTypeStep, ChangesTypeStep DEF LiveTypeOK
<1> QED BY <1>1, <1>2, <1>3 DEF LiveNext

\* Every variable keeps its type, whatever is done to the file during the call.
THEOREM LiveTypeCorrect == LiveSpec => []LiveTypeOK
<1>1. LiveInit => LiveTypeOK
  <2> SUFFICES ASSUME LiveInit PROVE LiveTypeOK
    OBVIOUS
  <2>1. RequestTypeOK /\ LocalTypeOK
    BY LocalTypeInit DEF LiveInit
  <2>2. versions \subseteq Entries
    BY <2>1 DEF LiveInit, RequestTypeOK
  <2>3. changes \in Seq({"grow", "replace", "overwrite"})
    BY DEF LiveInit
  <2> QED BY <2>1, <2>2, <2>3 DEF LiveInit, LiveTypeOK
<1>2. LiveTypeOK /\ [LiveNext]_liveVars => LiveTypeOK'
  BY LiveTypeStep
<1> QED BY <1>1, <1>2, PTL DEF LiveSpec

LEMMA LiveBoundsStep ==
  ASSUME LiveTypeOK, LocalBounds, [LiveNext]_liveVars
  PROVE  LocalBounds'
<1>1. CASE Read
  BY <1>1, LocalBoundsStep DEF Read, LocalNext, LiveTypeOK
<1>2. CASE Grow \/ Replace \/ Overwrite
  BY <1>2, ChangeStep DEF LocalBounds, walkVars
<1>3. CASE Answered \/ UNCHANGED liveVars
  BY <1>3 DEF LocalBounds, Answered, liveVars, localVars, walkVars
<1> QED BY <1>1, <1>2, <1>3 DEF LiveNext

\* However often and with whatever the file is overwritten, grown or replaced while it is
\* read, the walk accounts for no more elements than the length it was stated with has
\* room for, enters no node twice, and allocates no block larger than that length.
THEOREM BoundedWhateverChanges == LiveSpec => []BoundedUnderChange
<1>1. LiveInit => LocalBounds
  BY LocalBoundsInit DEF LiveInit
<1>2. LiveTypeOK /\ LocalBounds /\ [LiveNext]_liveVars => LocalBounds'
  BY LiveBoundsStep
<1>3. LocalBounds => BoundedUnderChange
  BY DEF LocalBounds, BoundedUnderChange
<1> QED BY <1>1, <1>2, <1>3, LiveTypeCorrect, PTL DEF LiveSpec

-----------------------------------------------------------------------------
(***************************************************************************)
(* Files grown in place.  Everything a walk relies on in a well-formed     *)
(* file is read off its node list, ChainOf(f), and growing the file leaves *)
(* that list and the occupied elements where they were.                    *)
(***************************************************************************)

\* A node of a well-formed file and what follows it.
LEMMA ChainNode ==
  ASSUME NEW f \in Files, WellFormed(f), NEW c, c = ChainOf(f), NEW k \in 1 .. Len(c)
  PROVE  /\ c[k].at \in Nat /\ c[k].before \in Nat /\ c[k].at # 0
         /\ NodeCount(f, c[k].at) \in Nat
         /\ NodeInside(f, c[k])
         /\ k = Len(c) => NodeNext(f, c[k].at) = 0
         /\ k # Len(c) => /\ NodeNext(f, c[k].at) = c[k + 1].at
                          /\ c[k + 1].before = c[k].before + NodeCount(f, c[k].at)
<1>1. IsChain(f, c)
  BY DEF WellFormed
<1>2. Trail(f, c)
  BY <1>1, ChainIsComplete DEF Complete
<1>3. NodeInside(f, c[k]) /\ Linked(f, c, k)
  BY <1>1 DEF IsChain
<1>4. /\ c[k].at \in Nat /\ c[k].before \in Nat
      /\ NodeCount(f, c[k].at) \in Nat
  BY <1>2, TrailNode
<1> QED BY <1>3, <1>4 DEF NodeInside, Linked

\* The node list of a well-formed file is shorter than the bound of the walk, starts
\* after the preamble and enters no node twice.
LEMMA ChainShape ==
  ASSUME NEW f \in Files, WellFormed(f), NEW c, c = ChainOf(f)
  PROVE  /\ Len(c) \in Nat /\ 1 <= Len(c) /\ Len(c) < MaxNodes
         /\ c[1].at = PreambleLen /\ c[1].before = 0
         /\ \A j, k \in 1 .. Len(c) : c[j].at = c[k].at => j = k
<1>1. IsChain(f, c)
  BY DEF WellFormed
<1> QED BY <1>1, BoundAssumption DEF IsChain

\* An element of a well-formed file can be read, and lies in its node.
LEMMA ChainElement ==
  ASSUME NEW f \in Files, WellFormed(f), NEW c, c = ChainOf(f), NEW a \in ElementOffsets(f, c)
  PROVE  /\ a \in 0 .. FileLen(f) /\ a + ElementLen <= FileLen(f)
         /\ Element(f, a) \in [id : Nat, position : Nat, length : Nat]
         /\ \E k \in 1 .. Len(c) : \E j \in 0 .. NodeCount(f, c[k].at) - 1 :
              a = ElementAt(c[k].at, j)
<1>1. PICK k \in 1 .. Len(c) : a \in {ElementAt(c[k].at, j) : j \in 0 .. NodeCount(f, c[k].at) - 1}
  BY DEF ElementOffsets
<1>2. PICK j \in 0 .. NodeCount(f, c[k].at) - 1 : a = ElementAt(c[k].at, j)
  BY <1>1
<1>3. Trail(f, c)
  BY ChainIsComplete DEF WellFormed, Complete
<1> QED BY <1>2, <1>3, TrailElement

LEMMA ExtendsItself ==
  ASSUME NEW f \in Files, WellFormed(f)
  PROVE  Extends(f, f)
<1>1. FileLen(f) \in Nat /\ Len(ChainOf(f)) \in Nat
  BY FileAssumption, ChainShape
<1> QED BY <1>1 DEF Extends

\* What growing a file keeps.
LEMMA GrownKeeps ==
  ASSUME NEW f \in Files, NEW g \in Files, Extends(f, g)
  PROVE  /\ WellFormed(f) /\ WellFormed(g)
         /\ FileLen(f) <= FileLen(g) /\ Len(ChainOf(f)) <= Len(ChainOf(g))
         /\ \A k \in 1 .. Len(ChainOf(f)) : /\ k \in 1 .. Len(ChainOf(g))
                                            /\ ChainOf(g)[k] = ChainOf(f)[k]
                                            /\ NodeCount(g, ChainOf(f)[k].at) = NodeCount(f, ChainOf(f)[k].at)
         /\ \A a \in ElementOffsets(f, ChainOf(f)) :
              /\ a \in ElementOffsets(g, ChainOf(g))
              /\ ~IsFree(Element(f, a)) => Element(g, a) = Element(f, a)
<1> DEFINE c == ChainOf(f)
           d == ChainOf(g)
<1>1. Len(c) \in Nat /\ Len(d) \in Nat /\ Len(c) <= Len(d)
  BY ChainShape DEF Extends
<1>2. ASSUME NEW k \in 1 .. Len(c)
      PROVE  k \in 1 .. Len(d) /\ d[k] = c[k] /\ NodeCount(g, c[k].at) = NodeCount(f, c[k].at)
  BY <1>1 DEF Extends
<1>3. ASSUME NEW a \in ElementOffsets(f, c)
      PROVE  a \in ElementOffsets(g, d)
  <2>1. PICK k \in 1 .. Len(c) : a \in {ElementAt(c[k].at, j) : j \in 0 .. NodeCount(f, c[k].at) - 1}
    BY DEF ElementOffsets
  <2>2. k \in 1 .. Len(d) /\ a \in {ElementAt(d[k].at, j) : j \in 0 .. NodeCount(g, d[k].at) - 1}
    BY <1>2, <2>1
  <2> QED BY <2>2 DEF ElementOffsets
<1> QED BY <1>2, <1>3 DEF Extends

LEMMA ExtendsFurther ==
  ASSUME NEW f \in Files, NEW g \in Files, NEW h \in Files, Extends(f, g), Extends(g, h)
  PROVE  Extends(f, h)
<1>1. FileLen(f) <= FileLen(h)
  <2>1. FileLen(f) \in Nat /\ FileLen(g) \in Nat /\ FileLen(h) \in Nat
    BY FileAssumption
  <2>2. FileLen(f) <= FileLen(g) /\ FileLen(g) <= FileLen(h)
    BY DEF Extends
  <2> QED BY <2>1, <2>2
<1>2. Len(ChainOf(f)) <= Len(ChainOf(h))
  <2>1. Len(ChainOf(f)) \in Nat /\ Len(ChainOf(g)) \in Nat /\ Len(ChainOf(h)) \in Nat
    BY ChainShape DEF Extends
  <2>2. Len(ChainOf(f)) <= Len(ChainOf(g)) /\ Len(ChainOf(g)) <= Len(ChainOf(h))
    BY DEF Extends
  <2> QED BY <2>1, <2>2
<1>3. ASSUME NEW k \in 1 .. Len(ChainOf(f))
      PROVE  /\ ChainOf(f)[k] = ChainOf(h)[k]
             /\ NodeCount(f, ChainOf(f)[k].at) = NodeCount(h, ChainOf(f)[k].at)
  <2>1. /\ k \in 1 .. Len(ChainOf(g)) /\ ChainOf(g)[k] = ChainOf(f)[k]
        /\ NodeCount(g, ChainOf(f)[k].at) = NodeCount(f, ChainOf(f)[k].at)
    BY GrownKeeps
  <2>2. /\ ChainOf(h)[k] = ChainOf(g)[k]
        /\ NodeCount(h, ChainOf(g)[k].at) = NodeCount(g, ChainOf(g)[k].at)
    BY <2>1, GrownKeeps
  <2> QED BY <2>1, <2>2
<1>4. ASSUME NEW a \in ElementOffsets(f, ChainOf(f)), ~IsFree(Element(f, a))
      PROVE  Element(h, a) = Element(f, a)
  <2>1. a \in ElementOffsets(g, ChainOf(g)) /\ Element(g, a) = Element(f, a)
    BY <1>4, GrownKeeps
  <2> QED BY <1>4, <2>1, GrownKeeps
<1>5. WellFormed(f) /\ WellFormed(h)
  BY DEF Extends
<1> QED BY <1>1, <1>2, <1>3, <1>4, <1>5 DEF Extends

\* A block that is there stays the one with its identifier.
LEMMA GrownHolds ==
  ASSUME NEW f \in Files, NEW g \in Files, Extends(f, g), NEW n,
         NEW a \in ElementOffsets(f, ChainOf(f)), Holds(f, n, a)
  PROVE  a \in ElementOffsets(g, ChainOf(g)) /\ Element(g, a) = Element(f, a) /\ Holds(g, n, a)
BY GrownKeeps DEF Holds

-----------------------------------------------------------------------------
(***************************************************************************)
(* The handle.  While it is open it names a version the path has had, and  *)
(* the present one unless another file was put in its place since.         *)
(***************************************************************************)
LiveNotWalked == walked = 0 /\ position = PreambleLen /\ seen = {} /\ counted = 0

HandleInv ==
  /\ disk \in versions
  /\ Opened => held \in versions /\ held \in Files
  /\ Opened /\ ~replaced => held = disk
  /\ pc \in Reading => wanted # NoIndex
  /\ pc \in {"stat", "open", "whole", "preamble"} => LiveNotWalked

LEMMA HandleInit == LiveInit => HandleInv
BY DEF LiveInit, LocalInit, HandleInv, LiveNotWalked, Opened, Reading

LEMMA HandleReadStep ==
  ASSUME LiveTypeOK, HandleInv, Read
  PROVE  HandleInv'
<1> USE DEF HandleInv, Opened, Reading, LiveNotWalked
<1>1. /\ UNCHANGED <<disk, wanted, versions>> /\ LocalStep
  BY DEF Read, LocalNext
<1>8. pc # "open" => (replaced' <=> replaced)
  <2>1. replaced' = (replaced /\ pc # "open")
    BY DEF Read
  <2> QED BY <2>1, Zenon
<1>2. CASE Stat \/ OpenFile \/ OpenFails \/ ReadWhole \/ ReadPreamble
  <2>1. CASE OpenFile
    BY <1>1, <2>1 DEF OpenFile, walkVars, Finish
  <2>2. CASE OpenFails
    BY <1>1, <2>2 DEF OpenFails, walkVars, Finish
  <2>3. CASE Stat \/ ReadWhole \/ ReadPreamble
    BY <1>8, <1>1, <2>3 DEF Stat, ReadWhole, ReadPreamble, walkVars, Finish
  <2> QED BY <1>2, <2>1, <2>2, <2>3
<1>3. CASE WalkTooLong \/ EndOfIndex \/ RefuseNode \/ EnterNode \/ ElementUnreadable
             \/ SkipElement \/ TakeElement \/ ReadBlock \/ LeaveNode
  <2>1. pc \in {"node", "element", "block"} /\ pc' \in {"node", "element", "block", "done"}
    BY <1>3
       DEF WalkTooLong, EndOfIndex, RefuseNode, EnterNode, ElementUnreadable, SkipElement,
           TakeElement, ReadBlock, LeaveNode, Finish
  <2>2. held' = held
    BY <1>3
       DEF WalkTooLong, EndOfIndex, RefuseNode, EnterNode, ElementUnreadable, SkipElement,
           TakeElement, ReadBlock, LeaveNode
  <2>3. replaced' <=> replaced
    BY <1>8, <2>1
  <2> QED BY <1>1, <2>1, <2>2, <2>3
<1> QED BY <1>1, <1>2, <1>3 DEF LocalStep

LEMMA HandleChangeStep ==
  ASSUME LiveTypeOK, HandleInv, Grow \/ Replace \/ Overwrite
  PROVE  HandleInv'
<1> USE DEF HandleInv, Opened, Reading, LiveNotWalked
<1>1. /\ UNCHANGED <<wanted, pc, walkVars>>
      /\ versions' = versions \cup {disk'}
  BY DEF Grow, Replace, Overwrite, Change
<1>2. CASE Grow \/ Overwrite
  <2>1. disk' \in Files /\ (replaced' <=> replaced)
    <3>1. replaced' = replaced
      BY <1>2 DEF Grow, Overwrite
    <3>2. disk' \in Files
      BY <1>2 DEF Grow, Overwrite, Change
    <3> QED BY <3>1, <3>2
  <2>2. held' = IF Opened /\ ~replaced THEN disk' ELSE held
    BY <1>2 DEF Grow, Overwrite, Change, InPlace
  <2> QED BY <1>1, <2>1, <2>2 DEF walkVars
<1>3. CASE Replace
  BY <1>1, <1>3 DEF Replace, walkVars
<1> QED BY <1>2, <1>3

LEMMA HandleStep ==
  ASSUME LiveTypeOK, HandleInv, [LiveNext]_liveVars
  PROVE  HandleInv'
<1>1. CASE Answered \/ UNCHANGED liveVars
  BY <1>1 DEF Answered, liveVars, localVars, walkVars, worldVars, HandleInv, Opened, LiveNotWalked
<1> QED BY <1>1, HandleReadStep, HandleChangeStep DEF LiveNext

-----------------------------------------------------------------------------
(***************************************************************************)
(* The walk over a well-formed file f: it follows the node list of f, as   *)
(* far as f had one when the node before was read.  A next pointer read as *)
(* zero stays zero for the walk, whatever is added to the list afterwards. *)
(***************************************************************************)
Walking == {"preamble", "node", "element"}

OnChain(f) ==
  LET c == ChainOf(f)
  IN  /\ pc \in {"node", "element"} =>
           /\ walked <= Len(c)
           /\ seen = {c[k].at : k \in 1 .. walked}
           /\ counted = After(f, c, walked).before
      /\ pc = "node" => position = 0 \/ (walked < Len(c) /\ position = c[walked + 1].at)
      /\ pc = "element" =>
           /\ 1 <= walked /\ position = c[walked].at
           /\ node.count = NodeCount(f, position) /\ i <= node.count
           /\ node.next = 0 \/ (walked < Len(c) /\ node.next = c[walked + 1].at)

\* Elements (k, j) of the node list that the walk has read.
Visited(k, j) == k < walked \/ (k = walked /\ (pc = "node" \/ j < i))

\* Of version v, the walk has passed over no block with the identifier wanted, and it
\* does not end before the node list of v does.
Passed(v) ==
  LET c == ChainOf(v)
  IN  /\ \A k \in 1 .. Len(c) : \A j \in 0 .. NodeCount(v, c[k].at) - 1 :
           Visited(k, j) => ~Holds(v, wanted, ElementAt(c[k].at, j))
      /\ pc = "node" /\ position = 0 => Len(c) <= walked
      /\ pc = "element" /\ node.next = 0 => Len(c) <= walked

\* The node entered is the next of the list, with what it says of its elements.
LEMMA NextNode ==
  ASSUME LiveTypeOK, NEW f \in Files, f = held, WellFormed(f), OnChain(f), pc = "node", position # 0,
         NEW c, c = ChainOf(f)
  PROVE  /\ walked + 1 \in 1 .. Len(c) /\ position = c[walked + 1].at
         /\ counted = c[walked + 1].before
         /\ NodeNext(f, position) = 0 <=> walked + 1 = Len(c)
         /\ walked + 1 < Len(c) => NodeNext(f, position) = c[walked + 2].at
<1>1. walked \in Nat /\ Len(c) \in Nat
  BY ChainShape, BoundAssumption DEF LiveTypeOK, LocalTypeOK
<1>2. walked < Len(c) /\ position = c[walked + 1].at
  BY DEF OnChain
<1>3. walked + 1 \in 1 .. Len(c) /\ (walked + 1) - 1 = walked /\ (walked + 1) + 1 = walked + 2
  BY <1>1, <1>2
<1>4. counted = c[walked + 1].before
  <2>1. Trail(f, c)
    BY ChainIsComplete DEF WellFormed, Complete
  <2>2. c[walked + 1] = After(f, c, walked)
    BY <1>3, <2>1 DEF Trail
  <2> QED BY <2>2 DEF OnChain
<1>5. /\ walked + 1 = Len(c) => NodeNext(f, position) = 0
      /\ walked + 1 # Len(c) => NodeNext(f, position) = c[walked + 2].at
  BY <1>2, <1>3, ChainNode
<1>6. walked + 1 # Len(c) => c[walked + 2].at # 0
  <2>1. walked + 1 # Len(c) => walked + 2 \in 1 .. Len(c)
    BY <1>1, <1>3
  <2> QED BY <2>1, ChainNode
<1> QED BY <1>1, <1>2, <1>3, <1>4, <1>5, <1>6

LEMMA OnChainEnter ==
  ASSUME LiveTypeOK, NEW f \in Files, f = held, WellFormed(f), OnChain(f), EnterNode
  PROVE  OnChain(f)'
<1> DEFINE c == ChainOf(f)
<1>1. pc = "node" /\ position # 0 /\ walked \in Nat
  BY BoundAssumption DEF EnterNode, LiveTypeOK, LocalTypeOK
<1>2. /\ walked + 1 \in 1 .. Len(c) /\ position = c[walked + 1].at
      /\ counted = c[walked + 1].before
      /\ NodeNext(f, position) = 0 \/ (walked + 1 < Len(c) /\ NodeNext(f, position) = c[walked + 2].at)
  <2>1. Len(c) \in Nat
    BY ChainShape
  <2> QED BY <1>1, <2>1, NextNode
<1>3. NodeCount(f, position) \in Nat
  BY <1>2, ChainNode
<1> HIDE DEF c
<1>4. /\ pc' = "element" /\ walked' = walked + 1 /\ i' = 0 /\ position' = position
      /\ node'.count = NodeCount(f, position) /\ node'.next = NodeNext(f, position)
      /\ counted' = counted + NodeCount(f, position) /\ seen' = seen \cup {position}
  BY DEF EnterNode
<1>5. counted' = After(f, c, walked').before
  BY <1>1, <1>2, <1>4 DEF After
<1>6. seen' = {c[k].at : k \in 1 .. walked'}
  <2>1. seen = {c[k].at : k \in 1 .. walked}
    BY <1>1 DEF OnChain, c
  <2> QED BY <1>1, <1>2, <1>4, <2>1
<1>7. /\ walked' <= Len(c) /\ 1 <= walked' /\ position' = c[walked'].at
      /\ node'.count = NodeCount(f, position') /\ i' <= node'.count
      /\ node'.next = 0 \/ (walked' < Len(c) /\ node'.next = c[walked' + 1].at)
  BY <1>1, <1>2, <1>3, <1>4
<1> QED BY <1>4, <1>5, <1>6, <1>7 DEF OnChain, c

LEMMA OnChainStep ==
  ASSUME LiveTypeOK, HandleInv, NEW f \in Files, f = held, WellFormed(f), OnChain(f), LocalStep,
         pc \in Walking
  PROVE  OnChain(f)' /\ held' = f
<1> USE DEF Walking
<1>1. CASE ReadPreamble
  <2> DEFINE c == ChainOf(f)
  <2>1. /\ walked' = 0 /\ position' = PreambleLen /\ seen' = {} /\ counted' = 0
        /\ pc' \in {"node", "done"} /\ held' = f
    BY <1>1 DEF HandleInv, LiveNotWalked, ReadPreamble, walkVars, Finish
  <2>2. Len(c) \in Nat /\ 1 <= Len(c) /\ c[1].at = PreambleLen
    BY ChainShape
  <2>3. seen' = {c[k].at : k \in 1 .. 0} /\ counted' = After(f, c, 0).before
    BY <2>1 DEF After
  <2> HIDE DEF c
  <2> QED BY <2>1, <2>2, <2>3 DEF OnChain, c
<1>2. CASE WalkTooLong \/ EndOfIndex \/ RefuseNode \/ ElementUnreadable \/ TakeElement
  BY <1>2 DEF WalkTooLong, EndOfIndex, RefuseNode, ElementUnreadable, TakeElement, Finish, OnChain
<1>3. CASE EnterNode
  BY <1>3, OnChainEnter DEF EnterNode
<1>4. CASE SkipElement
  BY <1>4 DEF SkipElement, OnChain, LiveTypeOK, LocalTypeOK
<1>5. CASE LeaveNode
  BY <1>5 DEF LeaveNode, OnChain
<1>6. ~(Stat \/ OpenFile \/ OpenFails \/ ReadWhole \/ ReadBlock)
  BY DEF Stat, OpenFile, OpenFails, ReadWhole, ReadBlock
<1> QED BY <1>1, <1>2, <1>3, <1>4, <1>5, <1>6 DEF LocalStep

LEMMA PassedEnter ==
  ASSUME LiveTypeOK, NEW f \in Files, f = held, OnChain(f), EnterNode,
         NEW v \in Files, Extends(v, f), Passed(v), wanted' = wanted
  PROVE  Passed(v)'
<1> DEFINE b == ChainOf(v)
<1>1. /\ pc = "node" /\ position # 0 /\ walked \in Nat
      /\ pc' = "element" /\ walked' = walked + 1 /\ i' = 0
      /\ node'.next = NodeNext(f, position)
  BY BoundAssumption DEF EnterNode, LiveTypeOK, LocalTypeOK
<1>2. WellFormed(v) /\ WellFormed(f) /\ Len(b) <= Len(ChainOf(f))
  BY GrownKeeps
<1>3. Len(b) \in Nat /\ Len(ChainOf(f)) \in Nat
  BY <1>2, ChainShape
<1>4. node'.next = 0 => Len(b) <= walked'
  <2>1. node'.next = 0 => walked + 1 = Len(ChainOf(f))
    BY <1>1, <1>2, NextNode
  <2> QED BY <1>1, <1>2, <1>3, <2>1
<1>5. ASSUME NEW k \in 1 .. Len(b), NEW j \in 0 .. NodeCount(v, b[k].at) - 1, Visited(k, j)'
      PROVE  ~Holds(v, wanted, ElementAt(b[k].at, j))
  <2>1. k < walked + 1
    BY <1>1, <1>5 DEF Visited
  <2>2. Visited(k, j)
    BY <1>1, <1>3, <2>1 DEF Visited
  <2> QED BY <2>2 DEF Passed
<1> HIDE DEF b
<1> QED BY <1>1, <1>4, <1>5 DEF Passed, b

LEMMA PassedSkip ==
  ASSUME LiveTypeOK, NEW f \in Files, f = held, OnChain(f), SkipElement,
         NEW v \in Files, Extends(v, f), Passed(v), wanted' = wanted
  PROVE  Passed(v)'
<1> DEFINE b == ChainOf(v)
<1>1. /\ pc = "element" /\ walked \in Nat /\ i \in Nat /\ ~Matches(HeldElement)
      /\ pc' = pc /\ walked' = walked /\ i' = i + 1 /\ position' = position /\ node' = node
  BY BoundAssumption DEF SkipElement, LiveTypeOK, LocalTypeOK
<1>2. ASSUME NEW k \in 1 .. Len(b), NEW j \in 0 .. NodeCount(v, b[k].at) - 1, Visited(k, j)',
             Holds(v, wanted, ElementAt(b[k].at, j))
      PROVE  FALSE
  <2>1. ~Visited(k, j)
    BY <1>2 DEF Passed
  <2>2. k = walked /\ j = i
    BY <1>1, <1>2, <2>1 DEF Visited
  <2>3. ElementAt(b[k].at, j) \in ElementOffsets(v, b)
    BY DEF ElementOffsets
  <2>4. Holds(f, wanted, ElementAt(b[k].at, j))
    BY <1>2, <2>3, GrownHolds
  <2>5. b[k].at = position
    <3>1. b[k] = ChainOf(f)[k]
      BY GrownKeeps
    <3> QED BY <1>1, <2>2, <3>1 DEF OnChain
  <2> QED BY <1>1, <2>2, <2>4, <2>5 DEF Holds, Matches, HeldElement
<1> HIDE DEF b
<1> QED BY <1>1, <1>2 DEF Passed, b

LEMMA PassedLeave ==
  ASSUME LiveTypeOK, NEW f \in Files, f = held, OnChain(f), LeaveNode,
         NEW v \in Files, Extends(v, f), Passed(v), wanted' = wanted
  PROVE  Passed(v)'
<1> DEFINE b == ChainOf(v)
<1>1. /\ pc = "element" /\ walked \in Nat /\ i = node.count /\ node.count \in Nat
      /\ pc' = "node" /\ walked' = walked /\ position' = node.next
  BY BoundAssumption DEF LeaveNode, LiveTypeOK, LocalTypeOK
<1>2. ASSUME NEW k \in 1 .. Len(b), NEW j \in 0 .. NodeCount(v, b[k].at) - 1, Visited(k, j)'
      PROVE  ~Holds(v, wanted, ElementAt(b[k].at, j))
  <2>1. k < walked \/ k = walked
    BY <1>1, <1>2 DEF Visited
  <2>2. k = walked => j < i
    <3>1. b[k] = ChainOf(f)[k] /\ NodeCount(f, b[k].at) = NodeCount(v, b[k].at)
      BY GrownKeeps
    <3>2. k = walked => NodeCount(v, b[k].at) = node.count
      BY <1>1, <3>1 DEF OnChain
    <3> QED BY <1>1, <3>2
  <2>3. Visited(k, j)
    BY <2>1, <2>2 DEF Visited
  <2> QED BY <2>3 DEF Passed
<1>3. position' = 0 => Len(b) <= walked'
  BY <1>1 DEF Passed
<1> HIDE DEF b
<1> QED BY <1>1, <1>2, <1>3 DEF Passed, b

\* What has been passed over of version v stays passed over, step by step.
LEMMA PassedStep ==
  ASSUME LiveTypeOK, HandleInv, NEW f \in Files, f = held, OnChain(f), LocalStep, pc \in Walking,
         NEW v \in Files, Extends(v, f), Passed(v), wanted' = wanted, pc' \in Walking
  PROVE  Passed(v)'
<1> USE DEF Walking
<1>1. CASE ReadPreamble
  <2>1. pc' = "node" /\ walked' = 0 /\ position' # 0
    BY <1>1 DEF ReadPreamble, walkVars, Finish, HandleInv, LiveNotWalked, PreambleLen
  <2>2. ASSUME NEW k \in 1 .. Len(ChainOf(v)), NEW j, Visited(k, j)'
        PROVE  FALSE
    BY <2>1, <2>2 DEF Visited
  <2> QED BY <2>1, <2>2 DEF Passed
<1>2. ~(WalkTooLong \/ EndOfIndex \/ RefuseNode \/ ElementUnreadable \/ TakeElement)
  BY DEF WalkTooLong, EndOfIndex, RefuseNode, ElementUnreadable, TakeElement, Finish
<1>3. ~(Stat \/ OpenFile \/ OpenFails \/ ReadWhole \/ ReadBlock)
  BY DEF Stat, OpenFile, OpenFails, ReadWhole, ReadBlock
<1> QED BY <1>1, <1>2, <1>3, PassedEnter, PassedSkip, PassedLeave DEF LocalStep

\* Before the walk, nothing has been passed over.
LEMMA NothingPassed ==
  ASSUME NEW v, walked = 0, pc = "preamble", Len(ChainOf(v)) \in Nat
  PROVE  Passed(v)
BY DEF Visited, Passed

\* A file grown under the walk: the walk is as far on the longer list.
LEMMA OnChainGrown ==
  ASSUME LiveTypeOK, NEW f \in Files, NEW g \in Files, Extends(f, g), OnChain(f)
  PROVE  OnChain(g)
<1> DEFINE c == ChainOf(f)
           d == ChainOf(g)
<1>1. /\ Len(c) \in Nat /\ Len(d) \in Nat /\ Len(c) <= Len(d) /\ walked \in Nat
      /\ c[1].at = d[1].at
  <2>1. WellFormed(f) /\ WellFormed(g) /\ Len(c) <= Len(d)
    BY GrownKeeps
  <2> QED BY <2>1, ChainShape, BoundAssumption DEF LiveTypeOK, LocalTypeOK
<1>2. \A k \in 1 .. Len(c) : d[k] = c[k] /\ NodeCount(g, c[k].at) = NodeCount(f, c[k].at)
  BY GrownKeeps
<1>3. ASSUME pc \in {"node", "element"}
      PROVE  /\ walked <= Len(d)
             /\ seen = {d[k].at : k \in 1 .. walked}
             /\ counted = After(g, d, walked).before
  <2>1. walked <= Len(c) /\ seen = {c[k].at : k \in 1 .. walked} /\ counted = After(f, c, walked).before
    BY <1>3 DEF OnChain
  <2>2. \A k \in 1 .. walked : d[k] = c[k]
    BY <1>1, <1>2, <2>1
  <2>3. seen = {d[k].at : k \in 1 .. walked}
    BY <2>1, <2>2
  <2>4. counted = After(g, d, walked).before
    BY <1>1, <1>2, <2>1 DEF After
  <2>5. walked <= Len(d)
    BY <1>1, <2>1
  <2> HIDE DEF c, d
  <2> QED BY <2>3, <2>4, <2>5
<1>4. ASSUME pc = "node"
      PROVE  position = 0 \/ (walked < Len(d) /\ position = d[walked + 1].at)
  <2>1. position = 0 \/ (walked < Len(c) /\ position = c[walked + 1].at)
    BY <1>4 DEF OnChain
  <2> QED BY <1>1, <1>2, <2>1
<1>5. ASSUME pc = "element"
      PROVE  /\ 1 <= walked /\ position = d[walked].at
             /\ node.count = NodeCount(g, position) /\ i <= node.count
             /\ node.next = 0 \/ (walked < Len(d) /\ node.next = d[walked + 1].at)
  <2>1. /\ 1 <= walked /\ walked <= Len(c) /\ position = c[walked].at
        /\ node.count = NodeCount(f, position) /\ i <= node.count
        /\ node.next = 0 \/ (walked < Len(c) /\ node.next = c[walked + 1].at)
    BY <1>5 DEF OnChain
  <2> QED BY <1>1, <1>2, <2>1
<1> HIDE DEF c, d
<1> QED BY <1>3, <1>4, <1>5 DEF OnChain, d

-----------------------------------------------------------------------------
(* The changes made so far. *)

LEMMA OnlyBefore ==
  ASSUME LiveTypeOK, NEW K, NEW kind, NEW g, Change(kind, g), Only(K)'
  PROVE  Only(K) /\ kind \in K
<1>1. /\ changes \in Seq({"grow", "replace", "overwrite"})
      /\ changes' = Append(changes, kind)
  BY DEF LiveTypeOK, Change
<1>2. /\ Len(changes) \in Nat
      /\ DOMAIN changes = 1 .. Len(changes)
      /\ DOMAIN changes' = 1 .. (Len(changes) + 1)
      /\ changes'[Len(changes) + 1] = kind
      /\ \A k \in 1 .. Len(changes) : changes'[k] = changes[k]
  BY <1>1
<1> QED BY <1>2 DEF Only

\* A file is grown only if it was well formed, and only the present one is.
LEMMA GrowthStep ==
  ASSUME LiveTypeOK, HandleInv, Grow
  PROVE  /\ disk' \in Files /\ Extends(disk, disk')
         /\ held' = held \/ (Opened /\ held = disk /\ held' = disk')
         /\ versions' = versions \cup {disk'}
         /\ UNCHANGED <<wanted, pc, statLen, walkVars, result>>
<1>1. PICK g \in Files : <<disk, g>> \in Growths /\ Change("grow", g) /\ InPlace(g)
  BY DEF Grow
<1>2. disk' = g /\ Extends(disk, g)
  BY <1>1, GrowthAssumption DEF Change
<1> QED BY <1>1, <1>2 DEF Change, InPlace, HandleInv

-----------------------------------------------------------------------------
(***************************************************************************)
(* A unit that is grown, or replaced by another file, but never written    *)
(* over: the walk over a well-formed file follows its node list and has    *)
(* passed over no block of the version it began with, and the element it   *)
(* takes is one of the open file.                                          *)
(***************************************************************************)
BlockIn(f) ==
  \E a \in 0 .. FileLen(f) :
    /\ a + ElementLen <= FileLen(f)
    /\ found = Element(f, a) /\ Holds(f, wanted, a)
    /\ WellFormed(f) => a \in ElementOffsets(f, ChainOf(f))

\* A version from which the open file was grown, and whose blocks were not passed over.
Began == \E v \in versions \cap Files : Extends(v, held) /\ Passed(v)

NeverOverwritten == Only({"grow", "replace"})

FollowsInv ==
  NeverOverwritten =>
    /\ pc \in Reading => IsBlocksFile(held)
    /\ pc \in Walking /\ WellFormed(held) => OnChain(held) /\ Began
    /\ pc = "block" => BlockIn(held)

LEMMA FollowsInit == LiveInit => FollowsInv
BY DEF LiveInit, LocalInit, FollowsInv, Reading, Walking

LEMMA FollowsOpen ==
  ASSUME LiveTypeOK, HandleInv, Read, pc \notin Reading, pc' \in Reading
  PROVE  /\ pc' = "preamble" /\ IsBlocksFile(held')
         /\ WellFormed(held') => OnChain(held)' /\ Began'
<1>1. /\ OpenFile /\ pc' = "preamble"
      /\ UNCHANGED <<disk, wanted, versions>>
  BY DEF Read, LocalNext, LocalStep, Reading, Stat, OpenFile, OpenFails, ReadWhole, ReadPreamble,
         WalkTooLong, EndOfIndex, RefuseNode, EnterNode, ElementUnreadable, SkipElement,
         TakeElement, ReadBlock, LeaveNode, Finish
<1>2. held' = disk /\ disk \in Files /\ disk \in versions /\ walked' = 0
  BY <1>1 DEF OpenFile, HandleInv, LiveNotWalked, walkVars
<1>3. IsBlocksFile(held')
  BY <1>1, <1>2 DEF OpenFile, Finish
<1>4. OnChain(held)'
  BY <1>1 DEF OnChain
<1>5. WellFormed(held') => Began'
  <2> SUFFICES ASSUME WellFormed(disk) PROVE Began'
    BY <1>2
  <2> PICK v \in Files : v = disk
    BY <1>2
  <2>1. Extends(v, v) /\ Len(ChainOf(v)) \in Nat
    BY ExtendsItself, ChainShape
  <2>2. Passed(v)'
    BY <1>1, <1>2, <2>1 DEF Passed, Visited
  <2> QED BY <1>1, <1>2, <2>1, <2>2 DEF Began
<1> QED BY <1>1, <1>3, <1>4, <1>5

LEMMA FollowsTake ==
  ASSUME LiveTypeOK, HandleInv, NEW f \in Files, f = held, WellFormed(f) => OnChain(f),
         TakeElement, pc' = "block", wanted' = wanted
  PROVE  BlockIn(f)'
<1> DEFINE a == ElementAt(position, i)
<1>1. /\ pc = "element" /\ i < node.count /\ i \in Nat /\ position \in Nat /\ walked \in Nat
      /\ ElementAt(position, i + 1) <= FileLen(f) /\ FileLen(f) \in Nat
      /\ found' = Element(f, a) /\ Holds(f, wanted, a) /\ node.count \in Nat
  BY FileAssumption, BoundAssumption
     DEF TakeElement, ElementReadable, Matches, HeldElement, Holds, Finish, LiveTypeOK, LocalTypeOK
<1>2. a \in 0 .. FileLen(f) /\ a + ElementLen <= FileLen(f)
  BY <1>1 DEF ElementAt, NodeHeaderLen, ElementLen
<1>3. WellFormed(f) => a \in ElementOffsets(f, ChainOf(f))
  <2> SUFFICES ASSUME WellFormed(f) PROVE a \in ElementOffsets(f, ChainOf(f))
    OBVIOUS
  <2>1. /\ walked \in 1 .. Len(ChainOf(f)) /\ position = ChainOf(f)[walked].at
        /\ node.count = NodeCount(f, position)
    BY <1>1, ChainShape DEF OnChain
  <2>2. i \in 0 .. NodeCount(f, ChainOf(f)[walked].at) - 1
    BY <1>1, <2>1
  <2> QED BY <2>1, <2>2 DEF ElementOffsets
<1> HIDE DEF a
<1> QED BY <1>1, <1>2, <1>3 DEF BlockIn

LEMMA FollowsReadStep ==
  ASSUME LiveTypeOK, HandleInv, FollowsInv, Read
  PROVE  FollowsInv'
<1> SUFFICES ASSUME NeverOverwritten', pc' \in Reading
             PROVE  /\ IsBlocksFile(held')
                    /\ pc' \in Walking /\ WellFormed(held') => OnChain(held)' /\ Began'
                    /\ pc' = "block" => BlockIn(held)'
  BY DEF FollowsInv, Reading, Walking
<1>1. LocalStep /\ UNCHANGED <<disk, wanted, versions, changes>>
  BY DEF Read, LocalNext
<1>2. NeverOverwritten
  BY <1>1 DEF NeverOverwritten, Only
<1>3. CASE pc \notin Reading
  BY <1>3, FollowsOpen
<1>4. CASE pc \in Reading
  <2>1. pc \in Walking /\ held' = held
    BY <1>1, <1>4
       DEF Reading, Walking, LocalStep, Stat, OpenFile, OpenFails, ReadWhole, ReadPreamble,
           WalkTooLong, EndOfIndex, RefuseNode, EnterNode, ElementUnreadable, SkipElement,
           TakeElement, ReadBlock, LeaveNode, Finish
  <2> PICK f \in Files : f = held
    BY <1>4 DEF LiveTypeOK, LocalTypeOK
  <2>2. IsBlocksFile(f) /\ (WellFormed(f) => OnChain(f) /\ Began)
    BY <1>2, <1>4, <2>1 DEF FollowsInv
  <2>3. WellFormed(f) => OnChain(f)'
    BY <1>1, <2>1, <2>2, OnChainStep
  <2>4. WellFormed(f) /\ pc' \in Walking => Began'
    <3> SUFFICES ASSUME WellFormed(f), pc' \in Walking PROVE Began'
      OBVIOUS
    <3>1. PICK v \in versions \cap Files : Extends(v, f) /\ Passed(v)
      BY <2>2 DEF Began
    <3>2. Passed(v)'
      BY <1>1, <2>1, <2>2, <3>1, PassedStep
    <3> QED BY <1>1, <2>1, <3>1, <3>2 DEF Began
  <2>5. pc' = "block" => BlockIn(f)'
    <3> SUFFICES ASSUME pc' = "block" PROVE BlockIn(f)'
      OBVIOUS
    <3>1. TakeElement
      BY <1>1, <2>1
         DEF Walking, LocalStep, Stat, OpenFile, OpenFails, ReadWhole, ReadPreamble,
             WalkTooLong, EndOfIndex, RefuseNode, EnterNode, ElementUnreadable, SkipElement,
             ReadBlock, LeaveNode, Finish
    <3> QED BY <1>1, <2>2, <3>1, FollowsTake
  <2>6. (OnChain(held)' <=> OnChain(f)') /\ (BlockIn(held)' <=> BlockIn(f)')
    BY <2>1
  <2> QED BY <2>1, <2>2, <2>3, <2>4, <2>5, <2>6
<1> QED BY <1>3, <1>4

\* Growing the file under the walk.
LEMMA FollowsGrow ==
  ASSUME LiveTypeOK, HandleInv, FollowsInv, Grow
  PROVE  FollowsInv'
<1> SUFFICES ASSUME NeverOverwritten', pc' \in Reading
             PROVE  /\ IsBlocksFile(held')
                    /\ pc' \in Walking /\ WellFormed(held') => OnChain(held)' /\ Began'
                    /\ pc' = "block" => BlockIn(held)'
  BY DEF FollowsInv, Reading, Walking
<1>1. NeverOverwritten
  BY OnlyBefore DEF Grow, NeverOverwritten
<1>2. /\ disk' \in Files /\ Extends(disk, disk')
      /\ held' = held \/ (held = disk /\ held' = disk')
      /\ versions' = versions \cup {disk'}
      /\ UNCHANGED <<wanted, pc, statLen, walkVars, result>>
  BY GrowthStep
<1>3. held \in Files /\ pc \in Reading
  BY <1>2 DEF LiveTypeOK, LocalTypeOK
<1>4. /\ IsBlocksFile(held)
      /\ pc \in Walking /\ WellFormed(held) => OnChain(held) /\ Began
      /\ pc = "block" => BlockIn(held)
  BY <1>1, <1>3 DEF FollowsInv
<1> PICK f \in Files : f = held
  BY <1>3
<1> PICK g \in Files : g = held'
  BY <1>2, <1>3
<1>5. CASE f = g
  <2>1. OnChain(held) => OnChain(held)'
    BY <1>2, <1>5 DEF OnChain, walkVars
  <2>2. Began => Began'
    BY <1>2, <1>5 DEF Began, Passed, Visited, walkVars
  <2>3. BlockIn(held) => BlockIn(held)'
    BY <1>2, <1>5 DEF BlockIn, walkVars
  <2> QED BY <1>2, <1>4, <1>5, <2>1, <2>2, <2>3
<1>6. CASE f # g
  <2>1. Extends(f, g) /\ WellFormed(f) /\ WellFormed(g)
    BY <1>2, <1>6 DEF Extends
  <2>2. IsBlocksFile(g)
    BY <2>1, FileAssumption DEF WellFormed, PreambleError, IsBlocksFile, PreambleLen
  <2>3. ASSUME pc' \in Walking
        PROVE  OnChain(held)' /\ Began'
    <3>1. OnChain(f) /\ Began
      BY <1>2, <1>4, <2>1, <2>3
    <3>2. OnChain(g)
      BY <2>1, <3>1, OnChainGrown
    <3>3. OnChain(held)'
      BY <1>2, <3>2 DEF OnChain, walkVars
    <3>4. PICK v \in versions \cap Files : Extends(v, f) /\ Passed(v)
      BY <3>1 DEF Began
    <3>5. Extends(v, g)
      BY <2>1, <3>4, ExtendsFurther
    <3>6. Passed(v)'
      BY <1>2, <3>4 DEF Passed, Visited, walkVars
    <3> QED BY <1>2, <3>3, <3>4, <3>5, <3>6 DEF Began
  <2>4. ASSUME pc' = "block"
        PROVE  BlockIn(held)'
    <3>1. PICK a \in 0 .. FileLen(f) : /\ found = Element(f, a) /\ Holds(f, wanted, a)
                                       /\ a \in ElementOffsets(f, ChainOf(f))
      BY <1>2, <1>4, <2>1, <2>4 DEF BlockIn
    <3>2. a \in ElementOffsets(g, ChainOf(g)) /\ Element(g, a) = Element(f, a) /\ Holds(g, wanted, a)
      BY <2>1, <3>1, GrownHolds
    <3>3. a \in 0 .. FileLen(g) /\ a + ElementLen <= FileLen(g)
      BY <2>1, <3>2, ChainElement
    <3>4. BlockIn(g)
      BY <3>1, <3>2, <3>3 DEF BlockIn
    <3> QED BY <1>2, <3>4 DEF BlockIn, walkVars
  <2> QED BY <2>2, <2>3, <2>4
<1> QED BY <1>5, <1>6

LEMMA LiveFollowsStep ==
  ASSUME LiveTypeOK, HandleInv, FollowsInv, [LiveNext]_liveVars
  PROVE  FollowsInv'
<1>1. CASE Replace
  <2>1. /\ UNCHANGED <<wanted, pc, held, walkVars>>
        /\ versions' = versions \cup {disk'}
        /\ NeverOverwritten' => NeverOverwritten
    BY <1>1, OnlyBefore DEF Replace, Change, NeverOverwritten
  <2>2. (OnChain(held) => OnChain(held)') /\ (Began => Began') /\ (BlockIn(held) => BlockIn(held)')
    BY <2>1 DEF OnChain, Began, Passed, Visited, BlockIn, walkVars
  <2> QED BY <2>1, <2>2 DEF FollowsInv
<1>2. CASE Overwrite
  <2>1. PICK g \in Files : Change("overwrite", g)
    BY <1>2 DEF Overwrite
  <2>2. Only({"grow", "replace"})' => "overwrite" \in {"grow", "replace"}
    BY <2>1, OnlyBefore
  <2>3. ~NeverOverwritten'
    BY <2>2 DEF NeverOverwritten
  <2> QED BY <2>3 DEF FollowsInv
<1>3. CASE Answered \/ UNCHANGED liveVars
  BY <1>3
     DEF Answered, liveVars, localVars, walkVars, worldVars, FollowsInv, NeverOverwritten, Only,
         OnChain, Began, Passed, Visited, BlockIn
<1> QED BY <1>1, <1>2, <1>3, FollowsReadStep, FollowsGrow DEF LiveNext

LEMMA LiveFollowsHolds == LiveSpec => [](HandleInv /\ FollowsInv)
<1>1. LiveInit => HandleInv /\ FollowsInv
  BY HandleInit, FollowsInit
<1>2. LiveTypeOK /\ HandleInv /\ FollowsInv /\ [LiveNext]_liveVars => HandleInv' /\ FollowsInv'
  BY HandleStep, LiveFollowsStep
<1> QED BY <1>1, <1>2, LiveTypeCorrect, PTL DEF LiveSpec

-----------------------------------------------------------------------------
(* The promise, read of the versions of the unit. *)

\* The replies LiveUnit compares the answer with are those of BlockPromise.
LEMMA PromisedIsPromise ==
  ASSUME NEW f, NEW n
  PROVE  Promised!Replies(f, n) = Replies(f, n) /\ Promised!Holders(f, n) = Holders(f, n)
<1>1. \A a : Promised!Element(f, a) = Element(f, a)
  BY DEF Promised!Element, Element
<1>2. \A e : Promised!Refused(e) = Refused(e) /\ Promised!IsFree(e) = IsFree(e)
  BY DEF Promised!Refused, Refused, Promised!IsFree, IsFree
<1>3. \A e : Promised!BlockOf(f, e) = BlockOf(f, e) /\ Promised!InFile(f, e) = InFile(f, e)
  BY DEF Promised!BlockOf, BlockOf, Promised!Slice, Slice, Promised!InFile, InFile
<1>4. \A p : Promised!NodeCount(f, p) = NodeCount(f, p) /\ Promised!NodeNext(f, p) = NodeNext(f, p)
  BY DEF Promised!NodeCount, NodeCount, Promised!NodeNext, NodeNext
<1>5. \A p, j : Promised!ElementAt(p, j) = ElementAt(p, j)
  BY DEF Promised!ElementAt, ElementAt, Promised!NodeHeaderLen, NodeHeaderLen, Promised!ElementLen, ElementLen
<1>6. \A m : Promised!NodeInside(f, m) = NodeInside(f, m)
  BY <1>4, <1>5
     DEF Promised!NodeInside, NodeInside, Promised!NodeHeaderLen, NodeHeaderLen,
         Promised!NodeReserved, NodeReserved, Promised!MaxElements, MaxElements,
         Promised!ElementLen, ElementLen
<1>7. \A c, k : Promised!Linked(f, c, k) <=> Linked(f, c, k)
  BY <1>4 DEF Promised!Linked, Linked
<1>8. \A c : Promised!IsChain(f, c) = IsChain(f, c)
  BY <1>6, <1>7 DEF Promised!IsChain, IsChain, Promised!PreambleLen, PreambleLen
<1>9. \A c : Promised!ElementOffsets(f, c) = ElementOffsets(f, c)
  BY <1>4, <1>5 DEF Promised!ElementOffsets, ElementOffsets
<1>10. \A c : /\ Promised!ElementsUnique(f, c) = ElementsUnique(f, c)
              /\ Promised!BlocksInside(f, c) = BlocksInside(f, c)
  BY <1>1, <1>2, <1>9
     DEF Promised!ElementsUnique, ElementsUnique, Promised!BlocksInside, BlocksInside
<1>11. Promised!WellFormed(f) = WellFormed(f)
  BY <1>8, <1>10
     DEF Promised!WellFormed, WellFormed, Promised!PreambleError, PreambleError,
         Promised!PreambleLen, PreambleLen
<1>12. /\ Promised!Holders(f, n) = Holders(f, n)
       /\ Promised!Lookalikes(f, n) = Lookalikes(f, n)
  BY <1>1, <1>2, <1>3, <1>9
     DEF Promised!Holders, Holders, Promised!Lookalikes, Lookalikes, Promised!ElementLen, ElementLen
<1>13. Promised!BlockReplies(f, n) = BlockReplies(f, n)
  BY <1>2, <1>3, <1>11, <1>12 DEF Promised!BlockReplies, BlockReplies, Promised!Errors, Errors
<1>14. Promised!Replies(f, n) = Replies(f, n)
  BY <1>2, <1>13
     DEF Promised!Replies, Replies, Promised!IsBlocksFile, IsBlocksFile, Promised!Whole, Whole
<1> QED BY <1>12, <1>14

\* An answer is one of three kinds, told apart by its kind, and a refusal by its error.
LEMMA AnswerKinds ==
  ASSUME NEW e, NEW g, NEW f, NEW a, NEW n
  PROVE  /\ Refused(e).kind = "refused" /\ Slice(f, a, n).kind = "slice" /\ Whole(f).kind = "whole"
         /\ Refused(e) = Refused(g) => e = g
<1>1. Refused(e).error = e /\ Refused(g).error = g
  BY DEF Refused
<1> QED BY <1>1 DEF Refused, Slice, Whole

\* What each last step answers.
LEMMA AnswerStep ==
  ASSUME LiveTypeOK, LocalStep, pc' = "done"
  PROVE  /\ result'.kind = "slice" =>
              /\ ReadBlock /\ found.position + found.length <= FileLen(held)
              /\ result' = Slice(held, found.position, found.length)
         /\ result' = Refused("NotFound") => ((Stat \/ OpenFails) /\ disk = Missing) \/ EndOfIndex
<1>1. CASE Stat
  BY <1>1, AnswerKinds DEF Stat, Finish
<1>2. CASE OpenFile \/ OpenFails
  BY <1>2, AnswerKinds DEF OpenFile, OpenFails, Finish
<1>3. CASE ReadWhole
  BY <1>3, AnswerKinds DEF ReadWhole, Finish
<1>4. CASE ReadPreamble
  BY <1>4, AnswerKinds DEF ReadPreamble, Finish, PreambleError
<1>5. CASE WalkTooLong \/ EndOfIndex \/ ElementUnreadable
  BY <1>5, AnswerKinds DEF WalkTooLong, EndOfIndex, ElementUnreadable, Finish
<1>6. CASE RefuseNode
  BY <1>6, AnswerKinds DEF RefuseNode, Finish, NodeError
<1>7. CASE TakeElement
  BY <1>7, AnswerKinds DEF TakeElement, Finish
<1>8. CASE ReadBlock
  <2>1. found.position + found.length \in Nat /\ FileLen(held) \in Nat
    BY <1>8, FileAssumption DEF ReadBlock, LiveTypeOK, LocalTypeOK, Reading
  <2>2. CASE found.position + found.length > FileLen(held)
    BY <1>8, <2>2, AnswerKinds DEF ReadBlock, Finish
  <2>3. CASE ~(found.position + found.length > FileLen(held))
    <3>1. result' = Slice(held, found.position, found.length)
      BY <1>8, <2>3 DEF ReadBlock, Finish
    <3>2. result' # Refused("NotFound")
      BY <3>1, AnswerKinds
    <3> QED BY <1>8, <2>1, <2>3, <3>1, <3>2
  <2> QED BY <2>2, <2>3
<1>9. ~(EnterNode \/ SkipElement \/ LeaveNode)
  BY DEF EnterNode, SkipElement, LeaveNode
<1> QED BY <1>1, <1>2, <1>3, <1>4, <1>5, <1>6, <1>7, <1>8, <1>9 DEF LocalStep

\* The block returned is one the promise allows of the open file.
LEMMA SliceIsPromised ==
  ASSUME LiveTypeOK, HandleInv, NEW f \in Files, f = held, pc = "block", IsBlocksFile(f), BlockIn(f),
         found.position + found.length <= FileLen(f)
  PROVE  Slice(f, found.position, found.length) \in Replies(f, wanted)
<1>1. PICK a \in 0 .. FileLen(f) :
        /\ a + ElementLen <= FileLen(f)
        /\ found = Element(f, a) /\ Holds(f, wanted, a)
        /\ WellFormed(f) => a \in ElementOffsets(f, ChainOf(f))
  BY DEF BlockIn
<1>2. WellFormed(f) => found \in Holders(f, wanted)
  BY <1>1 DEF Holders, Holds
<1>3. found \in Lookalikes(f, wanted)
  BY <1>1 DEF Lookalikes, Holds, InFile
<1>4. Slice(f, found.position, found.length) = BlockOf(f, found)
  BY DEF BlockOf
<1>5. BlockOf(f, found) \in BlockReplies(f, wanted)
  BY <1>2, <1>3 DEF BlockReplies
<1>6. wanted # NoIndex
  BY DEF HandleInv, Reading
<1> QED BY <1>4, <1>5, <1>6 DEF Replies

\* A version all of whose list was passed over has no block with the identifier.
LEMMA MissingFromVersion ==
  ASSUME LiveTypeOK, HandleInv, NEW f \in Files, f = held, OnChain(f),
         NEW v \in Files, Extends(v, f), Passed(v), pc = "node", position = 0
  PROVE  Holders(v, wanted) = {}
<1>1. WellFormed(v) /\ Len(ChainOf(v)) \in Nat /\ Len(ChainOf(v)) <= walked /\ walked \in Nat
  BY ChainShape, BoundAssumption DEF Extends, Passed, LiveTypeOK, LocalTypeOK
<1>2. SUFFICES ASSUME NEW a \in ElementOffsets(v, ChainOf(v)), Holds(v, wanted, a) PROVE FALSE
  BY DEF Holders, Holds
<1>3. PICK k \in 1 .. Len(ChainOf(v)) : \E j \in 0 .. NodeCount(v, ChainOf(v)[k].at) - 1 :
        a = ElementAt(ChainOf(v)[k].at, j)
  BY <1>1, ChainElement
<1>4. PICK j \in 0 .. NodeCount(v, ChainOf(v)[k].at) - 1 : a = ElementAt(ChainOf(v)[k].at, j)
  BY <1>3
<1>5. Visited(k, j)
  BY <1>1 DEF Visited
<1> QED BY <1>2, <1>4, <1>5 DEF Passed

\* What the answers given so far have to do with the versions of the unit.
AnswerInv ==
  pc = "done" /\ NeverOverwritten =>
    /\ result.kind = "slice" => \E v \in versions : result \in Replies(v, wanted)
    /\ result = Refused("NotFound") => \E v \in versions : v = Missing \/ result \in Replies(v, wanted)

LEMMA MissingIsTrue ==
  ASSUME LiveTypeOK, HandleInv, FollowsInv, NeverOverwritten, EndOfIndex
  PROVE  \E v \in versions : Refused("NotFound") \in Replies(v, wanted)
<1>1. pc = "node" /\ position = 0
  BY DEF EndOfIndex
<1>2. held \in Files /\ held \in versions /\ IsBlocksFile(held) /\ wanted # NoIndex
  BY <1>1 DEF HandleInv, FollowsInv, Opened, Reading
<1> PICK f \in Files : f = held
  BY <1>2
<1>3. CASE ~WellFormed(f)
  <2>1. Refused("NotFound") \in BlockReplies(f, wanted)
    BY <1>3 DEF BlockReplies, Errors
  <2>2. Refused("NotFound") \in Replies(f, wanted)
    BY <1>2, <2>1 DEF Replies
  <2> QED BY <1>2, <2>2
<1>4. CASE WellFormed(f)
  <2>1. OnChain(f) /\ Began
    BY <1>1, <1>4 DEF FollowsInv, Reading, Walking
  <2>2. PICK v \in versions \cap Files : Extends(v, f) /\ Passed(v)
    BY <2>1 DEF Began
  <2>3. Holders(v, wanted) = {}
    BY <1>1, <2>1, <2>2, MissingFromVersion
  <2>4. IsBlocksFile(v) /\ WellFormed(v)
    <3>1. PreambleError(v) = "none" /\ FileLen(v) \in Nat
      BY <2>2, FileAssumption DEF Extends, WellFormed
    <3> QED BY <2>2, <3>1 DEF Extends, PreambleError, IsBlocksFile, PreambleLen
  <2>5. Refused("NotFound") \in Replies(v, wanted)
    BY <1>2, <2>3, <2>4 DEF Replies, BlockReplies
  <2> QED BY <2>2, <2>5
<1> QED BY <1>3, <1>4

LEMMA AnswerInvStep ==
  ASSUME LiveTypeOK, HandleInv, FollowsInv, AnswerInv, [LiveNext]_liveVars
  PROVE  AnswerInv'
<1>1. CASE Read
  <2> SUFFICES ASSUME pc' = "done", NeverOverwritten'
               PROVE  /\ result'.kind = "slice" => \E v \in versions : result' \in Replies(v, wanted)
                      /\ result' = Refused("NotFound") =>
                           \E v \in versions : v = Missing \/ result' \in Replies(v, wanted)
    BY <1>1 DEF AnswerInv, Read, LocalNext
  <2>1. LocalStep /\ UNCHANGED <<disk, wanted, versions, changes>> /\ NeverOverwritten
    BY <1>1 DEF Read, LocalNext, NeverOverwritten, Only
  <2>2. ASSUME result'.kind = "slice"
        PROVE  \E v \in versions : result' \in Replies(v, wanted)
    <3>1. /\ pc = "block" /\ found.position + found.length <= FileLen(held)
          /\ result' = Slice(held, found.position, found.length)
      BY <2>1, <2>2, AnswerStep DEF ReadBlock
    <3>2. held \in Files /\ held \in versions /\ IsBlocksFile(held) /\ BlockIn(held)
      BY <2>1, <3>1 DEF HandleInv, FollowsInv, Opened, Reading
    <3>3. Slice(held, found.position, found.length) \in Replies(held, wanted)
      BY <3>1, <3>2, SliceIsPromised
    <3> QED BY <3>1, <3>2, <3>3
  <2>3. ASSUME result' = Refused("NotFound")
        PROVE  \E v \in versions : v = Missing \/ result' \in Replies(v, wanted)
    <3>1. disk = Missing \/ EndOfIndex
      BY <2>1, <2>3, AnswerStep
    <3>2. disk \in versions
      BY DEF HandleInv
    <3> QED BY <2>1, <2>3, <3>1, <3>2, MissingIsTrue
  <2> QED BY <2>2, <2>3
<1>2. CASE Grow \/ Replace \/ Overwrite
  <2>1. pc' # "done"
    BY <1>2 DEF Grow, Replace, Overwrite, Change
  <2> QED BY <2>1 DEF AnswerInv
<1>3. CASE Answered \/ UNCHANGED liveVars
  BY <1>3 DEF Answered, liveVars, localVars, worldVars, AnswerInv, NeverOverwritten, Only
<1> QED BY <1>1, <1>2, <1>3 DEF LiveNext

LEMMA AnswerInvHolds == LiveSpec => []AnswerInv
<1>1. LiveInit => AnswerInv
  BY DEF LiveInit, LocalInit, AnswerInv
<1>2. LiveTypeOK /\ HandleInv /\ FollowsInv /\ AnswerInv /\ [LiveNext]_liveVars => AnswerInv'
  BY AnswerInvStep
<1> QED BY <1>1, <1>2, LiveTypeCorrect, LiveFollowsHolds, PTL DEF LiveSpec

\* However often the unit is grown or another file takes its place during the call, a
\* block that is returned comes whole from one version the path has named, and is a block
\* which that version has under the identifier wanted.
THEOREM BlocksAreOfOneVersion == LiveSpec => []BlockOfOneVersion
<1>1. AnswerInv => BlockOfOneVersion
  <2> SUFFICES ASSUME pc = "done", NeverOverwritten, result.kind = "slice", AnswerInv
               PROVE  result \in UNION {Promised!Replies(v, wanted) : v \in versions}
    BY DEF BlockOfOneVersion, NeverOverwritten
  <2>1. PICK v \in versions : result \in Replies(v, wanted)
    BY DEF AnswerInv
  <2>2. result \in Promised!Replies(v, wanted)
    BY <2>1, PromisedIsPromise
  <2> QED BY <2>2
<1> QED BY <1>1, AnswerInvHolds, PTL

\* Under the same changes, a block reported missing is missing from a version the path
\* has named, or the path named nothing at some point of the call.
THEOREM NotFoundIsTold == LiveSpec => []NotFoundIsTrue
<1>1. AnswerInv => NotFoundIsTrue
  BY PromisedIsPromise DEF AnswerInv, NotFoundIsTrue, NeverOverwritten
<1> QED BY <1>1, AnswerInvHolds, PTL

-----------------------------------------------------------------------------
(***************************************************************************)
(* A unit that is only grown.  Let u be the version of it before the call: *)
(* the block u has under the identifier is in every version, the walk does *)
(* not go past its element, and as far as that element every offset the    *)
(* walk checks against statLen lies in u, which is no longer than statLen. *)
(***************************************************************************)
Undisturbed ==
  /\ Only({"grow"})
  /\ wanted # NoIndex
  /\ \A v \in versions : v \in Files /\ WellFormed(v) /\ Holders(v, wanted) # {}

TakenFrom(u) ==
  \E a \in ElementOffsets(u, ChainOf(u)) : Holds(u, wanted, a) /\ found = Element(u, a)

GivenFrom(u) ==
  /\ result.kind = "slice"
  /\ \E a \in ElementOffsets(u, ChainOf(u)) :
       /\ Holds(u, wanted, a)
       /\ result.at = Element(u, a).position /\ result.length = Element(u, a).length

GrownFrom(u) ==
  /\ \A v \in versions : Extends(u, v)
  /\ pc # "stat" => FileLen(u) <= statLen
  /\ pc # "whole"
  /\ pc \in Walking => Passed(u)
  /\ pc = "block" => TakenFrom(u)
  /\ pc = "done" => GivenFrom(u)

GrowInv == Undisturbed => \E u \in versions \cap Files : GrownFrom(u)

LEMMA MoreRoom ==
  ASSUME NEW a \in Nat, NEW b \in Nat, a <= b
  PROVE  MaxElements(a) <= MaxElements(b)
BY DEF MaxElements, ElementLen

LEMMA HolderOf ==
  ASSUME NEW u \in Files, WellFormed(u), Holders(u, wanted) # {}
  PROVE  \E k \in 1 .. Len(ChainOf(u)) : \E j \in 0 .. NodeCount(u, ChainOf(u)[k].at) - 1 :
           /\ ElementAt(ChainOf(u)[k].at, j) \in ElementOffsets(u, ChainOf(u))
           /\ Holds(u, wanted, ElementAt(ChainOf(u)[k].at, j))
<1>1. PICK a \in ElementOffsets(u, ChainOf(u)) : Holds(u, wanted, a)
  BY DEF Holders, Holds
<1>2. PICK k \in 1 .. Len(ChainOf(u)) : \E j \in 0 .. NodeCount(u, ChainOf(u)[k].at) - 1 :
        a = ElementAt(ChainOf(u)[k].at, j)
  BY ChainElement
<1> QED BY <1>1, <1>2

\* Between two nodes the walk is still inside the node list of u.
LEMMA HolderAhead ==
  ASSUME LiveTypeOK, NEW u \in Files, WellFormed(u), Holders(u, wanted) # {}, Passed(u), pc = "node"
  PROVE  position # 0 /\ walked + 1 \in 1 .. Len(ChainOf(u)) /\ walked < MaxNodes
<1>1. walked \in Nat /\ Len(ChainOf(u)) \in Nat /\ Len(ChainOf(u)) < MaxNodes /\ MaxNodes \in Nat
  BY ChainShape, BoundAssumption DEF LiveTypeOK, LocalTypeOK
<1>2. PICK k \in 1 .. Len(ChainOf(u)) : \E j \in 0 .. NodeCount(u, ChainOf(u)[k].at) - 1 :
        Holds(u, wanted, ElementAt(ChainOf(u)[k].at, j))
  BY HolderOf
<1>3. ~(k <= walked)
  BY <1>1, <1>2 DEF Passed, Visited
<1>4. position # 0
  BY <1>1, <1>3 DEF Passed
<1> QED BY <1>1, <1>3, <1>4

\* So the node the walk comes to is accepted, although the file may be longer than statLen.
LEMMA NodeAccepted ==
  ASSUME LiveTypeOK, NEW f \in Files, f = held, OnChain(f), pc = "node",
         NEW u \in Files, Extends(u, f), Passed(u), Holders(u, wanted) # {},
         FileLen(u) <= statLen
  PROVE  NodeError = "none"
<1> DEFINE c == ChainOf(f)
           n == c[walked + 1]
<1>1. WellFormed(u) /\ WellFormed(f) /\ Len(ChainOf(u)) <= Len(c)
  BY GrownKeeps
<1>2. position # 0 /\ walked + 1 \in 1 .. Len(ChainOf(u)) /\ walked \in Nat
  BY <1>1, HolderAhead, BoundAssumption DEF LiveTypeOK, LocalTypeOK
<1>3. /\ walked + 1 \in 1 .. Len(c) /\ position = n.at /\ counted = n.before
  BY <1>1, <1>2, NextNode
<1>4. /\ n = ChainOf(u)[walked + 1]
      /\ NodeCount(f, position) = NodeCount(u, position)
  BY <1>2, <1>3, GrownKeeps
<1>5. /\ NodeInside(u, n) /\ NodeInside(f, n) /\ n.before \in Nat /\ n.at \in Nat
      /\ NodeCount(u, position) \in Nat
  BY <1>1, <1>2, <1>3, <1>4, ChainNode
<1>6. position \notin seen
  <2>1. seen = {c[k].at : k \in 1 .. walked}
    BY DEF OnChain
  <2>2. \A k \in 1 .. walked : k \in 1 .. Len(c) /\ k # walked + 1
    BY <1>2, <1>3, ChainShape, <1>1
  <2>3. \A j, k \in 1 .. Len(c) : c[j].at = c[k].at => j = k
    BY <1>1, ChainShape
  <2> QED BY <1>3, <2>1, <2>2, <2>3
<1>7. /\ FileLen(u) \in Nat /\ statLen \in Nat /\ FileLen(f) \in Nat
      /\ MaxElements(FileLen(u)) <= MaxElements(statLen)
      /\ MaxElements(FileLen(u)) \in Nat /\ MaxElements(statLen) \in Nat
      /\ FileLen(u) <= FileLen(f)
  BY FileAssumption, MoreRoom, MaxElementsType DEF LiveTypeOK, LocalTypeOK, Extends
<1>8. ElementAt(position, NodeCount(u, position)) \in Nat
  BY <1>3, <1>5 DEF ElementAt, NodeHeaderLen, ElementLen
<1>9. /\ position + NodeHeaderLen <= FileLen(u)
      /\ NodeReserved(f, position) = 0
      /\ ElementAt(position, NodeCount(u, position)) <= FileLen(u)
      /\ counted + NodeCount(u, position) <= MaxElements(FileLen(u))
  BY <1>3, <1>5 DEF NodeInside
<1>10. /\ ~(position + NodeHeaderLen > statLen)
       /\ ~(position + NodeHeaderLen > FileLen(f))
       /\ ~(ElementAt(position, NodeCount(f, position)) > statLen)
       /\ ~(counted + NodeCount(f, position) > MaxElements(statLen))
  <2>1. counted \in Nat /\ position \in Nat /\ NodeHeaderLen \in Nat
    BY <1>3, <1>5 DEF NodeHeaderLen
  <2>2. NodeCount(f, position) = NodeCount(u, position) /\ NodeCount(u, position) \in Nat
    BY <1>4, <1>5
  <2> HIDE DEF n
  <2> QED BY <1>7, <1>8, <1>9, <2>1, <2>2
<1> QED BY <1>6, <1>9, <1>10 DEF NodeError

\* Every element of the node entered can be read.
LEMMA ElementIsReadable ==
  ASSUME LiveTypeOK, NEW f \in Files, f = held, WellFormed(f), OnChain(f), pc = "element", i < node.count
  PROVE  ElementReadable
<1>1. /\ walked \in 1 .. Len(ChainOf(f)) /\ position = ChainOf(f)[walked].at
      /\ node.count = NodeCount(f, position)
  <2>1. walked \in Nat /\ Len(ChainOf(f)) \in Nat
    BY ChainShape, BoundAssumption DEF LiveTypeOK, LocalTypeOK
  <2> QED BY <2>1 DEF OnChain
<1>2. ElementAt(position, node.count) <= FileLen(f)
  BY <1>1, ChainNode DEF NodeInside
<1>3. i \in Nat /\ position \in Nat /\ node.count \in Nat /\ FileLen(f) \in Nat
  BY FileAssumption DEF LiveTypeOK, LocalTypeOK
<1> QED BY <1>2, <1>3 DEF ElementReadable, ElementAt, NodeHeaderLen, ElementLen

\* The element taken is the one u has, and its block lies in u.
LEMMA SameElementTaken ==
  ASSUME LiveTypeOK, NEW f \in Files, f = held, OnChain(f), TakeElement, wanted' = wanted,
         NEW u \in Files, Extends(u, f), Holders(u, wanted) # {}, FileLen(u) <= statLen
  PROVE  pc' = "block" /\ TakenFrom(u)'
<1>1. WellFormed(u) /\ WellFormed(f)
  BY GrownKeeps
<1>2. PICK b \in ElementOffsets(u, ChainOf(u)) : Holds(u, wanted, b)
  BY DEF Holders, Holds
<1>3. b \in ElementOffsets(f, ChainOf(f)) /\ Element(f, b) = Element(u, b)
  BY <1>2, GrownHolds
<1>4. /\ walked \in 1 .. Len(ChainOf(f)) /\ position = ChainOf(f)[walked].at
      /\ i \in 0 .. NodeCount(f, ChainOf(f)[walked].at) - 1
  <2>1. walked \in Nat /\ Len(ChainOf(f)) \in Nat /\ i \in Nat /\ node.count \in Nat
    BY <1>1, ChainShape, BoundAssumption DEF LiveTypeOK, LocalTypeOK
  <2> QED BY <2>1 DEF OnChain, TakeElement
<1>5. ElementAt(position, i) \in ElementOffsets(f, ChainOf(f))
  BY <1>4 DEF ElementOffsets
<1>6. ElementAt(position, i) = b
  <2>1. Element(f, ElementAt(position, i)).id = Element(f, b).id
    BY <1>2, <1>3 DEF TakeElement, Matches, HeldElement, Holds
  <2> QED BY <1>1, <1>3, <1>5, <2>1 DEF WellFormed, ElementsUnique
<1>7. HeldElement = Element(u, b)
  BY <1>3, <1>6 DEF HeldElement
<1>8. HeldElement.position + HeldElement.length \in Nat /\ statLen \in Nat
  <2>1. Element(u, b) \in [id : Nat, position : Nat, length : Nat]
    BY <1>1, ChainElement
  <2> QED BY <1>7, <2>1 DEF LiveTypeOK, LocalTypeOK
<1>9. HeldElement.position + HeldElement.length <= statLen
  <2>1. HeldElement.position + HeldElement.length <= FileLen(u)
    BY <1>1, <1>2, <1>7 DEF WellFormed, BlocksInside, Holds
  <2>2. FileLen(u) \in Nat
    BY FileAssumption
  <2> QED BY <1>8, <2>1, <2>2
<1>10. pc' = "block" /\ found' = Element(u, b)
  BY <1>7, <1>8, <1>9 DEF TakeElement, Finish
<1> QED BY <1>2, <1>10 DEF TakenFrom

LEMMA GrowInit == LiveInit => GrowInv
<1> SUFFICES ASSUME LiveInit, Undisturbed PROVE \E u \in versions \cap Files : GrownFrom(u)
  BY DEF GrowInv
<1>1. versions = {disk} /\ disk \in Files /\ WellFormed(disk) /\ pc = "stat"
  BY DEF LiveInit, LocalInit, Undisturbed
<1>2. Extends(disk, disk)
  BY <1>1, ExtendsItself
<1> QED BY <1>1, <1>2 DEF GrownFrom, Walking

LEMMA GrowReadStep ==
  ASSUME LiveTypeOK, HandleInv, FollowsInv, NEW u \in versions \cap Files, GrownFrom(u),
         Undisturbed, Read
  PROVE  GrownFrom(u)'
<1>1. LocalStep /\ UNCHANGED <<disk, wanted, versions, changes>>
  BY DEF Read, LocalNext
<1>2. /\ disk \in Files /\ WellFormed(disk) /\ Extends(u, disk) /\ disk # Missing
      /\ WellFormed(u) /\ Holders(u, wanted) # {} /\ wanted # NoIndex
  BY BoundAssumption DEF HandleInv, Undisturbed, GrownFrom
<1>3. FileLen(u) \in Nat /\ statLen \in Nat
  BY FileAssumption DEF LiveTypeOK, LocalTypeOK
<1>4. CASE pc \notin Reading
  <2>1. PreambleError(disk) = "none" /\ IsBlocksFile(disk)
    BY <1>2, FileAssumption DEF WellFormed, PreambleError, IsBlocksFile, PreambleLen
  <2>2. CASE Stat
    <3>1. pc' = "open" /\ FileLen(u) <= statLen'
      BY <1>2, <2>2, BoundAssumption DEF Stat, Finish, Extends
    <3> QED BY <1>1, <3>1 DEF GrownFrom, Walking
  <2>3. CASE OpenFile
    <3>1. pc' = "preamble" /\ statLen' = statLen /\ pc # "stat" /\ walked' = 0
      BY <1>2, <2>1, <2>3 DEF OpenFile, Finish, walkVars, HandleInv, LiveNotWalked
    <3>2. Passed(u)'
      <4>1. Len(ChainOf(u)) \in Nat
        BY <1>2, ChainShape
      <4> QED BY <3>1, <4>1 DEF Passed, Visited
    <3> QED BY <1>1, <3>1, <3>2 DEF GrownFrom
  <2>4. ~(OpenFails \/ ReadWhole)
    BY <1>2 DEF OpenFails, ReadWhole, GrownFrom
  <2> QED
    BY <1>1, <1>4, <2>2, <2>3, <2>4
       DEF LocalStep, Reading, ReadPreamble, WalkTooLong, EndOfIndex, RefuseNode, EnterNode,
           ElementUnreadable, SkipElement, TakeElement, ReadBlock, LeaveNode
<1>5. CASE pc \in Reading
  <2>1. held \in versions /\ held \in Files
    BY <1>5 DEF HandleInv, Opened, Reading
  <2> PICK f \in Files : f = held
    BY <2>1
  <2>2. Extends(u, f) /\ WellFormed(f) /\ FileLen(u) <= statLen
    BY <1>5, <2>1 DEF GrownFrom, Undisturbed, Reading
  <2>3. NeverOverwritten
    BY DEF Undisturbed, NeverOverwritten, Only
  <2>4. pc \in Walking => OnChain(f) /\ Passed(u)
    BY <1>5, <2>2, <2>3 DEF FollowsInv, GrownFrom
  <2>5. ~(WalkTooLong \/ EndOfIndex \/ RefuseNode \/ ElementUnreadable)
    <3>1. ~(WalkTooLong \/ EndOfIndex)
      BY <1>2, <2>4, HolderAhead, BoundAssumption DEF WalkTooLong, EndOfIndex, Walking
    <3>2. ~RefuseNode
      BY <1>2, <2>2, <2>4, NodeAccepted DEF RefuseNode, Walking
    <3>3. ~ElementUnreadable
      BY <2>2, <2>4, ElementIsReadable DEF ElementUnreadable, Walking
    <3> QED BY <3>1, <3>2, <3>3
  <2>6. CASE ReadPreamble \/ EnterNode \/ SkipElement \/ LeaveNode
    <3>1. pc \in Walking /\ pc' \in {"node", "element"} /\ statLen' = statLen
      <4>1. PreambleError(f) = "none"
        BY <2>2 DEF WellFormed
      <4> QED BY <2>6, <4>1 DEF ReadPreamble, EnterNode, SkipElement, LeaveNode, Walking, Finish
    <3>2. Passed(u)'
      BY <1>1, <2>2, <2>4, <3>1, PassedStep DEF Walking
    <3> QED BY <1>1, <2>2, <3>1, <3>2 DEF GrownFrom
  <2>7. CASE TakeElement
    <3>1. pc' = "block" /\ TakenFrom(u)'
      <4>1. pc \in Walking
        BY <2>7 DEF TakeElement, Walking
      <4> QED BY <1>1, <1>2, <2>2, <2>4, <2>7, <4>1, SameElementTaken
    <3>2. statLen' = statLen
      BY <2>7 DEF TakeElement
    <3> QED BY <1>1, <2>2, <3>1, <3>2 DEF GrownFrom, Walking
  <2>8. CASE ReadBlock
    <3>1. PICK a \in ElementOffsets(u, ChainOf(u)) : Holds(u, wanted, a) /\ found = Element(u, a)
      BY <2>8 DEF ReadBlock, GrownFrom, TakenFrom
    <3>2. found.position + found.length <= FileLen(u)
      BY <1>2, <3>1 DEF WellFormed, BlocksInside, Holds
    <3>3. found.position + found.length \in Nat /\ FileLen(f) \in Nat /\ FileLen(u) <= FileLen(f)
      <4>1. found.position \in Nat /\ found.length \in Nat
        BY DEF LiveTypeOK, LocalTypeOK
      <4>2. FileLen(u) <= FileLen(f)
        BY <2>2 DEF Extends
      <4>3. FileLen(f) \in Nat
        BY FileAssumption
      <4> QED BY <4>1, <4>2, <4>3
    <3>4. result' = Slice(f, found.position, found.length) /\ pc' = "done" /\ statLen' = statLen
      BY <1>3, <2>8, <3>2, <3>3 DEF ReadBlock, Finish
    <3>5. GivenFrom(u)'
      BY <1>1, <3>1, <3>4 DEF GivenFrom, Slice
    <3> QED BY <1>1, <2>2, <3>4, <3>5 DEF GrownFrom, Walking
  <2> QED
    BY <1>1, <1>5, <2>5, <2>6, <2>7, <2>8
       DEF LocalStep, Reading, Stat, OpenFile, OpenFails, ReadWhole
<1> QED BY <1>4, <1>5

LEMMA GrowStep ==
  ASSUME LiveTypeOK, HandleInv, FollowsInv, GrowInv, [LiveNext]_liveVars
  PROVE  GrowInv'
<1>1. CASE Read
  <2> SUFFICES ASSUME Undisturbed' PROVE (\E u \in versions \cap Files : GrownFrom(u))'
    BY DEF GrowInv
  <2>1. UNCHANGED <<wanted, versions, changes>>
    BY <1>1 DEF Read, LocalNext
  <2>2. Undisturbed
    BY <2>1 DEF Undisturbed, Only
  <2>3. PICK u \in versions \cap Files : GrownFrom(u)
    BY <2>2 DEF GrowInv
  <2>4. GrownFrom(u)'
    BY <1>1, <2>2, <2>3, GrowReadStep
  <2> QED BY <2>1, <2>4
<1>2. CASE Grow
  <2> SUFFICES ASSUME Undisturbed' PROVE (\E u \in versions \cap Files : GrownFrom(u))'
    BY DEF GrowInv
  <2>1. /\ disk' \in Files /\ Extends(disk, disk') /\ versions' = versions \cup {disk'}
        /\ UNCHANGED <<wanted, pc, statLen, walkVars, result>>
    BY <1>2, GrowthStep
  <2>2. Undisturbed
    <3>1. Only({"grow"})
      BY <1>2, OnlyBefore DEF Grow, Undisturbed
    <3> QED BY <2>1, <3>1 DEF Undisturbed
  <2>3. PICK u \in versions \cap Files : GrownFrom(u)
    BY <2>2 DEF GrowInv
  <2>4. Extends(u, disk) /\ disk \in Files
    BY <2>2, <2>3 DEF GrownFrom, HandleInv, Undisturbed
  <2>5. Extends(u, disk')
    BY <2>1, <2>4, ExtendsFurther
  <2>6. GrownFrom(u)'
    BY <2>1, <2>3, <2>5 DEF GrownFrom, Passed, Visited, TakenFrom, GivenFrom, walkVars
  <2> QED BY <2>1, <2>6
<1>3. CASE Replace \/ Overwrite
  <2>1. ~Only({"grow"})'
    BY <1>3, OnlyBefore DEF Replace, Overwrite
  <2> QED BY <2>1 DEF GrowInv, Undisturbed
<1>4. CASE Answered \/ UNCHANGED liveVars
  BY <1>4
     DEF Answered, liveVars, localVars, walkVars, worldVars, GrowInv, Undisturbed, Only, GrownFrom,
         Passed, Visited, TakenFrom, GivenFrom
<1> QED BY <1>1, <1>2, <1>3, <1>4 DEF LiveNext

\* A unit that is only grown during the call, and held the block before, gives it: the
\* answer is the block every version holds under the identifier.
THEOREM GrowthDisturbsNothing == LiveSpec => []GrowthUndisturbed
<1>1. LiveTypeOK /\ HandleInv /\ FollowsInv /\ GrowInv /\ [LiveNext]_liveVars => GrowInv'
  BY GrowStep
<1>2. HandleInv /\ GrowInv => GrowthUndisturbed
  <2> SUFFICES ASSUME HandleInv, GrowInv, pc = "done", Only({"grow"}),
                      \A v \in versions : v \in Files /\ WellFormed(v)
                                            /\ wanted # NoIndex /\ Promised!Holders(v, wanted) # {}
               PROVE  /\ result.kind = "slice"
                      /\ \A v \in versions : \E e \in Promised!Holders(v, wanted) :
                           result.at = e.position /\ result.length = e.length
    BY DEF GrowthUndisturbed
  <2>1. Undisturbed
    BY PromisedIsPromise DEF HandleInv, Undisturbed
  <2>2. PICK u \in versions \cap Files : GrownFrom(u)
    BY <2>1 DEF GrowInv
  <2>3. PICK a \in ElementOffsets(u, ChainOf(u)) :
          /\ Holds(u, wanted, a)
          /\ result.at = Element(u, a).position /\ result.length = Element(u, a).length
    BY <2>2 DEF GrownFrom, GivenFrom
  <2>4. ASSUME NEW v \in versions
        PROVE  \E e \in Promised!Holders(v, wanted) : result.at = e.position /\ result.length = e.length
    <3>1. v \in Files /\ Extends(u, v)
      BY <2>2 DEF GrownFrom
    <3>2. a \in ElementOffsets(v, ChainOf(v)) /\ Element(v, a) = Element(u, a) /\ Holds(v, wanted, a)
      BY <2>3, <3>1, GrownHolds
    <3>3. Element(v, a) \in Holders(v, wanted)
      BY <3>2 DEF Holders, Holds
    <3> QED BY <2>3, <3>2, <3>3, PromisedIsPromise
  <2>5. result.kind = "slice"
    BY <2>2 DEF GrownFrom, GivenFrom
  <2> QED BY <2>4, <2>5
<1> QED BY <1>1, <1>2, GrowInit, LiveTypeCorrect, LiveFollowsHolds, PTL DEF LiveSpec
=============================================================================
