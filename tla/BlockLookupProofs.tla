-------------------------- MODULE BlockLookupProofs ---------------------------
(***************************************************************************)
(* Proofs about the two walks of BlockLookup, for every set of files,      *)
(* every bound on the number of nodes and every identifier.                *)
(***************************************************************************)
EXTENDS BlockLookup, BlockPromise, SequenceTheorems, FiniteSetTheorems, TLAPS

(***************************************************************************)
(* Facts about the steps of the local walk (read_external_block and        *)
(* read_block_from) that hold whatever else goes on: none says that the    *)
(* file stays as it is, so LiveUnitProofs uses them too, for a file that   *)
(* changes between the steps.                                              *)
(***************************************************************************)

-----------------------------------------------------------------------------
(* What the bytes of a file yield where they may be read. *)

LEMMA NodeHeaderType ==
  ASSUME NEW f \in Files, NEW p \in Nat, p + NodeHeaderLen <= FileLen(f)
  PROVE  NodeCount(f, p) \in Nat /\ NodeNext(f, p) \in Nat
<1>1. U64(f, p) \in Nat /\ U64(f, p + 8) \in Nat
  BY FileAssumption DEF NodeHeaderLen
<1>2. U64(f, p) % Half \in Nat
  BY <1>1, BoundAssumption
<1> QED BY <1>1, <1>2 DEF NodeCount, NodeNext

LEMMA ElementType ==
  ASSUME NEW f \in Files, NEW a \in Nat, a + ElementLen <= FileLen(f)
  PROVE  Element(f, a) \in [id : Nat, position : Nat, length : Nat]
BY FileAssumption DEF Element, ElementLen

LEMMA PreambleErrorType ==
  ASSUME NEW f
  PROVE  PreambleError(f) \in Errors \cup {"none"}
BY DEF PreambleError, Errors

LEMMA SeqElement ==
  ASSUME NEW S, NEW s \in Seq(S), NEW k \in 1 .. Len(s)
  PROVE  s[k] \in S
OBVIOUS

LEMMA RefusedType ==
  ASSUME NEW e \in Errors
  PROVE  Refused(e) \in Answers
BY DEF Answers

LEMMA SliceType ==
  ASSUME NEW f \in Files, NEW a \in Nat, NEW n \in Nat
  PROVE  Slice(f, a, n) \in Answers
BY DEF Answers, Slice

LEMMA WholeType ==
  ASSUME NEW f \in Files
  PROVE  Whole(f) \in Answers
BY DEF Answers, Whole

LEMMA NodeErrorType == NodeError \in Errors \cup {"none"}
BY DEF NodeError, Errors

LEMMA MaxElementsType ==
  ASSUME NEW len \in Nat
  PROVE  MaxElements(len) \in Nat
BY DEF MaxElements, ElementLen

-----------------------------------------------------------------------------
(* Type correctness *)

LEMMA LocalTypeInit == RequestInit /\ LocalInit => LocalTypeOK /\ RequestTypeOK
BY BoundAssumption
   DEF RequestInit, LocalInit, LocalTypeOK, RequestTypeOK, Stages, Reading, Answers,
       PreambleLen

LEMMA LocalTypeStep ==
  ASSUME RequestTypeOK, LocalTypeOK, LocalStep
  PROVE  LocalTypeOK'
<1> USE DEF LocalTypeOK, Stages, Reading, RequestTypeOK
<1>1. CASE Stat
  BY <1>1, FileAssumption, RefusedType DEF Stat, walkVars, Finish, Errors
<1>2. CASE OpenFile \/ OpenFails
  BY <1>2, RefusedType DEF OpenFile, OpenFails, walkVars, Finish, Errors
<1>3. CASE ReadWhole
  BY <1>3, WholeType, RefusedType DEF ReadWhole, walkVars, Finish, Errors
<1>4. CASE ReadPreamble
  BY <1>4, RefusedType, PreambleErrorType DEF ReadPreamble, walkVars, Finish
<1>5. CASE WalkTooLong \/ EndOfIndex \/ ElementUnreadable
  BY <1>5, RefusedType
     DEF WalkTooLong, EndOfIndex, ElementUnreadable, walkVars, Finish, Errors
<1>6. CASE RefuseNode
  BY <1>6, RefusedType, NodeErrorType DEF RefuseNode, walkVars, Finish
<1>7. CASE EnterNode
  <2>1. NodeCount(held, position) \in Nat /\ NodeNext(held, position) \in Nat
    <3>1. position + NodeHeaderLen <= FileLen(held)
      BY <1>7, FileAssumption DEF EnterNode, NodeError, NodeHeaderLen
    <3> QED BY <1>7, <3>1, NodeHeaderType DEF EnterNode
  <2> QED BY <1>7, <2>1, BoundAssumption DEF EnterNode
<1>8. CASE SkipElement
  BY <1>8 DEF SkipElement
<1>9. CASE TakeElement
  <2>1. HeldElement \in [id : Nat, position : Nat, length : Nat]
    <3>1. ElementAt(position, i) \in Nat /\ ElementAt(position, i) + ElementLen <= FileLen(held)
      BY <1>9, FileAssumption DEF TakeElement, ElementReadable, ElementAt, NodeHeaderLen, ElementLen
    <3> QED BY <1>9, <3>1, ElementType DEF HeldElement, TakeElement
  <2>2. Refused("Truncated") \in Answers
    BY RefusedType DEF Errors
  <2> QED BY <1>9, <2>1, <2>2 DEF TakeElement, Finish
<1>10. CASE ReadBlock
  <2>1. Slice(held, found.position, found.length) \in Answers
    BY <1>10, SliceType DEF ReadBlock
  <2>2. Refused("Io") \in Answers
    BY RefusedType DEF Errors
  <2> QED BY <1>10, <2>1, <2>2 DEF ReadBlock, walkVars, Finish
<1>11. CASE LeaveNode
  BY <1>11 DEF LeaveNode
<1> QED
  BY <1>1, <1>2, <1>3, <1>4, <1>5, <1>6, <1>7, <1>8, <1>9, <1>10, <1>11 DEF LocalStep

-----------------------------------------------------------------------------
(***************************************************************************)
(* The walk is bounded by statLen, the length taken from the path before   *)
(* the file was opened.  Nothing has been counted before it is known.      *)
(***************************************************************************)
LocalBounds ==
  /\ pc = "stat" => counted = 0
  /\ counted <= MaxElements(statLen)
  /\ IsFiniteSet(seen) /\ Cardinality(seen) = walked
  /\ pc = "element" => ElementAt(position, node.count) <= statLen
  /\ pc = "block" => found.position + found.length <= statLen

LEMMA LocalBoundsInit == LocalInit => LocalBounds
<1>1. Cardinality({}) = 0 /\ IsFiniteSet({})
  BY FS_EmptySet
<1>2. 0 <= MaxElements(0)
  BY MaxElementsType
<1> QED BY <1>1, <1>2 DEF LocalInit, LocalBounds

\* Entering a node adds a position that was not among those seen.
LEMMA AddPosition ==
  ASSUME NEW S, NEW p, IsFiniteSet(S), p \notin S, NEW n \in Nat, Cardinality(S) = n
  PROVE  IsFiniteSet(S \cup {p}) /\ Cardinality(S \cup {p}) = n + 1
BY FS_AddElement

LEMMA LocalBoundsStep ==
  ASSUME LocalTypeOK, LocalBounds, LocalStep
  PROVE  LocalBounds'
<1> USE DEF LocalTypeOK, Reading, LocalBounds
<1>1. CASE Stat
  <2>1. disk \in Files => 0 <= MaxElements(FileLen(disk))
    BY FileAssumption, MaxElementsType
  <2> QED BY <1>1, <2>1 DEF Stat, walkVars, Finish
<1>2. CASE OpenFile \/ OpenFails
  BY <1>2 DEF OpenFile, OpenFails, walkVars, Finish
<1>3. CASE ReadWhole
  BY <1>3 DEF ReadWhole, walkVars, Finish
<1>4. CASE ReadPreamble
  BY <1>4 DEF ReadPreamble, walkVars, Finish
<1>5. CASE WalkTooLong \/ EndOfIndex \/ ElementUnreadable \/ RefuseNode
  BY <1>5 DEF WalkTooLong, EndOfIndex, ElementUnreadable, RefuseNode, walkVars, Finish
<1>6. CASE EnterNode
  <2>1. /\ position \notin seen
        /\ ElementAt(position, NodeCount(held, position)) <= statLen
        /\ counted + NodeCount(held, position) <= MaxElements(statLen)
    <3>1. position + NodeHeaderLen <= FileLen(held) /\ held \in Files /\ FileLen(held) \in Nat
      BY <1>6, FileAssumption DEF EnterNode, NodeError, NodeHeaderLen
    <3>2. NodeCount(held, position) \in Nat
      BY <1>6, <3>1, NodeHeaderType DEF EnterNode
    <3>3. MaxElements(statLen) \in Nat
      BY MaxElementsType
    <3>4. ElementAt(position, NodeCount(held, position)) \in Nat
      BY <3>2 DEF ElementAt, NodeHeaderLen, ElementLen
    <3> QED BY <1>6, <3>2, <3>3, <3>4 DEF EnterNode, NodeError
  <2>2. IsFiniteSet(seen') /\ Cardinality(seen') = walked'
    BY <1>6, <2>1, AddPosition, BoundAssumption DEF EnterNode
  <2> QED BY <1>6, <2>1, <2>2 DEF EnterNode
<1>7. CASE SkipElement
  BY <1>7 DEF SkipElement
<1>8. CASE TakeElement
  BY <1>8 DEF TakeElement, Finish
<1>9. CASE ReadBlock
  BY <1>9 DEF ReadBlock, walkVars, Finish
<1>10. CASE LeaveNode
  BY <1>10 DEF LeaveNode
<1> QED
  BY <1>1, <1>2, <1>3, <1>4, <1>5, <1>6, <1>7, <1>8, <1>9, <1>10 DEF LocalStep

-----------------------------------------------------------------------------
(***************************************************************************)
(* The library states induction over the naturals for an operator, which   *)
(* no prover here can instantiate.  The same is said of a set of           *)
(* counterexamples: if there is one, there is a least one.                 *)
(***************************************************************************)

\* A set of naturals that is not empty has a least element: the initial segments 0 .. m
\* are finite, and strict inclusion between finite sets is well founded.
LEMMA LeastNatural ==
  ASSUME NEW T, T \subseteq Nat, T # {}
  PROVE  \E m \in T : \A n \in T : m <= n
<1> DEFINE Segments == {0 .. m : m \in T}
           R == StrictSubsetOrdering(Nat)
<1>1. Segments \subseteq FiniteSubsetsOf(Nat) /\ Segments # {}
  <2>1. ASSUME NEW m \in T
        PROVE  0 .. m \in FiniteSubsetsOf(Nat)
    <3>1. IsFiniteSet(0 .. m)
      BY FS_Interval
    <3> QED BY <3>1 DEF FiniteSubsetsOf
  <2> QED BY <2>1
<1>2. IsWellFoundedOn(R, FiniteSubsetsOf(Nat))
  BY FS_StrictSubsetOrderingWellFounded
<1>3. PICK s \in Segments : \A t \in Segments : <<t, s>> \notin R
  <2> HIDE DEF Segments, R
  <2> QED BY <1>1, <1>2, WFMin, Zenon
<1>4. PICK m \in T : s = 0 .. m
  OBVIOUS
<1>5. ASSUME NEW n \in T
      PROVE  m <= n
  <2>1. SUFFICES ASSUME n < m PROVE FALSE
    OBVIOUS
  <2>2. 0 .. n \subseteq 0 .. m /\ 0 .. n # 0 .. m
    <3>1. m \in 0 .. m /\ m \notin 0 .. n
      BY <2>1
    <3> QED BY <2>1, <3>1
  <2>3. <<0 .. n, s>> \in R
    BY <1>4, <2>2 DEF StrictSubsetOrdering
  <2> QED BY <1>3, <2>3
<1> QED BY <1>5

-----------------------------------------------------------------------------
(***************************************************************************)
(* The trail of a walk over a file f: the nodes entered, in order.  It is  *)
(* determined by f, so two walks over one file can only differ in how far  *)
(* they have come.                                                         *)
(***************************************************************************)
Nodes == [at : Nat, before : Nat]

\* The node that comes after the first k of c.
After(f, c, k) ==
  IF k = 0 THEN [at |-> PreambleLen, before |-> 0]
  ELSE [at |-> NodeNext(f, c[k].at), before |-> c[k].before + NodeCount(f, c[k].at)]

Trail(f, c) ==
  /\ c \in Seq(Nodes)
  /\ \A k \in 1 .. Len(c) : c[k] = After(f, c, k - 1) /\ NodeInside(f, c[k])
  /\ \A j, k \in 1 .. Len(c) : c[j].at = c[k].at => j = k

\* A walk that met the end of the list.
Complete(f, c) ==
  /\ Trail(f, c)
  /\ After(f, c, Len(c)).at = 0
  /\ Len(c) < MaxNodes

\* A walk that has to be refused: too long, or with a next node that is repeated or not inside.
Stuck(f, c) ==
  /\ Trail(f, c)
  /\ \/ Len(c) = MaxNodes
     \/ /\ After(f, c, Len(c)).at # 0
        /\ \/ ~NodeInside(f, After(f, c, Len(c)))
           \/ \E k \in 1 .. Len(c) : c[k].at = After(f, c, Len(c)).at

\* The numbers read out of a node of a trail.
LEMMA TrailNode ==
  ASSUME NEW f \in Files, NEW c, Trail(f, c), NEW k \in 1 .. Len(c)
  PROVE  /\ c[k] \in Nodes /\ c[k].at \in Nat /\ c[k].before \in Nat
         /\ NodeCount(f, c[k].at) \in Nat /\ NodeNext(f, c[k].at) \in Nat
         /\ After(f, c, k) \in Nodes
         /\ ElementAt(c[k].at, NodeCount(f, c[k].at)) <= FileLen(f)
<1>1. c[k] \in Nodes
  BY SeqElement DEF Trail
<1>2. c[k].at \in Nat /\ c[k].before \in Nat
  BY <1>1 DEF Nodes
<1>3. NodeInside(f, c[k])
  BY DEF Trail
<1>4. NodeCount(f, c[k].at) \in Nat /\ NodeNext(f, c[k].at) \in Nat
  BY <1>2, <1>3, NodeHeaderType DEF NodeInside
<1>5. After(f, c, k) \in Nodes
  BY <1>2, <1>4 DEF After, Nodes
<1> QED BY <1>1, <1>2, <1>3, <1>4, <1>5 DEF NodeInside

\* What comes after a trail is a node header position with a count of elements before it.
LEMMA AfterType ==
  ASSUME NEW f \in Files, NEW c, Trail(f, c)
  PROVE  After(f, c, Len(c)) \in Nodes
<1>1. Len(c) \in Nat
  BY DEF Trail
<1>2. CASE Len(c) = 0
  BY <1>2 DEF After, Nodes, PreambleLen
<1>3. CASE Len(c) # 0
  <2>1. Len(c) \in 1 .. Len(c)
    BY <1>1, <1>3
  <2> QED BY <2>1, TrailNode
<1> QED BY <1>2, <1>3

\* A walk that enters an acceptable node makes its trail one longer.
LEMMA TrailExtended ==
  ASSUME NEW f \in Files, NEW c, Trail(f, c),
         NEW n, n = After(f, c, Len(c)), NodeInside(f, n),
         \A k \in 1 .. Len(c) : c[k].at # n.at
  PROVE  /\ Trail(f, Append(c, n))
         /\ Len(Append(c, n)) = Len(c) + 1
         /\ Append(c, n)[Len(c) + 1] = n
         /\ \A k \in 1 .. Len(c) : Append(c, n)[k] = c[k]
<1> DEFINE d == Append(c, n)
<1>1. c \in Seq(Nodes) /\ n \in Nodes
  BY AfterType DEF Trail
<1>2. /\ d \in Seq(Nodes) /\ Len(d) = Len(c) + 1 /\ d[Len(c) + 1] = n
      /\ \A k \in 1 .. Len(c) : d[k] = c[k]
      /\ Len(c) \in Nat
  BY <1>1
<1> HIDE DEF d
<1>3. ASSUME NEW k \in 1 .. Len(d)
      PROVE  d[k] = After(f, d, k - 1) /\ NodeInside(f, d[k])
  <2>1. After(f, d, k - 1) = After(f, c, k - 1)
    BY <1>2 DEF After
  <2>2. CASE k = Len(c) + 1
    BY <1>2, <2>1, <2>2
  <2>3. CASE k \in 1 .. Len(c)
    BY <1>2, <2>1, <2>3 DEF Trail
  <2> QED BY <1>2, <2>2, <2>3
<1>4. ASSUME NEW j \in 1 .. Len(d), NEW k \in 1 .. Len(d), d[j].at = d[k].at
      PROVE  j = k
  BY <1>2, <1>4 DEF Trail
<1>5. Trail(f, d)
  BY <1>2, <1>3, <1>4 DEF Trail
<1> QED BY <1>2, <1>5 DEF d

\* Two walks over one file go through the same nodes as far as both have come.
LEMMA TrailsAgree ==
  ASSUME NEW f, NEW c, NEW d, Trail(f, c), Trail(f, d)
  PROVE  \A k \in 1 .. Len(c) : k <= Len(d) => c[k] = d[k]
<1> DEFINE T == {k \in 1 .. Len(c) : k <= Len(d) /\ c[k] # d[k]}
<1>1. SUFFICES ASSUME T # {} PROVE FALSE
  OBVIOUS
<1>2. Len(c) \in Nat /\ Len(d) \in Nat /\ T \subseteq Nat
  BY DEF Trail
<1>3. PICK k \in T : \A n \in T : k <= n
  <2> HIDE DEF T
  <2> QED BY <1>1, <1>2, LeastNatural
<1>4. k \in 1 .. Len(c) /\ k \in 1 .. Len(d) /\ c[k] # d[k]
  BY <1>2
<1>5. k # 1 => c[k - 1] = d[k - 1]
  <2>1. k - 1 \notin T
    BY <1>2, <1>3
  <2> QED BY <1>2, <1>4, <2>1
<1>6. After(f, c, k - 1) = After(f, d, k - 1)
  BY <1>2, <1>4, <1>5 DEF After
<1> QED BY <1>4, <1>6 DEF Trail

\* A trail counts: the elements of a node come before those of every later node.
LEMMA ElementsInOrder ==
  ASSUME NEW f \in Files, NEW c, Trail(f, c), NEW h \in 1 .. Len(c), NEW k \in 1 .. Len(c), h < k
  PROVE  c[h].before + NodeCount(f, c[h].at) <= c[k].before
<1> DEFINE end == c[h].before + NodeCount(f, c[h].at)
           T == {m \in 1 .. Len(c) : h < m /\ ~(end <= c[m].before)}
<1>1. SUFFICES ASSUME T # {} PROVE FALSE
  OBVIOUS
<1>2. Len(c) \in Nat /\ T \subseteq Nat
  BY DEF Trail
<1>3. PICK m \in T : \A n \in T : m <= n
  <2> HIDE DEF T
  <2> QED BY <1>1, <1>2, LeastNatural
<1>4. m \in 1 .. Len(c) /\ m - 1 \in 1 .. Len(c) /\ h < m
  BY <1>2
<1>5. /\ end \in Nat
      /\ c[m - 1].before \in Nat /\ NodeCount(f, c[m - 1].at) \in Nat
      /\ c[m].before = c[m - 1].before + NodeCount(f, c[m - 1].at)
  <2>1. c[m].before = After(f, c, m - 1).before
    BY <1>4 DEF Trail
  <2>2. c[m].before = c[m - 1].before + NodeCount(f, c[m - 1].at)
    BY <1>4, <2>1 DEF After
  <2>3. c[h].before \in Nat /\ NodeCount(f, c[h].at) \in Nat
    BY TrailNode
  <2>4. c[m - 1].before \in Nat /\ NodeCount(f, c[m - 1].at) \in Nat
    BY <1>4, TrailNode
  <2> QED BY <2>2, <2>3, <2>4
<1> HIDE DEF end
<1>6. CASE h = m - 1
  BY <1>5, <1>6 DEF end
<1>7. CASE h < m - 1
  <2>1. end <= c[m - 1].before
    BY <1>3, <1>4, <1>7
  <2> QED BY <1>4, <1>5, <2>1
<1> QED BY <1>4, <1>6, <1>7

\* No walk goes further than one that met the end of the list.
LEMMA CompleteIsLongest ==
  ASSUME NEW f \in Files, NEW c, NEW d, Trail(f, c), Complete(f, d)
  PROVE  Len(c) <= Len(d)
<1> SUFFICES ASSUME Len(d) < Len(c) PROVE FALSE
  BY DEF Complete, Trail
<1>1. Trail(f, d) /\ Len(d) \in Nat /\ Len(c) \in Nat
  BY DEF Complete, Trail
<1>2. Len(d) + 1 \in 1 .. Len(c)
  BY <1>1
<1>3. c[Len(d) + 1] = After(f, c, Len(d))
  BY <1>1, <1>2 DEF Trail
<1>4. After(f, c, Len(d)) = After(f, d, Len(d))
  <2>1. Len(d) # 0 => c[Len(d)] = d[Len(d)]
    BY <1>1, TrailsAgree
  <2> QED BY <2>1 DEF After
<1> QED BY <1>2, <1>3, <1>4 DEF Trail, NodeInside, Complete

\* A file over which one walk has to be refused is refused by every walk.
LEMMA StuckIsNotComplete ==
  ASSUME NEW f \in Files, NEW c, NEW d, Stuck(f, c), Complete(f, d)
  PROVE  FALSE
<1>1. /\ Trail(f, c) /\ Trail(f, d)
      /\ Len(c) \in Nat /\ Len(d) \in Nat /\ Len(d) < MaxNodes
  BY DEF Stuck, Complete, Trail
<1>2. Len(c) <= Len(d)
  BY <1>1, CompleteIsLongest
<1>3. After(f, c, Len(c)) = After(f, d, Len(c))
  <2>1. Len(c) # 0 => c[Len(c)] = d[Len(c)]
    BY <1>1, <1>2, TrailsAgree
  <2> QED BY <2>1 DEF After
<1>4. CASE Len(c) = Len(d)
  BY <1>1, <1>3, <1>4, BoundAssumption DEF Stuck, Complete
<1>5. CASE Len(c) < Len(d)
  <2>1. Len(c) + 1 \in 1 .. Len(d)
    BY <1>1, <1>5
  <2>2. d[Len(c) + 1] = After(f, c, Len(c)) /\ NodeInside(f, d[Len(c) + 1])
    BY <1>1, <1>3, <2>1 DEF Trail
  <2>3. ASSUME NEW k \in 1 .. Len(c)
        PROVE  c[k].at # d[Len(c) + 1].at
    <3>1. k \in 1 .. Len(d) /\ c[k] = d[k] /\ k # Len(c) + 1
      BY <1>1, <1>2, TrailsAgree
    <3> QED BY <1>1, <2>1, <3>1 DEF Trail
  <2> QED BY <1>1, <1>5, <2>2, <2>3, BoundAssumption DEF Stuck
<1> QED BY <1>1, <1>2, <1>4, <1>5

\* The node list of a well-formed file is the trail of a walk that met its end.
LEMMA ChainIsComplete ==
  ASSUME NEW f \in Files, NEW c, IsChain(f, c)
  PROVE  Complete(f, c)
<1>1. c \in Seq(Nodes) /\ Len(c) \in 1 .. MaxNodes - 1
  BY DEF IsChain, Nodes
<1>2. ASSUME NEW k \in 1 .. Len(c)
      PROVE  c[k] = After(f, c, k - 1) /\ NodeInside(f, c[k])
  <2>1. c[k] \in Nodes
    BY <1>1, SeqElement
  <2>2. CASE k = 1
    BY <2>2 DEF After, IsChain
  <2>3. CASE k # 1
    <3>1. k - 1 \in 1 .. Len(c) /\ k - 1 # Len(c)
      BY <1>1, <2>3
    <3>2. Linked(f, c, k - 1)
      BY <3>1 DEF IsChain
    <3>3. /\ c[k].at = NodeNext(f, c[k - 1].at)
          /\ c[k].before = c[k - 1].before + NodeCount(f, c[k - 1].at)
      BY <1>1, <3>1, <3>2 DEF Linked
    <3>4. c[k] = [at |-> c[k].at, before |-> c[k].before]
      BY <2>1 DEF Nodes
    <3> QED BY <2>3, <3>3, <3>4 DEF After, IsChain
  <2> QED BY <2>2, <2>3 DEF IsChain
<1>3. Trail(f, c)
  BY <1>1, <1>2 DEF Trail, IsChain
<1>4. After(f, c, Len(c)).at = 0
  BY <1>1 DEF IsChain, Linked, After
<1> QED BY <1>1, <1>3, <1>4, BoundAssumption DEF Complete

-----------------------------------------------------------------------------
\* An occupied element with identifier n lies at byte a.
Holds(f, n, a) == Element(f, a).id = n /\ ~IsFree(Element(f, a))

\* The element (k, j) of a trail can be read, and its fields are numbers.
LEMMA TrailElement ==
  ASSUME NEW f \in Files, NEW c, Trail(f, c), NEW k \in 1 .. Len(c),
         NEW j \in 0 .. NodeCount(f, c[k].at) - 1
  PROVE  /\ ElementAt(c[k].at, j) \in 0 .. FileLen(f)
         /\ ElementAt(c[k].at, j) + ElementLen <= FileLen(f)
         /\ Element(f, ElementAt(c[k].at, j)) \in [id : Nat, position : Nat, length : Nat]
<1>1. /\ c[k].at \in Nat /\ NodeCount(f, c[k].at) \in Nat
      /\ ElementAt(c[k].at, NodeCount(f, c[k].at)) <= FileLen(f)
  BY TrailNode
<1>2. FileLen(f) \in Nat
  BY FileAssumption
<1>3. /\ ElementAt(c[k].at, j) \in Nat
      /\ ElementAt(c[k].at, j) + ElementLen <= FileLen(f)
  <2> DEFINE p == c[k].at
             count == NodeCount(f, p)
  <2>1. p \in Nat /\ count \in Nat /\ j \in 0 .. count - 1 /\ ElementAt(p, count) <= FileLen(f)
    BY <1>1
  <2> HIDE DEF p, count
  <2>2. ElementAt(p, j) \in Nat /\ ElementAt(p, j) + ElementLen <= FileLen(f)
    BY <1>2, <2>1 DEF ElementAt, NodeHeaderLen, ElementLen
  <2> QED BY <2>2 DEF p
<1>4. ElementAt(c[k].at, j) \in 0 .. FileLen(f)
  BY <1>2, <1>3 DEF ElementLen
<1> QED BY <1>3, <1>4, ElementType

(***************************************************************************)
(* The two walks of a file that stays as it is.                            *)
(***************************************************************************)

-----------------------------------------------------------------------------
(* What a parsed node adds. *)

LEMMA ParseErrorType == ParseError \in Errors \cup {"none"}
BY DEF ParseError, Errors

\* The elements of one node, read to the end of the node.
Parsed(f, p) == [k \in 1 .. NodeCount(f, p) |-> Element(f, ElementAt(p, k - 1))]

LEMMA ParsedType ==
  ASSUME NEW f \in Files, NEW p \in Nat, NodeCount(f, p) \in Nat,
         ElementAt(p, NodeCount(f, p)) <= FileLen(f)
  PROVE  /\ Parsed(f, p) \in Seq([id : Nat, position : Nat, length : Nat])
         /\ Len(Parsed(f, p)) = NodeCount(f, p)
<1> DEFINE count == NodeCount(f, p)
           Elems == [id : Nat, position : Nat, length : Nat]
<1>1. ASSUME NEW k \in 1 .. count
      PROVE  Element(f, ElementAt(p, k - 1)) \in Elems
  BY ElementType, FileAssumption DEF ElementAt, NodeHeaderLen, ElementLen
<1>2. Parsed(f, p) \in [1 .. count -> Elems]
  BY <1>1 DEF Parsed
<1>3. count \in Nat
  OBVIOUS
<1> HIDE DEF count, Elems
<1>4. Parsed(f, p) \in Seq(Elems) /\ Len(Parsed(f, p)) = count
  BY <1>2, <1>3
<1> QED BY <1>4 DEF count, Elems

LEMMA ConcatType ==
  ASSUME NEW S, NEW s \in Seq(S), NEW t \in Seq(S)
  PROVE  s \o t \in Seq(S) /\ Len(s \o t) = Len(s) + Len(t)
OBVIOUS

-----------------------------------------------------------------------------
(* Type correctness *)

LEMMA RemoteTypeInit == Init => RemoteTypeOK
BY BoundAssumption
   DEF Init, RequestInit, RemoteInit, RemoteTypeOK, Answers, PreambleLen

LEMMA RemoteTypeStep ==
  ASSUME RequestTypeOK, RemoteTypeOK, RemoteStep
  PROVE  RemoteTypeOK'
<1> USE DEF RemoteTypeOK, RequestTypeOK
<1>1. CASE Fetch
  BY <1>1, RefusedType DEF Fetch, Conclude, Errors
<1>2. CASE Extract
  BY <1>2, RefusedType, WholeType, PreambleErrorType DEF Extract, Conclude, Errors
<1>3. CASE ParseTooLong
  BY <1>3, RefusedType DEF ParseTooLong, Conclude, Errors
<1>4. CASE ParseRefused
  BY <1>4, RefusedType, ParseErrorType DEF ParseRefused, Conclude
<1>5. CASE ParseNode
  <2>1. at + NodeHeaderLen <= FileLen(bytes)
    BY <1>5, FileAssumption DEF ParseNode, ParseError, NodeHeaderLen
  <2>2. NodeCount(bytes, at) \in Nat /\ NodeNext(bytes, at) \in Nat
    BY <1>5, <2>1, NodeHeaderType DEF ParseNode
  <2>3. ElementAt(at, NodeCount(bytes, at)) <= FileLen(bytes)
    BY <1>5, <2>2, FileAssumption DEF ParseNode, ParseError, ElementAt, NodeHeaderLen, ElementLen
  <2>4. elements' = elements \o Parsed(bytes, at)
    BY <1>5 DEF ParseNode, Parsed
  <2>5. elements' \in Seq([id : Nat, position : Nat, length : Nat])
    BY <1>5, <2>2, <2>3, <2>4, ParsedType, ConcatType DEF ParseNode
  <2> QED BY <1>5, <2>2, <2>5, BoundAssumption DEF ParseNode
<1>6. CASE ParsedAll
  BY <1>6 DEF ParsedAll
<1>7. CASE TakeNamed
  <2>1. ASSUME NEW k \in 1 .. Len(elements)
        PROVE  Taken(elements[k]) \in Answers
    <3>0. elements[k] \in [id : Nat, position : Nat, length : Nat]
      <4>1. elements \in Seq([id : Nat, position : Nat, length : Nat])
        OBVIOUS
      <4> QED BY <4>1, SeqElement
    <3>1. elements[k].position \in Nat /\ elements[k].length \in Nat
      BY <3>0
    <3>2. Slice(bytes, elements[k].position, elements[k].length) \in Answers
      BY <1>7, <3>1, SliceType DEF TakeNamed
    <3>3. Refused("NotFound") \in Answers /\ Refused("Truncated") \in Answers
      BY RefusedType DEF Errors
    <3> QED BY <3>2, <3>3 DEF Taken
  <2> QED BY <1>7, <2>1, RefusedType DEF TakeNamed, Conclude, Errors
<1> QED
  BY <1>1, <1>2, <1>3, <1>4, <1>5, <1>6, <1>7 DEF RemoteStep

\* Every variable of both walks keeps its type, on every file.
THEOREM TypeCorrect == Spec => []TypeOK
<1>1. Init => TypeOK
  BY LocalTypeInit, RemoteTypeInit DEF TypeOK, Init
<1>2. TypeOK /\ [Next]_vars => TypeOK'
  <2> SUFFICES ASSUME TypeOK, [Next]_vars PROVE TypeOK'
    OBVIOUS
  <2> USE DEF TypeOK
  <2>1. CASE ReadLocal
    BY <2>1, LocalTypeStep DEF ReadLocal, LocalNext, remoteVars, RequestTypeOK, RemoteTypeOK
  <2>2. CASE ReadRemote
    BY <2>2, RemoteTypeStep
       DEF ReadRemote, RemoteNext, localVars, walkVars, RequestTypeOK, LocalTypeOK, Reading
  <2>3. CASE BothDone \/ UNCHANGED vars
    BY <2>3
       DEF BothDone, vars, localVars, walkVars, remoteVars, RequestTypeOK, LocalTypeOK, Reading,
           RemoteTypeOK
  <2> QED BY <2>1, <2>2, <2>3 DEF Next
<1> QED BY <1>1, <1>2, PTL DEF Spec

-----------------------------------------------------------------------------
(***************************************************************************)
(* The two safety invariants need more than themselves.  The local walk is *)
(* bounded by a length taken from the path before the file was opened, so  *)
(* what ties it to the open file is that both are what the path names, and *)
(* that nothing has been counted before the length is known; the remote    *)
(* walk needs the same of the bytes it fetched.                            *)
(***************************************************************************)
Unchanged ==
  /\ pc = "open" => disk \in Files /\ statLen = FileLen(disk)
  /\ pc \in Reading => held = disk /\ statLen = FileLen(held)

RemoteInv ==
  /\ stage \in {"fetch", "extract"} => visited = {} /\ elements = <<>>
  /\ elements # <<>> => Len(elements) <= MaxElements(FileLen(bytes))
  /\ IsFiniteSet(visited) /\ Cardinality(visited) = rounds
  /\ \A p \in visited : ElementAt(p, NodeCount(bytes, p)) <= FileLen(bytes)

WalkInv == LocalBounds /\ Unchanged /\ RemoteInv

LEMMA WalkInvInit == Init => WalkInv
<1> SUFFICES ASSUME Init PROVE WalkInv
  OBVIOUS
<1>1. Cardinality({}) = 0 /\ IsFiniteSet({})
  BY FS_EmptySet
<1>2. LocalBounds
  BY LocalBoundsInit DEF Init
<1> QED
  BY <1>1, <1>2
     DEF Init, LocalInit, RemoteInit, WalkInv, Unchanged, RemoteInv, Reading

LEMMA UnchangedStep ==
  ASSUME RequestTypeOK, LocalTypeOK, Unchanged, LocalNext
  PROVE  Unchanged'
<1> USE DEF Unchanged, Reading, LocalTypeOK, LocalNext, Finish
<1>1. CASE Stat \/ OpenFile \/ OpenFails \/ ReadWhole
  BY <1>1 DEF Stat, OpenFile, OpenFails, ReadWhole
<1>2. CASE ReadPreamble \/ WalkTooLong \/ EndOfIndex \/ RefuseNode \/ EnterNode
  BY <1>2 DEF ReadPreamble, WalkTooLong, EndOfIndex, RefuseNode, EnterNode
<1>3. CASE ElementUnreadable \/ SkipElement \/ TakeElement \/ ReadBlock \/ LeaveNode
  BY <1>3 DEF ElementUnreadable, SkipElement, TakeElement, ReadBlock, LeaveNode
<1> QED BY <1>1, <1>2, <1>3 DEF LocalStep

LEMMA RemoteInvStep ==
  ASSUME RequestTypeOK, RemoteTypeOK, RemoteInv, RemoteStep
  PROVE  RemoteInv'
<1> USE DEF RemoteTypeOK, RemoteInv
<1>1. CASE Fetch
  BY <1>1 DEF Fetch, Conclude
<1>2. CASE Extract
  BY <1>2 DEF Extract, Conclude
<1>3. CASE ParseTooLong \/ ParseRefused
  BY <1>3 DEF ParseTooLong, ParseRefused, Conclude
<1>4. CASE ParseNode
  <2> DEFINE count == NodeCount(bytes, at)
  <2>1. at + NodeHeaderLen <= FileLen(bytes) /\ bytes \in Files /\ FileLen(bytes) \in Nat
    BY <1>4, FileAssumption DEF ParseNode, ParseError, NodeHeaderLen
  <2>2. count \in Nat
    BY <1>4, <2>1, NodeHeaderType DEF ParseNode
  <2>3. /\ at \notin visited
        /\ ElementAt(at, count) <= FileLen(bytes)
        /\ Len(elements) + count <= MaxElements(FileLen(bytes))
    <3>1. MaxElements(FileLen(bytes)) \in Nat /\ Len(elements) \in Nat
      BY <2>1, MaxElementsType
    <3>2. ElementAt(at, count) \in Nat
      BY <2>2 DEF ElementAt, NodeHeaderLen, ElementLen
    <3> QED BY <1>4, <2>1, <2>2, <3>1, <3>2 DEF ParseNode, ParseError
  <2>4. IsFiniteSet(visited') /\ Cardinality(visited') = rounds'
    <3>1. visited' = visited \cup {at} /\ rounds' = rounds + 1 /\ rounds \in Nat
      BY <1>4, BoundAssumption DEF ParseNode
    <3>2. IsFiniteSet(visited \cup {at}) /\ Cardinality(visited \cup {at}) = rounds + 1
      BY <2>3, <3>1, AddPosition
    <3> QED BY <3>1, <3>2
  <2>5. Len(elements') = Len(elements) + count
    <3>1. elements' = elements \o Parsed(bytes, at)
      BY <1>4 DEF ParseNode, Parsed
    <3>2. /\ Parsed(bytes, at) \in Seq([id : Nat, position : Nat, length : Nat])
          /\ Len(Parsed(bytes, at)) = count
      BY <1>4, <2>1, <2>2, <2>3, ParsedType DEF ParseNode
    <3>3. elements \in Seq([id : Nat, position : Nat, length : Nat])
      OBVIOUS
    <3>4. Len(elements \o Parsed(bytes, at)) = Len(elements) + Len(Parsed(bytes, at))
      BY <3>2, <3>3, ConcatType, Zenon
    <3> QED BY <3>1, <3>2, <3>4
  <2> QED BY <1>4, <2>3, <2>4, <2>5 DEF ParseNode
<1>5. CASE ParsedAll
  BY <1>5 DEF ParsedAll
<1>6. CASE TakeNamed
  BY <1>6 DEF TakeNamed, Conclude
<1> QED
  BY <1>1, <1>2, <1>3, <1>4, <1>5, <1>6 DEF RemoteStep

LEMMA WalkInvStep ==
  ASSUME TypeOK, WalkInv, [Next]_vars
  PROVE  WalkInv'
<1> USE DEF TypeOK, WalkInv
<1>1. CASE ReadLocal
  BY <1>1, LocalBoundsStep, UnchangedStep DEF ReadLocal, LocalNext, remoteVars, RemoteInv
<1>2. CASE ReadRemote
  BY <1>2, RemoteInvStep
     DEF ReadRemote, RemoteNext, localVars, walkVars, LocalBounds, Unchanged
<1>3. CASE BothDone \/ UNCHANGED vars
  BY <1>3
     DEF BothDone, vars, localVars, walkVars, remoteVars, LocalBounds, Unchanged, RemoteInv
<1> QED BY <1>1, <1>2, <1>3 DEF Next

LEMMA WalkInvHolds == Spec => []WalkInv
<1>1. TypeOK /\ WalkInv /\ [Next]_vars => WalkInv'
  BY WalkInvStep
<1> QED BY <1>1, WalkInvInit, TypeCorrect, PTL DEF Spec

\* However its nodes overlap, loop or lie, the index of a file never makes either walk
\* account for more elements than the file has room for, enter a node twice or go round
\* more than MAX_NODES times.
THEOREM WalksAreBounded == Spec => []WalkBounded
<1>1. WalkInv => WalkBounded
  BY DEF WalkInv, LocalBounds, RemoteInv, WalkBounded
<1> QED BY <1>1, WalkInvHolds, PTL

\* No node is entered whose elements are not all inside the file.
THEOREM NodesAreInside == Spec => []NodesInside
<1>1. WalkInv => NodesInside
  BY DEF WalkInv, LocalBounds, Unchanged, RemoteInv, NodesInside, Reading
<1> QED BY <1>1, WalkInvHolds, PTL

-----------------------------------------------------------------------------
(***************************************************************************)
(* What each reader's walk has established when it answers, said of the    *)
(* file alone: the element (k, j) is the j-th of the k-th node entered.    *)
(***************************************************************************)
Earlier(h, g, k, j) == h < k \/ (h = k /\ g < j)

\* No element that precedes (k, j) on the trail is an occupied one with identifier n.
Clean(f, n, c, k, j) ==
  \A h \in 1 .. Len(c) : \A g \in 0 .. NodeCount(f, c[h].at) - 1 :
    Earlier(h, g, k, j) => ~Holds(f, n, ElementAt(c[h].at, g))

\* No element that precedes (k, j) has identifier n, occupied or not.
Unnamed(f, n, c, k, j) ==
  \A h \in 1 .. Len(c) : \A g \in 0 .. NodeCount(f, c[h].at) - 1 :
    Earlier(h, g, k, j) => Element(f, ElementAt(c[h].at, g)).id # n

BlockBytes(f, e) ==
  IF e.position + e.length <= FileLen(f) THEN Slice(f, e.position, e.length)
  ELSE Refused("Truncated")

\* The local reader stops at the first occupied element with the identifier.
LocalOutcome(f, n, c, r) ==
  \/ /\ Trail(f, c)
     /\ \E k \in 1 .. Len(c) : \E j \in 0 .. NodeCount(f, c[k].at) - 1 :
          /\ Holds(f, n, ElementAt(c[k].at, j))
          /\ Clean(f, n, c, k, j)
          /\ r = BlockBytes(f, Element(f, ElementAt(c[k].at, j)))
  \/ /\ Complete(f, c)
     /\ Clean(f, n, c, Len(c) + 1, 0)
     /\ r = Refused("NotFound")
  \/ /\ Stuck(f, c)
     /\ r \in {Refused(e) : e \in Errors}

\* The remote reader walks the whole list, then takes the first element with the identifier.
RemoteOutcome(f, n, d, r) ==
  \/ /\ Complete(f, d)
     /\ \E k \in 1 .. Len(d) : \E j \in 0 .. NodeCount(f, d[k].at) - 1 :
          LET e == Element(f, ElementAt(d[k].at, j))
          IN  /\ e.id = n
              /\ Unnamed(f, n, d, k, j)
              /\ r = IF IsFree(e) THEN Refused("NotFound") ELSE BlockBytes(f, e)
  \/ /\ Complete(f, d)
     /\ Unnamed(f, n, d, Len(d) + 1, 0)
     /\ r = Refused("NotFound")
  \/ /\ Stuck(f, d)
     /\ r \in {Refused(e) : e \in Errors}

LEMMA SliceIsNotRefused ==
  ASSUME NEW f, NEW a, NEW n, NEW e
  PROVE  Slice(f, a, n).kind = "slice" /\ Refused(e).kind = "refused"
BY DEF Slice, Refused

\* Of two walks over one file, what the remote one returns as a block is what the local
\* one returned: both stopped at the same element.
LEMMA SameBlock ==
  ASSUME NEW f \in Files, NEW n, NEW c, NEW d, NEW r, NEW s,
         LocalOutcome(f, n, c, r), RemoteOutcome(f, n, d, s), s.kind = "slice"
  PROVE  r = s
<1>1. /\ Complete(f, d)
      /\ \E k \in 1 .. Len(d) : \E j \in 0 .. NodeCount(f, d[k].at) - 1 :
           /\ Holds(f, n, ElementAt(d[k].at, j))
           /\ Unnamed(f, n, d, k, j)
           /\ s = BlockBytes(f, Element(f, ElementAt(d[k].at, j)))
  BY SliceIsNotRefused DEF RemoteOutcome, Holds
<1>2. PICK k \in 1 .. Len(d) : \E j \in 0 .. NodeCount(f, d[k].at) - 1 :
           /\ Holds(f, n, ElementAt(d[k].at, j))
           /\ Unnamed(f, n, d, k, j)
           /\ s = BlockBytes(f, Element(f, ElementAt(d[k].at, j)))
  BY <1>1
<1>3. PICK j \in 0 .. NodeCount(f, d[k].at) - 1 :
           /\ Holds(f, n, ElementAt(d[k].at, j))
           /\ Unnamed(f, n, d, k, j)
           /\ s = BlockBytes(f, Element(f, ElementAt(d[k].at, j)))
  BY <1>2
<1>4. ~Stuck(f, c)
  BY <1>1, StuckIsNotComplete
<1>5. Trail(f, c) /\ Trail(f, d)
  BY <1>1, <1>4 DEF LocalOutcome, Complete
<1>6. Len(c) \in Nat /\ Len(d) \in Nat /\ Len(c) <= Len(d)
  <2>1. Len(c) <= Len(d)
    BY <1>1, <1>5, CompleteIsLongest
  <2> QED BY <1>5, <2>1 DEF Trail
<1>7. \A h \in 1 .. Len(c) : c[h] = d[h]
  BY <1>5, <1>6, TrailsAgree
<1>8. CASE Complete(f, c) /\ Clean(f, n, c, Len(c) + 1, 0)
  <2>1. Len(d) <= Len(c)
    BY <1>5, <1>8, CompleteIsLongest
  <2>2. k \in 1 .. Len(c) /\ c[k] = d[k] /\ Earlier(k, j, Len(c) + 1, 0)
    BY <1>6, <1>7, <2>1 DEF Earlier
  <2> QED BY <1>3, <1>8, <2>2 DEF Clean
<1>9. ASSUME NEW h \in 1 .. Len(c), NEW g \in 0 .. NodeCount(f, c[h].at) - 1,
             Holds(f, n, ElementAt(c[h].at, g)), Clean(f, n, c, h, g),
             r = BlockBytes(f, Element(f, ElementAt(c[h].at, g)))
      PROVE  r = s
  <2>1. h \in 1 .. Len(d) /\ c[h] = d[h] /\ Element(f, ElementAt(c[h].at, g)).id = n
    BY <1>6, <1>7, <1>9 DEF Holds
  <2>2. CASE Earlier(h, g, k, j)
    BY <1>3, <2>1, <2>2 DEF Unnamed
  <2>3. CASE Earlier(k, j, h, g)
    <3>1. k \in 1 .. Len(c) /\ c[k] = d[k]
      BY <1>6, <1>7, <2>3 DEF Earlier
    <3> QED BY <1>3, <1>9, <2>3, <3>1 DEF Clean
  <2>4. CASE h = k /\ g = j
    BY <1>3, <1>9, <2>1, <2>4
  <2>5. NodeCount(f, c[h].at) \in Nat /\ NodeCount(f, d[k].at) \in Nat
    BY <1>5, TrailNode
  <2> QED BY <2>2, <2>3, <2>4, <2>5 DEF Earlier
<1> QED BY <1>4, <1>8, <1>9 DEF LocalOutcome

\* Two walks that met the end of the list of one file went through the same nodes.
LEMMA CompleteIsUnique ==
  ASSUME NEW f \in Files, NEW c, NEW d, Complete(f, c), Complete(f, d)
  PROVE  c = d
<1>1. Trail(f, c) /\ Trail(f, d)
  BY DEF Complete
<1>2. Len(c) <= Len(d) /\ Len(d) <= Len(c)
  BY <1>1, CompleteIsLongest
<1>3. Len(c) = Len(d) /\ c \in Seq(Nodes) /\ d \in Seq(Nodes)
  BY <1>1, <1>2 DEF Trail
<1>4. \A k \in 1 .. Len(c) : c[k] = d[k]
  BY <1>1, <1>2, TrailsAgree
<1> QED BY <1>3, <1>4, SeqEqual

\* A block taken at an element of a trail is one the promise allows, if the file is damaged.
LEMMA DamagedBlockIsPromised ==
  ASSUME NEW f \in Files, NEW n, NEW c, Trail(f, c), ~WellFormed(f),
         NEW k \in 1 .. Len(c), NEW j \in 0 .. NodeCount(f, c[k].at) - 1,
         Holds(f, n, ElementAt(c[k].at, j))
  PROVE  BlockBytes(f, Element(f, ElementAt(c[k].at, j))) \in BlockReplies(f, n)
<1> DEFINE a == ElementAt(c[k].at, j)
           e == Element(f, a)
<1>1. a \in 0 .. FileLen(f) /\ a + ElementLen <= FileLen(f)
  BY TrailElement
<1>2. Refused("Truncated") \in BlockReplies(f, n)
  BY DEF BlockReplies, Errors
<1>3. ASSUME e.position + e.length <= FileLen(f)
      PROVE  Slice(f, e.position, e.length) \in BlockReplies(f, n)
  <2>1. e \in Lookalikes(f, n)
    BY <1>1, <1>3 DEF Lookalikes, InFile, Holds
  <2>2. Slice(f, e.position, e.length) = BlockOf(f, e)
    BY DEF BlockOf
  <2> HIDE DEF e
  <2> QED BY <2>1, <2>2 DEF BlockReplies
<1> QED BY <1>2, <1>3 DEF BlockBytes

\* A block taken at an element of a well-formed file is the one the promise names.
LEMMA SoundBlockIsPromised ==
  ASSUME NEW f \in Files, NEW n, NEW c, Trail(f, c), WellFormed(f),
         NEW k \in 1 .. Len(c), NEW j \in 0 .. NodeCount(f, c[k].at) - 1,
         Holds(f, n, ElementAt(c[k].at, j))
  PROVE  BlockBytes(f, Element(f, ElementAt(c[k].at, j))) \in BlockReplies(f, n)
<1> DEFINE a == ElementAt(c[k].at, j)
           e == Element(f, a)
           d == ChainOf(f)
<1>1. Complete(f, d)
  BY ChainIsComplete DEF WellFormed
<1>2. k \in 1 .. Len(d) /\ d[k] = c[k]
  <2>1. Len(c) <= Len(d) /\ Trail(f, d) /\ Len(c) \in Nat /\ Len(d) \in Nat
    <3>1. Len(c) <= Len(d)
      BY <1>1, CompleteIsLongest
    <3> QED BY <1>1, <3>1 DEF Complete, Trail
  <2> QED BY <2>1, TrailsAgree
<1>3. a \in ElementOffsets(f, d)
  BY <1>2 DEF ElementOffsets
<1>4. e.position + e.length <= FileLen(f)
  BY <1>3 DEF WellFormed, BlocksInside, Holds
<1>5. e \in Holders(f, n)
  BY <1>3 DEF Holders, Holds
<1>6. BlockBytes(f, e) = BlockOf(f, e)
  BY <1>4 DEF BlockBytes, BlockOf
<1>7. BlockBytes(f, e) \in BlockReplies(f, n)
  <2> HIDE DEF e
  <2> QED BY <1>5, <1>6 DEF BlockReplies
<1> QED BY <1>7

\* A file is not well formed if a walk over it has to be refused.
LEMMA StuckIsDamaged ==
  ASSUME NEW f \in Files, NEW c, Stuck(f, c)
  PROVE  ~WellFormed(f)
BY ChainIsComplete, StuckIsNotComplete DEF WellFormed

\* No block may be reported missing when the complete list holds none, occupied, with the
\* identifier.
LEMMA MissingIsPromised ==
  ASSUME NEW f \in Files, NEW n, NEW c, Complete(f, c),
         \A k \in 1 .. Len(c) : \A j \in 0 .. NodeCount(f, c[k].at) - 1 :
           ~Holds(f, n, ElementAt(c[k].at, j))
  PROVE  Refused("NotFound") \in BlockReplies(f, n)
<1>1. CASE ~WellFormed(f)
  BY <1>1 DEF BlockReplies, Errors
<1>2. CASE WellFormed(f)
  <2>1. ChainOf(f) = c
    BY <1>2, ChainIsComplete, CompleteIsUnique DEF WellFormed
  <2>2. Holders(f, n) = {}
    <3>1. SUFFICES ASSUME NEW a \in ElementOffsets(f, c), Holds(f, n, a) PROVE FALSE
      BY <2>1 DEF Holders, Holds
    <3>2. PICK k \in 1 .. Len(c) : a \in {ElementAt(c[k].at, j) : j \in 0 .. NodeCount(f, c[k].at) - 1}
      BY DEF ElementOffsets
    <3> QED BY <3>1, <3>2
  <2> QED BY <1>2, <2>2 DEF BlockReplies
<1> QED BY <1>1, <1>2

\* Every outcome of the local walk is an answer the promise allows.
LEMMA LocalOutcomeIsPromised ==
  ASSUME NEW f \in Files, NEW n, NEW c, NEW r, LocalOutcome(f, n, c, r)
  PROVE  r \in BlockReplies(f, n)
<1>1. ASSUME Trail(f, c),
             NEW k \in 1 .. Len(c), NEW j \in 0 .. NodeCount(f, c[k].at) - 1,
             Holds(f, n, ElementAt(c[k].at, j)),
             r = BlockBytes(f, Element(f, ElementAt(c[k].at, j)))
      PROVE  r \in BlockReplies(f, n)
  BY <1>1, DamagedBlockIsPromised, SoundBlockIsPromised
<1>2. CASE Complete(f, c) /\ Clean(f, n, c, Len(c) + 1, 0) /\ r = Refused("NotFound")
  <2>1. \A k \in 1 .. Len(c) : \A j \in 0 .. NodeCount(f, c[k].at) - 1 :
           ~Holds(f, n, ElementAt(c[k].at, j))
    BY <1>2 DEF Clean, Earlier, Complete, Trail
  <2> QED BY <1>2, <2>1, MissingIsPromised
<1>3. CASE Stuck(f, c) /\ r \in {Refused(e) : e \in Errors}
  BY <1>3, StuckIsDamaged DEF BlockReplies
<1> QED BY <1>1, <1>2, <1>3 DEF LocalOutcome

\* So is every outcome of the remote walk: in a well-formed file no other element has the
\* identifier of a free one.
LEMMA RemoteOutcomeIsPromised ==
  ASSUME NEW f \in Files, NEW n, NEW d, NEW r, RemoteOutcome(f, n, d, r)
  PROVE  r \in BlockReplies(f, n)
<1>1. ASSUME Complete(f, d),
             NEW k \in 1 .. Len(d), NEW j \in 0 .. NodeCount(f, d[k].at) - 1,
             Holds(f, n, ElementAt(d[k].at, j)),
             r = BlockBytes(f, Element(f, ElementAt(d[k].at, j)))
      PROVE  r \in BlockReplies(f, n)
  BY <1>1, DamagedBlockIsPromised, SoundBlockIsPromised DEF Complete
<1>2. ASSUME Complete(f, d),
             NEW k \in 1 .. Len(d), NEW j \in 0 .. NodeCount(f, d[k].at) - 1,
             Element(f, ElementAt(d[k].at, j)).id = n, IsFree(Element(f, ElementAt(d[k].at, j))),
             r = Refused("NotFound")
      PROVE  r \in BlockReplies(f, n)
  <2>1. CASE ~WellFormed(f)
    BY <1>2, <2>1 DEF BlockReplies, Errors
  <2>2. CASE WellFormed(f)
    <3> DEFINE a == ElementAt(d[k].at, j)
    <3>1. ChainOf(f) = d
      BY <1>2, <2>2, ChainIsComplete, CompleteIsUnique DEF WellFormed
    <3>2. a \in ElementOffsets(f, d)
      BY DEF ElementOffsets
    <3>3. ASSUME NEW b \in ElementOffsets(f, d), Element(f, b).id = n
          PROVE  IsFree(Element(f, b))
      BY <1>2, <2>2, <3>1, <3>2, <3>3 DEF WellFormed, ElementsUnique
    <3>4. Holders(f, n) = {}
      BY <3>1, <3>3 DEF Holders
    <3> QED BY <1>2, <2>2, <3>4 DEF BlockReplies
  <2> QED BY <2>1, <2>2
<1>3. CASE Complete(f, d) /\ Unnamed(f, n, d, Len(d) + 1, 0) /\ r = Refused("NotFound")
  <2>1. \A k \in 1 .. Len(d) : \A j \in 0 .. NodeCount(f, d[k].at) - 1 :
           ~Holds(f, n, ElementAt(d[k].at, j))
    BY <1>3 DEF Unnamed, Holds, Earlier, Complete, Trail
  <2> QED BY <1>3, <2>1, MissingIsPromised
<1>4. CASE Stuck(f, d) /\ r \in {Refused(e) : e \in Errors}
  BY <1>4, StuckIsDamaged DEF BlockReplies
<1> QED BY <1>1, <1>2, <1>3, <1>4 DEF RemoteOutcome, Holds

-----------------------------------------------------------------------------
\* The promise of the local reader is that of BlockPromise, read of the same files.
LEMMA LocalPromiseIsPromise ==
  ASSUME NEW f, NEW n
  PROVE  LocalPromise!Replies(f, n) = Replies(f, n)
<1>1. \A a : LocalPromise!Element(f, a) = Element(f, a)
  BY DEF LocalPromise!Element, Element
<1>2. \A e : LocalPromise!Refused(e) = Refused(e) /\ LocalPromise!IsFree(e) = IsFree(e)
  BY DEF LocalPromise!Refused, Refused, LocalPromise!IsFree, IsFree
<1>3. \A e : LocalPromise!BlockOf(f, e) = BlockOf(f, e) /\ LocalPromise!InFile(f, e) = InFile(f, e)
  BY DEF LocalPromise!BlockOf, BlockOf, LocalPromise!Slice, Slice, LocalPromise!InFile, InFile
<1>4. \A p : LocalPromise!NodeCount(f, p) = NodeCount(f, p) /\ LocalPromise!NodeNext(f, p) = NodeNext(f, p)
  BY DEF LocalPromise!NodeCount, NodeCount, LocalPromise!NodeNext, NodeNext
<1>5. \A p, j : LocalPromise!ElementAt(p, j) = ElementAt(p, j)
  BY DEF LocalPromise!ElementAt, ElementAt, LocalPromise!NodeHeaderLen, NodeHeaderLen, LocalPromise!ElementLen, ElementLen
<1>6. \A m : LocalPromise!NodeInside(f, m) = NodeInside(f, m)
  BY <1>4, <1>5
     DEF LocalPromise!NodeInside, NodeInside, LocalPromise!NodeHeaderLen, NodeHeaderLen,
         LocalPromise!NodeReserved, NodeReserved, LocalPromise!MaxElements, MaxElements,
         LocalPromise!ElementLen, ElementLen
<1>7. \A c, k : LocalPromise!Linked(f, c, k) <=> Linked(f, c, k)
  BY <1>4 DEF LocalPromise!Linked, Linked
<1>8. \A c : LocalPromise!IsChain(f, c) = IsChain(f, c)
  BY <1>6, <1>7 DEF LocalPromise!IsChain, IsChain, LocalPromise!PreambleLen, PreambleLen
<1>9. \A c : LocalPromise!ElementOffsets(f, c) = ElementOffsets(f, c)
  BY <1>4, <1>5 DEF LocalPromise!ElementOffsets, ElementOffsets
<1>10. \A c : /\ LocalPromise!ElementsUnique(f, c) = ElementsUnique(f, c)
              /\ LocalPromise!BlocksInside(f, c) = BlocksInside(f, c)
  BY <1>1, <1>2, <1>9
     DEF LocalPromise!ElementsUnique, ElementsUnique, LocalPromise!BlocksInside, BlocksInside
<1>11. LocalPromise!WellFormed(f) = WellFormed(f)
  BY <1>8, <1>10
     DEF LocalPromise!WellFormed, WellFormed, LocalPromise!PreambleError, PreambleError,
         LocalPromise!PreambleLen, PreambleLen
<1>12. /\ LocalPromise!Holders(f, n) = Holders(f, n)
       /\ LocalPromise!Lookalikes(f, n) = Lookalikes(f, n)
  BY <1>1, <1>2, <1>3, <1>9
     DEF LocalPromise!Holders, Holders, LocalPromise!Lookalikes, Lookalikes, LocalPromise!ElementLen, ElementLen
<1>13. LocalPromise!BlockReplies(f, n) = BlockReplies(f, n)
  BY <1>2, <1>3, <1>11, <1>12 DEF LocalPromise!BlockReplies, BlockReplies, LocalPromise!Errors, Errors
<1> QED
  BY <1>2, <1>13
     DEF LocalPromise!Replies, Replies, LocalPromise!IsBlocksFile, IsBlocksFile, LocalPromise!Whole, Whole

\* So is the promise of the remote reader.
LEMMA RemotePromiseIsPromise ==
  ASSUME NEW f, NEW n
  PROVE  RemotePromise!Replies(f, n) = Replies(f, n)
<1>1. \A a : RemotePromise!Element(f, a) = Element(f, a)
  BY DEF RemotePromise!Element, Element
<1>2. \A e : RemotePromise!Refused(e) = Refused(e) /\ RemotePromise!IsFree(e) = IsFree(e)
  BY DEF RemotePromise!Refused, Refused, RemotePromise!IsFree, IsFree
<1>3. \A e : RemotePromise!BlockOf(f, e) = BlockOf(f, e) /\ RemotePromise!InFile(f, e) = InFile(f, e)
  BY DEF RemotePromise!BlockOf, BlockOf, RemotePromise!Slice, Slice, RemotePromise!InFile, InFile
<1>4. \A p : RemotePromise!NodeCount(f, p) = NodeCount(f, p) /\ RemotePromise!NodeNext(f, p) = NodeNext(f, p)
  BY DEF RemotePromise!NodeCount, NodeCount, RemotePromise!NodeNext, NodeNext
<1>5. \A p, j : RemotePromise!ElementAt(p, j) = ElementAt(p, j)
  BY DEF RemotePromise!ElementAt, ElementAt, RemotePromise!NodeHeaderLen, NodeHeaderLen, RemotePromise!ElementLen, ElementLen
<1>6. \A m : RemotePromise!NodeInside(f, m) = NodeInside(f, m)
  BY <1>4, <1>5
     DEF RemotePromise!NodeInside, NodeInside, RemotePromise!NodeHeaderLen, NodeHeaderLen,
         RemotePromise!NodeReserved, NodeReserved, RemotePromise!MaxElements, MaxElements,
         RemotePromise!ElementLen, ElementLen
<1>7. \A c, k : RemotePromise!Linked(f, c, k) <=> Linked(f, c, k)
  BY <1>4 DEF RemotePromise!Linked, Linked
<1>8. \A c : RemotePromise!IsChain(f, c) = IsChain(f, c)
  BY <1>6, <1>7 DEF RemotePromise!IsChain, IsChain, RemotePromise!PreambleLen, PreambleLen
<1>9. \A c : RemotePromise!ElementOffsets(f, c) = ElementOffsets(f, c)
  BY <1>4, <1>5 DEF RemotePromise!ElementOffsets, ElementOffsets
<1>10. \A c : /\ RemotePromise!ElementsUnique(f, c) = ElementsUnique(f, c)
              /\ RemotePromise!BlocksInside(f, c) = BlocksInside(f, c)
  BY <1>1, <1>2, <1>9
     DEF RemotePromise!ElementsUnique, ElementsUnique, RemotePromise!BlocksInside, BlocksInside
<1>11. RemotePromise!WellFormed(f) = WellFormed(f)
  BY <1>8, <1>10
     DEF RemotePromise!WellFormed, WellFormed, RemotePromise!PreambleError, PreambleError,
         RemotePromise!PreambleLen, PreambleLen
<1>12. /\ RemotePromise!Holders(f, n) = Holders(f, n)
       /\ RemotePromise!Lookalikes(f, n) = Lookalikes(f, n)
  BY <1>1, <1>2, <1>3, <1>9
     DEF RemotePromise!Holders, Holders, RemotePromise!Lookalikes, Lookalikes, RemotePromise!ElementLen, ElementLen
<1>13. RemotePromise!BlockReplies(f, n) = BlockReplies(f, n)
  BY <1>2, <1>3, <1>11, <1>12 DEF RemotePromise!BlockReplies, BlockReplies, RemotePromise!Errors, Errors
<1> QED
  BY <1>2, <1>13
     DEF RemotePromise!Replies, Replies, RemotePromise!IsBlocksFile, IsBlocksFile, RemotePromise!Whole, Whole

-----------------------------------------------------------------------------
(***************************************************************************)
(* The local walk follows a trail of the file: what the inductive          *)
(* invariant adds is the trail itself, which no variable holds, and what   *)
(* the elements already passed over are not.                               *)
(***************************************************************************)
LocalWalk(c) ==
  /\ Trail(disk, c)
  /\ walked = Len(c)
  /\ seen = {c[k].at : k \in 1 .. Len(c)}
  /\ counted = After(disk, c, Len(c)).before

AtNode(c) ==
  /\ position = After(disk, c, Len(c)).at
  /\ Clean(disk, wanted, c, Len(c) + 1, 0)

AtElement(c) ==
  /\ Len(c) \in 1 .. Len(c)
  /\ position = c[Len(c)].at
  /\ node = [count |-> NodeCount(disk, position), next |-> NodeNext(disk, position)]
  /\ i \in 0 .. node.count
  /\ Clean(disk, wanted, c, Len(c), i)

AtBlock ==
  /\ i < node.count
  /\ found = Element(disk, ElementAt(position, i))
  /\ Holds(disk, wanted, ElementAt(position, i))

\* The request that makes read_external_block walk an index.
Indexed ==
  /\ disk \in Files
  /\ IsBlocksFile(disk) /\ wanted # NoIndex
  /\ PreambleError(disk) = "none"

NotWalked ==
  position = PreambleLen /\ seen = {} /\ walked = 0 /\ counted = 0

LocalFollows ==
  /\ pc # "done" => result = Pending
  /\ pc \in {"stat", "open", "whole", "preamble"} => NotWalked
  /\ pc = "preamble" => IsBlocksFile(disk) /\ wanted # NoIndex
  /\ pc = "whole" => disk \in Files /\ ~IsBlocksFile(disk) /\ wanted = NoIndex
  /\ pc \in {"node", "element", "block"} => Indexed
  /\ pc = "node" => \E c \in Seq(Nodes) : LocalWalk(c) /\ AtNode(c)
  /\ pc = "element" => \E c \in Seq(Nodes) : LocalWalk(c) /\ AtElement(c)
  /\ pc = "block" => \E c \in Seq(Nodes) : LocalWalk(c) /\ AtElement(c) /\ AtBlock
  /\ pc = "done" /\ Indexed => \E c \in Seq(Nodes) : LocalOutcome(disk, wanted, c, result)

LEMMA LocalFollowsInit == Init => LocalFollows
BY DEF Init, LocalInit, LocalFollows, NotWalked

\* NodeError refuses a node for what makes the walk over the file stuck, and nothing else.
LEMMA NodeErrorIsStuck ==
  ASSUME LocalTypeOK, Unchanged, pc = "node", walked < MaxNodes, position # 0,
         NEW c, LocalWalk(c), AtNode(c)
  PROVE  /\ NodeError = "none" =>
              /\ NodeInside(disk, After(disk, c, Len(c)))
              /\ \A k \in 1 .. Len(c) : c[k].at # position
         /\ NodeError # "none" => Stuck(disk, c)
<1> DEFINE n == After(disk, c, Len(c))
           len == FileLen(disk)
           count == NodeCount(disk, position)
<1>1. disk \in Files /\ held = disk /\ statLen = len /\ len \in Nat
  BY FileAssumption DEF LocalTypeOK, Unchanged, Reading
<1>2. n.at = position /\ n.before = counted /\ position \in Nat /\ counted \in Nat
  BY DEF LocalWalk, AtNode, LocalTypeOK
<1>3. position + NodeHeaderLen <= len => count \in Nat
  BY <1>1, <1>2, NodeHeaderType
<1>4. MaxElements(len) \in Nat
  BY <1>1, MaxElementsType
<1>5. count \in Nat => ElementAt(position, count) \in Nat
  BY <1>2 DEF ElementAt, NodeHeaderLen, ElementLen
<1>6. position \in seen <=> \E k \in 1 .. Len(c) : c[k].at = position
  BY DEF LocalWalk
<1>7. position + NodeHeaderLen \in Nat
  BY <1>2 DEF NodeHeaderLen
<1> HIDE DEF len, count, n
<1>8. NodeInside(disk, n) <=>
        /\ position + NodeHeaderLen <= len
        /\ ElementAt(position, count) <= len
        /\ NodeReserved(disk, position) = 0
        /\ counted + count <= MaxElements(len)
  BY <1>2 DEF NodeInside, count, len
<1>9. NodeError = "none" <=> position \notin seen /\ NodeInside(disk, n)
  BY <1>1, <1>2, <1>3, <1>4, <1>5, <1>7, <1>8 DEF NodeError, count, len
<1>10. NodeError = "none" => NodeInside(disk, n) /\ \A k \in 1 .. Len(c) : c[k].at # position
  BY <1>6, <1>9
<1>11. NodeError # "none" => Stuck(disk, c)
  BY <1>2, <1>6, <1>9 DEF Stuck, LocalWalk, n
<1> QED BY <1>10, <1>11 DEF n

LEMMA EmptyTrail ==
  ASSUME NEW f
  PROVE  <<>> \in Seq(Nodes) /\ Trail(f, <<>>) /\ Len(<<>>) = 0
BY DEF Trail

\* Before the walk: the checks read_external_block makes on the way to the index.
LEMMA FollowsBeforeWalk ==
  ASSUME TypeOK, WalkInv, LocalFollows, LocalNext,
         Stat \/ OpenFile \/ OpenFails \/ ReadWhole \/ ReadPreamble
  PROVE  LocalFollows'
<1> USE DEF LocalNext, Finish, walkVars, Indexed, NotWalked
<1>1. CASE Stat
  BY <1>1, BoundAssumption DEF Stat, LocalFollows
<1>2. CASE OpenFile
  BY <1>2 DEF OpenFile, LocalFollows
<1>3. CASE OpenFails
  BY <1>3, BoundAssumption DEF OpenFails, LocalFollows
<1>4. CASE ReadWhole
  BY <1>4 DEF ReadWhole, LocalFollows
<1>5. CASE ReadPreamble
  <2>1. held = disk /\ disk \in Files
    BY <1>5 DEF ReadPreamble, WalkInv, Unchanged, Reading, TypeOK, LocalTypeOK
  <2>2. CASE PreambleError(held) # "none"
    BY <1>5, <2>1, <2>2 DEF ReadPreamble, LocalFollows
  <2>3. CASE PreambleError(held) = "none"
    <3>1. pc' = "node" /\ result' = result /\ UNCHANGED <<held, statLen, walkVars, disk, wanted>>
      BY <1>5, <2>3 DEF ReadPreamble
    <3>2. LocalWalk(<<>>)' /\ AtNode(<<>>)'
      BY <1>5, <3>1, EmptyTrail
         DEF ReadPreamble, LocalFollows, LocalWalk, AtNode, After, Clean
    <3>3. Indexed'
      BY <1>5, <2>1, <2>3, <3>1 DEF ReadPreamble, LocalFollows
    <3>4. <<>> \in Seq(Nodes)
      BY EmptyTrail
    <3> QED BY <1>5, <3>1, <3>2, <3>3, <3>4 DEF ReadPreamble, LocalFollows
  <2> QED BY <2>2, <2>3
<1> QED BY <1>1, <1>2, <1>3, <1>4, <1>5

\* At the end of the list, of the rounds, or at a node that is refused.
LEMMA FollowsToEndOfWalk ==
  ASSUME TypeOK, WalkInv, LocalFollows, LocalNext, WalkTooLong \/ EndOfIndex \/ RefuseNode
  PROVE  LocalFollows'
<1>1. /\ pc = "node" /\ pc' = "done" /\ Indexed
      /\ UNCHANGED <<disk, wanted, walkVars>>
  BY DEF WalkTooLong, EndOfIndex, RefuseNode, Finish, LocalNext, LocalFollows
<1>2. PICK c \in Seq(Nodes) : LocalWalk(c) /\ AtNode(c)
  BY <1>1 DEF LocalFollows
<1>3. LocalOutcome(disk, wanted, c, result')
  <2>1. CASE WalkTooLong
    <3>1. result' \in {Refused(e) : e \in Errors}
      BY <2>1 DEF WalkTooLong, Finish, Errors
    <3> QED BY <1>2, <2>1, <3>1 DEF WalkTooLong, LocalOutcome, Stuck, LocalWalk
  <2>2. CASE EndOfIndex
    BY <1>2, <2>2 DEF EndOfIndex, Finish, LocalOutcome, Complete, LocalWalk, AtNode
  <2>3. CASE RefuseNode
    <3>1. Stuck(disk, c)
      BY <1>2, <2>3, NodeErrorIsStuck DEF RefuseNode, TypeOK, WalkInv
    <3>2. result' \in {Refused(e) : e \in Errors}
      BY <2>3, NodeErrorType DEF RefuseNode, Finish
    <3> QED BY <3>1, <3>2 DEF LocalOutcome
  <2> QED BY <2>1, <2>2, <2>3
<1>4. \E d \in Seq(Nodes) : LocalOutcome(disk', wanted', d, result')
  BY <1>1, <1>2, <1>3
<1> QED BY <1>1, <1>4 DEF LocalFollows

LEMMA FollowsEnterNode ==
  ASSUME TypeOK, WalkInv, LocalFollows, LocalNext, EnterNode
  PROVE  LocalFollows'
<1>1. /\ pc = "node" /\ pc' = "element" /\ walked < MaxNodes /\ position # 0 /\ NodeError = "none"
      /\ UNCHANGED <<disk, wanted, held, statLen, position, found, result>>
      /\ disk \in Files /\ held = disk
  BY DEF EnterNode, LocalNext, TypeOK, LocalTypeOK, WalkInv, Unchanged, Reading
<1>2. PICK c \in Seq(Nodes) : LocalWalk(c) /\ AtNode(c)
  BY <1>1 DEF LocalFollows
<1>0. PICK n : n = After(disk, c, Len(c))
  OBVIOUS
<1>3. NodeInside(disk, n) /\ \A k \in 1 .. Len(c) : c[k].at # n.at
  BY <1>0, <1>1, <1>2, NodeErrorIsStuck DEF TypeOK, WalkInv, AtNode
<1>4. PICK d \in Seq(Nodes) :
      /\ Trail(disk, d) /\ Len(d) = Len(c) + 1 /\ d[Len(c) + 1] = n
      /\ \A k \in 1 .. Len(c) : d[k] = c[k]
  <2>1. /\ Trail(disk, Append(c, n)) /\ Len(Append(c, n)) = Len(c) + 1
        /\ Append(c, n)[Len(c) + 1] = n
        /\ \A k \in 1 .. Len(c) : Append(c, n)[k] = c[k]
    BY <1>0, <1>1, <1>2, <1>3, TrailExtended DEF LocalWalk
  <2> QED BY <2>1, Zenon DEF Trail
<1>5. Len(c) \in Nat /\ n.at = position /\ n.before = counted
  BY <1>0, <1>2 DEF Trail, LocalWalk, AtNode
<1>6. Trail(disk', d) /\ After(disk', d, Len(d)) = After(disk, d, Len(d))
  BY <1>1, <1>4
<1>7. LocalWalk(d)'
  <2>1. walked' = Len(d)
    BY <1>2, <1>4 DEF EnterNode, LocalWalk
  <2>2. seen' = {d[k].at : k \in 1 .. Len(d)}
    BY <1>2, <1>4, <1>5 DEF EnterNode, LocalWalk
  <2>3. counted' = After(disk, d, Len(d)).before
    BY <1>1, <1>4, <1>5 DEF EnterNode, After
  <2> QED BY <1>6, <2>1, <2>2, <2>3 DEF LocalWalk
<1>8. AtElement(d)'
  <2>1. node' = [count |-> NodeCount(disk, position), next |-> NodeNext(disk, position)] /\ i' = 0
    BY <1>1 DEF EnterNode
  <2>2. NodeCount(disk, position) \in Nat /\ Len(d) \in 1 .. Len(d)
    <3>1. Len(d) \in 1 .. Len(d)
      BY <1>4, <1>5
    <3> QED BY <1>1, <1>4, <1>5, <3>1, TrailNode
  <2>3. Clean(disk, wanted, d, Len(d), 0)
    <3>1. ASSUME NEW h \in 1 .. Len(d), NEW g \in 0 .. NodeCount(disk, d[h].at) - 1,
                 Earlier(h, g, Len(d), 0)
          PROVE  ~Holds(disk, wanted, ElementAt(d[h].at, g))
      <4>1. h \in 1 .. Len(c) /\ d[h] = c[h] /\ Earlier(h, g, Len(c) + 1, 0)
        BY <1>4, <1>5, <3>1 DEF Earlier
      <4> QED BY <1>2, <4>1 DEF AtNode, Clean
    <3> QED BY <3>1 DEF Clean
  <2> QED BY <1>1, <1>4, <1>5, <2>1, <2>2, <2>3 DEF AtElement
<1>9. Indexed'
  BY <1>1 DEF LocalFollows, Indexed
<1> QED BY <1>1, <1>5, <1>7, <1>8, <1>9 DEF LocalFollows

LEMMA WalkStays ==
  ASSUME NEW c, LocalWalk(c), UNCHANGED <<disk, walked, seen, counted>>
  PROVE  LocalWalk(c)'
BY DEF LocalWalk

\* Passing over an element that does not match.
LEMMA FollowsSkipElement ==
  ASSUME TypeOK, WalkInv, LocalFollows, LocalNext, SkipElement
  PROVE  LocalFollows'
<1>1. /\ pc = "element" /\ pc' = "element" /\ i < node.count /\ ~Matches(HeldElement)
      /\ i' = i + 1
      /\ UNCHANGED <<disk, wanted, position, seen, walked, counted, node, found, result>>
      /\ disk \in Files /\ held = disk
  BY DEF SkipElement, LocalNext, TypeOK, LocalTypeOK, WalkInv, Unchanged, Reading
<1>2. PICK c \in Seq(Nodes) : LocalWalk(c) /\ AtElement(c)
  BY <1>1 DEF LocalFollows
<1>3. LocalWalk(c)'
  BY <1>1, <1>2, WalkStays
<1>4. AtElement(c)'
  <2>1. node.count \in Nat /\ i \in Nat
    BY DEF TypeOK, LocalTypeOK
  <2>2. Clean(disk, wanted, c, Len(c), i + 1)
    <3>1. ASSUME NEW h \in 1 .. Len(c), NEW g \in 0 .. NodeCount(disk, c[h].at) - 1,
                 Earlier(h, g, Len(c), i + 1)
          PROVE  ~Holds(disk, wanted, ElementAt(c[h].at, g))
      <4>1. NodeCount(disk, c[h].at) \in Nat
        BY <1>1, <1>2, TrailNode DEF LocalWalk
      <4>2. Earlier(h, g, Len(c), i) \/ (h = Len(c) /\ g = i)
        BY <2>1, <3>1, <4>1 DEF Earlier
      <4>3. ~Holds(disk, wanted, ElementAt(position, i))
        BY <1>1 DEF Holds, Matches, HeldElement
      <4> QED BY <1>2, <4>2, <4>3 DEF AtElement, Clean
    <3> QED BY <3>1 DEF Clean
  <2> QED BY <1>1, <1>2, <2>1, <2>2 DEF AtElement
<1>5. Indexed'
  BY <1>1 DEF LocalFollows, Indexed
<1> QED BY <1>1, <1>2, <1>3, <1>4, <1>5 DEF LocalFollows

LEMMA FollowsLeaveNode ==
  ASSUME TypeOK, WalkInv, LocalFollows, LocalNext, LeaveNode
  PROVE  LocalFollows'
<1>1. /\ pc = "element" /\ pc' = "node" /\ i = node.count /\ position' = node.next
      /\ UNCHANGED <<disk, wanted, seen, walked, counted, node, found, result>>
      /\ disk \in Files
  BY DEF LeaveNode, LocalNext, TypeOK, LocalTypeOK, WalkInv, Unchanged, Reading
<1>2. PICK c \in Seq(Nodes) : LocalWalk(c) /\ AtElement(c)
  BY <1>1 DEF LocalFollows
<1>3. LocalWalk(c)'
  BY <1>1, <1>2, WalkStays
<1>4. AtNode(c)'
  <2>1. position' = After(disk, c, Len(c)).at
    BY <1>1, <1>2 DEF AtElement, After
  <2>2. Clean(disk, wanted, c, Len(c) + 1, 0)
    <3>1. ASSUME NEW h \in 1 .. Len(c), NEW g \in 0 .. NodeCount(disk, c[h].at) - 1
          PROVE  ~Holds(disk, wanted, ElementAt(c[h].at, g))
      <4>1. Earlier(h, g, Len(c), i)
        <5>1. h = Len(c) => g < i
          <6>1. NodeCount(disk, c[Len(c)].at) = i
            BY <1>1, <1>2 DEF AtElement
          <6>2. i \in Nat
            BY DEF TypeOK, LocalTypeOK
          <6> QED BY <6>1, <6>2
        <5>2. Len(c) \in Nat
          BY <1>2
        <5> QED BY <5>1, <5>2 DEF Earlier
      <4> QED BY <1>2, <4>1 DEF AtElement, Clean
    <3> QED BY <3>1 DEF Clean
  <2> QED BY <1>1, <2>1, <2>2 DEF AtNode
<1>5. Indexed'
  BY <1>1 DEF LocalFollows, Indexed
<1> QED BY <1>1, <1>2, <1>3, <1>4, <1>5 DEF LocalFollows

\* The element that matches: its block is refused, or read once it is known to be inside.
LEMMA FollowsTakeElement ==
  ASSUME TypeOK, WalkInv, LocalFollows, LocalNext, TakeElement \/ ReadBlock
  PROVE  LocalFollows'
<1>1. /\ pc \in {"element", "block"} /\ UNCHANGED <<disk, wanted, position, seen, walked, counted, node, i>>
      /\ disk \in Files /\ held = disk /\ statLen = FileLen(disk) /\ Indexed
  BY DEF TakeElement, ReadBlock, LocalNext, walkVars, TypeOK, LocalTypeOK, WalkInv, Unchanged,
         Reading, LocalFollows
<1>2. PICK c \in Seq(Nodes) : LocalWalk(c) /\ AtElement(c) /\ (pc = "block" => AtBlock)
  BY <1>1 DEF LocalFollows
<1> DEFINE e == Element(disk, ElementAt(position, i))
<1>3. e = HeldElement /\ FileLen(disk) \in Nat
  BY <1>1, FileAssumption DEF HeldElement
<1>4. ASSUME i < node.count, Holds(disk, wanted, ElementAt(position, i)), result' = BlockBytes(disk, e)
      PROVE  LocalOutcome(disk, wanted, c, result')
  <2>1. Len(c) \in 1 .. Len(c) /\ i \in 0 .. NodeCount(disk, c[Len(c)].at) - 1
    <3>1. node.count = NodeCount(disk, c[Len(c)].at) /\ node.count \in Nat /\ i \in Nat
      BY <1>2 DEF AtElement, TypeOK, LocalTypeOK
    <3> QED BY <1>2, <1>4, <3>1 DEF AtElement
  <2> QED BY <1>2, <1>4, <2>1 DEF LocalOutcome, LocalWalk, AtElement
<1>5. CASE TakeElement
  <2>1. pc = "element" /\ i < node.count /\ Holds(disk, wanted, ElementAt(position, i))
    BY <1>3, <1>5 DEF TakeElement, Matches, Holds
  <2>2. CASE pc' = "done"
    <3>1. result' = BlockBytes(disk, e)
      <4>1. /\ HeldElement.position + HeldElement.length > statLen
            /\ result' = Refused("Truncated")
        BY <1>5, <2>2 DEF TakeElement, Finish
      <4>2. e.position \in Nat /\ e.length \in Nat
        <5>1. Len(c) \in 1 .. Len(c) /\ i \in 0 .. NodeCount(disk, c[Len(c)].at) - 1
          BY <1>2, <2>1 DEF AtElement, TypeOK, LocalTypeOK
        <5>2. e \in [id : Nat, position : Nat, length : Nat]
          BY <1>1, <1>2, <5>1, TrailElement DEF LocalWalk, AtElement
        <5> HIDE DEF e
        <5> QED BY <5>2
      <4> HIDE DEF e
      <4> QED BY <1>1, <1>3, <4>1, <4>2 DEF BlockBytes
    <3>2. LocalOutcome(disk', wanted', c, result')
      BY <1>1, <1>4, <2>1, <3>1
    <3> QED BY <1>2, <2>2, <3>2 DEF LocalFollows
  <2>3. CASE pc' = "block"
    <3>1. found' = e /\ result' = result
      BY <1>3, <1>5, <2>3 DEF TakeElement, Finish
    <3>2. LocalWalk(c)' /\ AtElement(c)' /\ AtBlock'
      <4>1. LocalWalk(c)'
        BY <1>1, <1>2, WalkStays
      <4>2. AtElement(c)'
        BY <1>1, <1>2 DEF AtElement
      <4>3. AtBlock'
        BY <1>1, <2>1, <3>1 DEF AtBlock
      <4> QED BY <4>1, <4>2, <4>3
    <3>3. Indexed' /\ result' = Pending
      BY <1>1, <2>1, <3>1 DEF Indexed, LocalFollows
    <3> QED BY <1>2, <2>3, <3>2, <3>3 DEF LocalFollows
  <2> QED BY <1>5, <2>2, <2>3 DEF TakeElement, Finish
<1>6. CASE ReadBlock
  <2>1. pc = "block" /\ pc' = "done" /\ AtBlock /\ found = e
    BY <1>2, <1>6 DEF ReadBlock, Finish, AtBlock
  <2>2. result' = BlockBytes(disk, e)
    <3>1. found.position + found.length <= FileLen(disk)
      BY <1>1, <2>1 DEF WalkInv, LocalBounds
    <3>2. found.position \in Nat /\ found.length \in Nat
      BY DEF TypeOK, LocalTypeOK
    <3>3. result' = Slice(disk, found.position, found.length)
      BY <1>1, <1>3, <1>6, <3>1, <3>2 DEF ReadBlock, Finish
    <3> HIDE DEF e
    <3> QED BY <2>1, <3>1, <3>3 DEF BlockBytes
  <2>3. LocalOutcome(disk', wanted', c, result')
    BY <1>1, <1>4, <2>1, <2>2 DEF AtBlock
  <2> QED BY <1>2, <2>1, <2>3 DEF LocalFollows
<1> QED BY <1>5, <1>6

\* A node is entered only if all its elements can be read.
LEMMA ElementsAreReadable ==
  ASSUME TypeOK, WalkInv
  PROVE  ~ElementUnreadable
<1> SUFFICES ASSUME ElementUnreadable PROVE FALSE
  OBVIOUS
<1>1. /\ pc = "element" /\ i < node.count /\ ~(ElementAt(position, i + 1) <= FileLen(held))
      /\ ElementAt(position, node.count) <= statLen
      /\ held \in Files /\ statLen = FileLen(held)
      /\ position \in Nat /\ node.count \in Nat /\ i \in Nat
  BY DEF ElementUnreadable, ElementReadable, TypeOK, LocalTypeOK, WalkInv, Unchanged, Reading,
         LocalBounds
<1>2. FileLen(held) \in Nat
  BY <1>1, FileAssumption
<1> QED BY <1>1, <1>2 DEF ElementAt, NodeHeaderLen, ElementLen

LEMMA LocalFollowsStep ==
  ASSUME TypeOK, WalkInv, LocalFollows, LocalNext
  PROVE  LocalFollows'
BY FollowsBeforeWalk, FollowsToEndOfWalk, FollowsEnterNode, FollowsSkipElement,
   FollowsLeaveNode, FollowsTakeElement, ElementsAreReadable
   DEF LocalNext, LocalStep

-----------------------------------------------------------------------------
(***************************************************************************)
(* The remote walk flattens the elements of the nodes on its trail, in     *)
(* order, before it looks for the identifier.                              *)
(***************************************************************************)
Flat(f, d, es) ==
  /\ Len(es) = After(f, d, Len(d)).before
  /\ \A k \in 1 .. Len(d) : \A j \in 0 .. NodeCount(f, d[k].at) - 1 :
       /\ d[k].before + j + 1 \in 1 .. Len(es)
       /\ es[d[k].before + j + 1] = Element(f, ElementAt(d[k].at, j))
  /\ \A m \in 1 .. Len(es) : \E k \in 1 .. Len(d) :
       \E j \in 0 .. NodeCount(f, d[k].at) - 1 : m = d[k].before + j + 1

RemoteWalk(d) ==
  /\ Trail(disk, d)
  /\ rounds = Len(d)
  /\ visited = {d[k].at : k \in 1 .. Len(d)}
  /\ at = After(disk, d, Len(d)).at
  /\ Flat(disk, d, elements)

RemoteFollows ==
  /\ stage # "done" => answer = Pending
  /\ stage \in {"fetch", "extract"} =>
       at = PreambleLen /\ visited = {} /\ rounds = 0 /\ elements = <<>>
  /\ stage \in {"extract", "node", "take"} => bytes = disk /\ disk \in Files
  /\ stage \in {"node", "take"} => Indexed
  /\ stage = "node" => \E d \in Seq(Nodes) : RemoteWalk(d)
  /\ stage = "take" => \E d \in Seq(Nodes) : RemoteWalk(d) /\ Complete(disk, d)
  /\ stage = "done" /\ Indexed => \E d \in Seq(Nodes) : RemoteOutcome(disk, wanted, d, answer)

LEMMA RemoteFollowsInit == Init => RemoteFollows
BY DEF Init, RemoteInit, RemoteFollows

\* Until the walk: what the resolver returns, and the two shapes of an external file.
LEMMA FollowsFetch ==
  ASSUME TypeOK, RemoteFollows, RemoteNext, Fetch \/ Extract
  PROVE  RemoteFollows'
<1> USE DEF RemoteNext, Conclude, Indexed
<1>1. CASE Fetch
  BY <1>1 DEF Fetch, RemoteFollows
<1>2. CASE Extract
  <2>1. stage = "extract" /\ bytes = disk /\ disk \in Files
    BY <1>2 DEF Extract, RemoteFollows
  <2>2. CASE stage' = "done"
    BY <1>2, <2>1, <2>2 DEF Extract, RemoteFollows
  <2>3. CASE stage' = "node"
    <3>1. /\ Indexed' /\ answer' = Pending /\ bytes' = disk' /\ disk' \in Files
          /\ UNCHANGED <<disk, at, visited, rounds, elements>>
      BY <1>2, <2>1, <2>3 DEF Extract, RemoteFollows
    <3>2. RemoteWalk(<<>>)'
      BY <2>1, <3>1, EmptyTrail DEF RemoteFollows, RemoteWalk, After, Flat
    <3>3. <<>> \in Seq(Nodes)
      BY EmptyTrail
    <3> QED BY <2>3, <3>1, <3>2, <3>3 DEF RemoteFollows
  <2> QED BY <1>2, <2>2, <2>3 DEF Extract
<1> QED BY <1>1, <1>2

\* ParseError refuses a node for what makes the walk over the file stuck, and nothing else.
LEMMA ParseErrorIsStuck ==
  ASSUME RemoteTypeOK, stage = "node", bytes = disk, disk \in Files, at # 0,
         NEW d, RemoteWalk(d)
  PROVE  /\ ParseError = "none" =>
              /\ NodeInside(disk, After(disk, d, Len(d)))
              /\ \A k \in 1 .. Len(d) : d[k].at # at
         /\ ParseError # "none" => Stuck(disk, d)
<1> DEFINE n == After(disk, d, Len(d))
           len == FileLen(disk)
           count == NodeCount(disk, at)
<1>1. len \in Nat /\ MaxElements(len) \in Nat
  BY FileAssumption, MaxElementsType
<1>2. n.at = at /\ n.before = Len(elements) /\ at \in Nat /\ Len(elements) \in Nat
  BY DEF RemoteWalk, Flat, RemoteTypeOK
<1>3. at + NodeHeaderLen <= len => count \in Nat
  BY <1>1, <1>2, NodeHeaderType
<1>4. count \in Nat => ElementAt(at, count) \in Nat
  BY <1>2 DEF ElementAt, NodeHeaderLen, ElementLen
<1>5. at \in visited <=> \E k \in 1 .. Len(d) : d[k].at = at
  BY DEF RemoteWalk
<1>6. at + NodeHeaderLen \in Nat
  BY <1>2 DEF NodeHeaderLen
<1> HIDE DEF len, count, n
<1>7. NodeInside(disk, n) <=>
        /\ at + NodeHeaderLen <= len
        /\ ElementAt(at, count) <= len
        /\ NodeReserved(disk, at) = 0
        /\ Len(elements) + count <= MaxElements(len)
  BY <1>2 DEF NodeInside, count, len
<1>8. ParseError = "none" <=> at \notin visited /\ NodeInside(disk, n)
  BY <1>1, <1>2, <1>3, <1>4, <1>6, <1>7 DEF ParseError, count, len
<1>9. ParseError = "none" => NodeInside(disk, n) /\ \A k \in 1 .. Len(d) : d[k].at # at
  BY <1>5, <1>8
<1>10. ParseError # "none" => Stuck(disk, d)
  BY <1>2, <1>5, <1>8 DEF Stuck, RemoteWalk, n
<1> QED BY <1>9, <1>10 DEF n

LEMMA FollowsParseEnd ==
  ASSUME TypeOK, RemoteFollows, RemoteNext, ParseTooLong \/ ParseRefused \/ ParsedAll
  PROVE  RemoteFollows'
<1>1. /\ stage = "node" /\ bytes = disk /\ disk \in Files /\ Indexed
      /\ UNCHANGED <<disk, wanted, bytes, at, visited, rounds, elements>>
  BY DEF ParseTooLong, ParseRefused, ParsedAll, RemoteNext, RemoteFollows
<1>2. PICK d \in Seq(Nodes) : RemoteWalk(d)
  BY <1>1 DEF RemoteFollows
<1>3. ASSUME stage' = "done", Stuck(disk, d), answer' \in {Refused(e) : e \in Errors}
      PROVE  RemoteFollows'
  <2>1. RemoteOutcome(disk', wanted', d, answer')
    BY <1>1, <1>3 DEF RemoteOutcome
  <2> QED BY <1>2, <1>3, <2>1 DEF RemoteFollows
<1>4. CASE ParseTooLong
  <2>1. answer' \in {Refused(e) : e \in Errors}
    BY <1>4 DEF ParseTooLong, Conclude, Errors
  <2> QED BY <1>2, <1>3, <1>4, <2>1 DEF ParseTooLong, Conclude, Stuck, RemoteWalk
<1>5. CASE ParseRefused
  <2>1. answer' \in {Refused(e) : e \in Errors}
    BY <1>5, ParseErrorType DEF ParseRefused, Conclude
  <2>2. Stuck(disk, d)
    BY <1>1, <1>2, <1>5, ParseErrorIsStuck DEF ParseRefused, TypeOK
  <2> QED BY <1>3, <1>5, <2>1, <2>2 DEF ParseRefused, Conclude
<1>6. CASE ParsedAll
  <2>1. Complete(disk, d)
    BY <1>2, <1>6 DEF ParsedAll, RemoteWalk, Complete
  <2>2. RemoteWalk(d)' /\ Complete(disk', d)
    BY <1>1, <1>2, <2>1 DEF RemoteWalk
  <2>3. stage' = "take" /\ answer' = Pending /\ Indexed'
    BY <1>1, <1>6 DEF ParsedAll, RemoteFollows, Indexed
  <2> QED BY <1>1, <1>2, <2>2, <2>3 DEF RemoteFollows
<1> QED BY <1>4, <1>5, <1>6

\* What is appended comes after what was there.
LEMMA Appended ==
  ASSUME NEW S, NEW s \in Seq(S), NEW t \in Seq(S), NEW n, Len(t) = n
  PROVE  /\ s \o t \in Seq(S) /\ Len(s \o t) = Len(s) + n
         /\ \A m \in 1 .. Len(s) + n : (s \o t)[m] = IF m <= Len(s) THEN s[m] ELSE t[m - Len(s)]
BY ConcatProperties

\* One more node, its elements appended.
LEMMA FlatExtended ==
  ASSUME NEW f \in Files, NEW d, Trail(f, d), NEW e, Trail(f, e), Len(e) = Len(d) + 1,
         \A k \in 1 .. Len(d) : e[k] = d[k],
         NEW es \in Seq([id : Nat, position : Nat, length : Nat]), Flat(f, d, es),
         NEW p, p = e[Len(e)].at
  PROVE  Flat(f, e, es \o Parsed(f, p))
<1> DEFINE count == NodeCount(f, p)
           E == [id : Nat, position : Nat, length : Nat]
           fs == es \o Parsed(f, p)
<1>1. Len(d) \in Nat /\ Len(e) \in 1 .. Len(e) /\ Len(es) \in Nat
  BY DEF Trail
<1>2. p \in Nat /\ count \in Nat /\ ElementAt(p, count) <= FileLen(f)
  BY <1>1, TrailNode
<1>3. Parsed(f, p) \in Seq(E) /\ Len(Parsed(f, p)) = count /\ es \in Seq(E)
  BY <1>2, ParsedType
<1>4. /\ fs \in Seq(E) /\ Len(fs) = Len(es) + count
      /\ \A m \in 1 .. Len(es) + count : fs[m] = IF m <= Len(es) THEN es[m] ELSE Parsed(f, p)[m - Len(es)]
  <2> HIDE DEF E, count
  <2> QED BY <1>3, Appended
<1>5. e[Len(e)].before = Len(es)
  <2>1. e[Len(e)] = After(f, e, Len(d))
    BY <1>1 DEF Trail
  <2>2. After(f, e, Len(d)) = After(f, d, Len(d))
    BY <1>1 DEF After
  <2> QED BY <2>1, <2>2 DEF Flat
<1> HIDE DEF fs, E
<1>6. Len(fs) = After(f, e, Len(e)).before
  BY <1>1, <1>4, <1>5 DEF After
<1>7. ASSUME NEW k \in 1 .. Len(e), NEW j \in 0 .. NodeCount(f, e[k].at) - 1
      PROVE  /\ e[k].before + j + 1 \in 1 .. Len(fs)
             /\ fs[e[k].before + j + 1] = Element(f, ElementAt(e[k].at, j))
  <2>1. CASE k = Len(e)
    <3>1. j \in 0 .. count - 1 /\ e[k].before + j + 1 = Len(es) + (j + 1)
      <4>1. e[k].before = Len(es) /\ e[k].at = p
        BY <1>5, <2>1
      <4> QED BY <1>1, <1>2, <4>1
    <3>2. Len(es) + (j + 1) \in 1 .. Len(fs) /\ fs[Len(es) + (j + 1)] = Parsed(f, p)[j + 1]
      BY <1>1, <1>2, <1>4, <3>1
    <3>3. Parsed(f, p)[j + 1] = Element(f, ElementAt(p, j))
      BY <1>2, <3>1 DEF Parsed
    <3> QED BY <2>1, <3>1, <3>2, <3>3
  <2>2. CASE k # Len(e)
    <3>1. k \in 1 .. Len(d) /\ e[k] = d[k]
      BY <1>1, <2>2
    <3>2. /\ e[k].before + j + 1 \in 1 .. Len(es)
          /\ es[e[k].before + j + 1] = Element(f, ElementAt(e[k].at, j))
      BY <3>1 DEF Flat
    <3>3. \A x \in 1 .. Len(es) : x \in 1 .. Len(fs) /\ fs[x] = es[x]
      <4>1. SUFFICES ASSUME NEW x \in 1 .. Len(es)
                     PROVE  x \in 1 .. Len(fs) /\ fs[x] = es[x]
        OBVIOUS
      <4>2. x \in Nat /\ 1 <= x /\ x <= Len(es) /\ Len(es) \in Nat /\ count \in Nat
        BY <1>1, <1>2
      <4> HIDE DEF count
      <4>3. x \in 1 .. Len(es) + count
        BY <4>2
      <4> QED BY <1>4, <4>2, <4>3
    <3> QED BY <3>2, <3>3
  <2> QED BY <2>1, <2>2
<1>8. ASSUME NEW m \in 1 .. Len(fs)
      PROVE  \E k \in 1 .. Len(e) : \E j \in 0 .. NodeCount(f, e[k].at) - 1 :
               m = e[k].before + j + 1
  <2>1. CASE m <= Len(es)
    <3>1. m \in 1 .. Len(es)
      BY <1>1, <2>1
    <3>2. PICK k \in 1 .. Len(d) : \E j \in 0 .. NodeCount(f, d[k].at) - 1 : m = d[k].before + j + 1
      BY <3>1 DEF Flat
    <3> QED BY <1>1, <3>2
  <2>2. CASE ~(m <= Len(es))
    <3>1. m - Len(es) - 1 \in 0 .. count - 1 /\ m = Len(es) + (m - Len(es) - 1) + 1
      BY <1>1, <1>2, <1>4, <2>2
    <3> QED BY <1>1, <1>5, <3>1
  <2> QED BY <2>1, <2>2
<1> QED BY <1>6, <1>7, <1>8 DEF Flat, fs

LEMMA FollowsParseNode ==
  ASSUME TypeOK, RemoteFollows, RemoteNext, ParseNode
  PROVE  RemoteFollows'
<1>1. /\ stage = "node" /\ stage' = "node" /\ at # 0 /\ ParseError = "none"
      /\ UNCHANGED <<disk, wanted, bytes, answer>>
      /\ bytes = disk /\ disk \in Files /\ Indexed
  BY DEF ParseNode, RemoteNext, RemoteFollows
<1>2. PICK d \in Seq(Nodes) : RemoteWalk(d)
  BY <1>1 DEF RemoteFollows
<1>3. PICK n : n = After(disk, d, Len(d))
  OBVIOUS
<1>4. NodeInside(disk, n) /\ \A k \in 1 .. Len(d) : d[k].at # n.at
  BY <1>1, <1>2, <1>3, ParseErrorIsStuck DEF TypeOK, RemoteWalk
<1>5. PICK e \in Seq(Nodes) :
      /\ Trail(disk, e) /\ Len(e) = Len(d) + 1 /\ e[Len(d) + 1] = n
      /\ \A k \in 1 .. Len(d) : e[k] = d[k]
  <2>1. /\ Trail(disk, Append(d, n)) /\ Len(Append(d, n)) = Len(d) + 1
        /\ Append(d, n)[Len(d) + 1] = n
        /\ \A k \in 1 .. Len(d) : Append(d, n)[k] = d[k]
    BY <1>1, <1>2, <1>3, <1>4, TrailExtended DEF RemoteWalk
  <2> QED BY <2>1, Zenon DEF Trail
<1>6. Len(d) \in Nat /\ n.at = at
  BY <1>2, <1>3 DEF RemoteWalk
<1>7. RemoteWalk(e)'
  <2>1. rounds' = Len(e)
    BY <1>2, <1>5 DEF ParseNode, RemoteWalk
  <2>2. visited' = {e[k].at : k \in 1 .. Len(e)}
    BY <1>2, <1>5, <1>6 DEF ParseNode, RemoteWalk
  <2>3. at' = After(disk, e, Len(e)).at
    BY <1>1, <1>5, <1>6 DEF ParseNode, After
  <2>4. Flat(disk, e, elements')
    <3>1. elements' = elements \o Parsed(disk, at)
      BY <1>1 DEF ParseNode, Parsed
    <3>2. elements \in Seq([id : Nat, position : Nat, length : Nat])
      BY DEF TypeOK, RemoteTypeOK
    <3>3. Trail(disk, d) /\ Flat(disk, d, elements) /\ at = e[Len(e)].at
      BY <1>2, <1>5, <1>6 DEF RemoteWalk
    <3> QED BY <1>1, <1>5, <3>1, <3>2, <3>3, FlatExtended
  <2> QED BY <1>1, <1>5, <2>1, <2>2, <2>3, <2>4 DEF RemoteWalk
<1> QED BY <1>1, <1>5, <1>7 DEF RemoteFollows, Indexed

\* The element with the lowest index among those named is the first one on the trail.
LEMMA FirstIsEarliest ==
  ASSUME NEW f \in Files, NEW n, NEW d, Trail(f, d), NEW es, Flat(f, d, es),
         NEW k \in 1 .. Len(d), NEW j \in 0 .. NodeCount(f, d[k].at) - 1,
         \A m \in 1 .. d[k].before + j : es[m].id # n
  PROVE  Unnamed(f, n, d, k, j)
<1>1. SUFFICES ASSUME NEW h \in 1 .. Len(d), NEW g \in 0 .. NodeCount(f, d[h].at) - 1,
                      Earlier(h, g, k, j)
               PROVE  Element(f, ElementAt(d[h].at, g)).id # n
  BY DEF Unnamed
<1>2. /\ d[h].before \in Nat /\ NodeCount(f, d[h].at) \in Nat
      /\ d[k].before \in Nat /\ NodeCount(f, d[k].at) \in Nat
  BY TrailNode
<1>3. d[h].before + g + 1 \in 1 .. d[k].before + j
  <2>1. CASE h < k
    <3>1. d[h].before + NodeCount(f, d[h].at) <= d[k].before
      BY <2>1, ElementsInOrder
    <3>2. g \in Nat /\ g + 1 <= NodeCount(f, d[h].at) /\ j \in Nat
      BY <1>2
    <3>3. \A b, n1, x, u, v \in Nat : b + n1 <= x /\ u + 1 <= n1 => b + u + 1 \in 1 .. x + v
      OBVIOUS
    <3> QED BY <1>2, <3>1, <3>2, <3>3
  <2>2. CASE h = k /\ g < j
    <3>1. g \in Nat /\ j \in Nat
      BY <1>2
    <3> QED BY <1>2, <2>2, <3>1
  <2> QED BY <1>1, <2>1, <2>2 DEF Earlier
<1>4. es[d[h].before + g + 1] = Element(f, ElementAt(d[h].at, g))
  BY DEF Flat
<1> QED BY <1>3, <1>4

\* BlocksIndex::get over the elements of the complete list.
LEMMA FollowsTakeNamed ==
  ASSUME TypeOK, RemoteFollows, RemoteNext, TakeNamed
  PROVE  RemoteFollows'
<1>1. /\ stage = "take" /\ stage' = "done" /\ bytes = disk /\ disk \in Files
      /\ UNCHANGED <<disk, wanted>>
  BY DEF TakeNamed, Conclude, RemoteNext, RemoteFollows
<1>2. PICK d \in Seq(Nodes) : RemoteWalk(d) /\ Complete(disk, d)
  BY <1>1 DEF RemoteFollows
<1>3. Trail(disk, d) /\ Flat(disk, d, elements)
  BY <1>2 DEF RemoteWalk
<1>4. RemoteOutcome(disk, wanted, d, answer')
  <2>1. ASSUME NEW m \in 1 .. Len(elements), IsFirst(m), answer' = Taken(elements[m])
        PROVE  RemoteOutcome(disk, wanted, d, answer')
    <3>1. PICK k \in 1 .. Len(d) : \E j \in 0 .. NodeCount(disk, d[k].at) - 1 : m = d[k].before + j + 1
      BY <1>3 DEF Flat
    <3>2. PICK j \in 0 .. NodeCount(disk, d[k].at) - 1 : m = d[k].before + j + 1
      BY <3>1
    <3>3. elements[m] = Element(disk, ElementAt(d[k].at, j)) /\ elements[m].id = wanted
      BY <1>3, <2>1, <3>2 DEF Flat, IsFirst
    <3>4. Unnamed(disk, wanted, d, k, j)
      <4>1. d[k].before \in Nat /\ NodeCount(disk, d[k].at) \in Nat
        BY <1>1, <1>3, TrailNode
      <4>2. m - 1 = d[k].before + j
        BY <3>2, <4>1
      <4>3. \A h \in 1 .. d[k].before + j : elements[h].id # wanted
        BY <2>1, <4>2 DEF IsFirst
      <4> QED BY <1>1, <1>3, <4>3, FirstIsEarliest
    <3>5. elements[m].position \in Nat /\ elements[m].length \in Nat /\ FileLen(disk) \in Nat
      <4>1. elements \in Seq([id : Nat, position : Nat, length : Nat])
        BY DEF TypeOK, RemoteTypeOK
      <4>2. elements[m] \in [id : Nat, position : Nat, length : Nat]
        BY <4>1, SeqElement
      <4> QED BY <1>1, <4>2, FileAssumption
    <3>6. answer' = IF IsFree(elements[m]) THEN Refused("NotFound") ELSE BlockBytes(disk, elements[m])
      BY <1>1, <2>1, <3>5 DEF Taken, BlockBytes
    <3> QED BY <1>2, <3>3, <3>4, <3>6 DEF RemoteOutcome
  <2>2. ASSUME \A m \in 1 .. Len(elements) : elements[m].id # wanted, answer' = Refused("NotFound")
        PROVE  RemoteOutcome(disk, wanted, d, answer')
    <3>1. Unnamed(disk, wanted, d, Len(d) + 1, 0)
      BY <1>3, <2>2 DEF Flat, Unnamed
    <3> QED BY <1>2, <2>2, <3>1 DEF RemoteOutcome
  <2> QED BY <2>1, <2>2 DEF TakeNamed, Conclude
<1>5. \E c \in Seq(Nodes) : RemoteOutcome(disk', wanted', c, answer')
  BY <1>1, <1>2, <1>4
<1> QED BY <1>1, <1>5 DEF RemoteFollows

LEMMA RemoteFollowsStep ==
  ASSUME TypeOK, RemoteFollows, RemoteNext
  PROVE  RemoteFollows'
BY FollowsFetch, FollowsParseEnd, FollowsParseNode, FollowsTakeNamed DEF RemoteNext, RemoteStep

-----------------------------------------------------------------------------
(* The two walks together. *)

LEMMA FollowsUnchanged ==
  /\ LocalFollows /\ UNCHANGED <<disk, wanted, localVars>> => LocalFollows'
  /\ RemoteFollows /\ UNCHANGED <<disk, wanted, remoteVars>> => RemoteFollows'
<1>1. ASSUME LocalFollows, UNCHANGED <<disk, wanted, localVars>>
      PROVE  LocalFollows'
  BY <1>1
     DEF LocalFollows, localVars, walkVars, NotWalked, Indexed, LocalWalk, AtNode, AtElement, AtBlock
<1>2. ASSUME RemoteFollows, UNCHANGED <<disk, wanted, remoteVars>>
      PROVE  RemoteFollows'
  BY <1>2 DEF RemoteFollows, remoteVars, Indexed, RemoteWalk
<1> QED BY <1>1, <1>2

LEMMA FollowsStep ==
  ASSUME TypeOK, WalkInv, LocalFollows, RemoteFollows, [Next]_vars
  PROVE  LocalFollows' /\ RemoteFollows'
<1>1. CASE ReadLocal
  BY <1>1, LocalFollowsStep, FollowsUnchanged DEF ReadLocal, LocalNext
<1>2. CASE ReadRemote
  BY <1>2, RemoteFollowsStep, FollowsUnchanged DEF ReadRemote, RemoteNext
<1>3. CASE BothDone \/ UNCHANGED vars
  BY <1>3, FollowsUnchanged DEF BothDone, vars
<1> QED BY <1>1, <1>2, <1>3 DEF Next

LEMMA FollowsHolds == Spec => [](LocalFollows /\ RemoteFollows)
<1>1. Init => LocalFollows /\ RemoteFollows
  BY LocalFollowsInit, RemoteFollowsInit
<1>2. TypeOK /\ WalkInv /\ LocalFollows /\ RemoteFollows /\ [Next]_vars
      => LocalFollows' /\ RemoteFollows'
  BY FollowsStep
<1> QED BY <1>1, <1>2, TypeCorrect, WalkInvHolds, PTL DEF Spec

\* Until it walks an index the remote reader returns nothing but the whole of a plain file.
RemoteSliceIsIndexed ==
  /\ stage \in {"fetch", "extract"} => answer = Pending
  /\ answer.kind = "slice" => Indexed

LEMMA RemoteSliceStep ==
  ASSUME RemoteFollows, RemoteSliceIsIndexed, [Next]_vars
  PROVE  RemoteSliceIsIndexed'
<1> USE DEF RemoteSliceIsIndexed
<1>1. CASE ReadLocal
  BY <1>1 DEF ReadLocal, LocalNext, remoteVars, Indexed
<1>2. CASE ReadRemote
  <2> USE DEF ReadRemote, RemoteNext, Conclude, Refused, Pending
  <2>1. CASE Fetch \/ Extract
    BY <1>2, <2>1 DEF Fetch, Extract, Whole
  <2>2. CASE ParseTooLong \/ ParseRefused \/ ParseNode \/ ParsedAll \/ TakeNamed
    BY <1>2, <2>2
       DEF ParseTooLong, ParseRefused, ParseNode, ParsedAll, TakeNamed, RemoteFollows, Indexed
  <2> QED BY <1>2, <2>1, <2>2 DEF RemoteStep
<1>3. CASE BothDone \/ UNCHANGED vars
  BY <1>3 DEF BothDone, vars, remoteVars, Indexed
<1> QED BY <1>1, <1>2, <1>3 DEF Next

\* On every file, however damaged, a block that the reader of a URL returns is the block
\* that the reader of a path returns, byte for byte: both take the first occupied element
\* with the identifier, and a list the one walks to its end the other cannot be refused on.
THEOREM RemoteReadsAsLocal == Spec => []RemoteBlockIsLocalBlock
<1>1. Init => RemoteSliceIsIndexed
  BY DEF Init, RemoteInit, RemoteSliceIsIndexed, Pending
<1>2. LocalFollows /\ RemoteFollows /\ RemoteSliceIsIndexed => RemoteBlockIsLocalBlock
  <2> SUFFICES ASSUME LocalFollows, RemoteFollows, RemoteSliceIsIndexed,
                      pc = "done", stage = "done", answer.kind = "slice"
               PROVE  result = answer
    BY DEF RemoteBlockIsLocalBlock
  <2>1. disk \in Files /\ Indexed
    BY DEF RemoteSliceIsIndexed, Indexed
  <2>2. PICK c \in Seq(Nodes) : LocalOutcome(disk, wanted, c, result)
    BY <2>1 DEF LocalFollows
  <2>3. PICK d \in Seq(Nodes) : RemoteOutcome(disk, wanted, d, answer)
    BY <2>1 DEF RemoteFollows
  <2> QED BY <2>1, <2>2, <2>3, SameBlock
<1>3. RemoteFollows /\ RemoteSliceIsIndexed /\ [Next]_vars => RemoteSliceIsIndexed'
  BY RemoteSliceStep
<1> QED BY <1>1, <1>2, <1>3, FollowsHolds, PTL DEF Spec

-----------------------------------------------------------------------------
(***************************************************************************)
(* Each reader implements BlockPromise: its variables but for the answer   *)
(* are hidden, and the step that answers is the abstract Reply.            *)
(***************************************************************************)

\* An answer about an indexed block is one the promise allows.
LEMMA IndexedReply ==
  ASSUME Indexed, NEW r, r \in BlockReplies(disk, wanted)
  PROVE  r \in Replies(disk, wanted)
BY DEF Indexed, Replies

\* The local reader answers once, with something the promise allows.
LEMMA LocalAnswer ==
  ASSUME TypeOK, WalkInv, LocalFollows, LocalNext, result' # result
  PROVE  result = Pending /\ result' \in Replies(disk, wanted)
<1>1. pc # "done" /\ pc' = "done" /\ UNCHANGED <<disk, wanted>>
  <2> USE DEF LocalNext, Finish
  <2>1. CASE Stat \/ OpenFile \/ OpenFails \/ ReadWhole \/ ReadPreamble
    BY <2>1 DEF Stat, OpenFile, OpenFails, ReadWhole, ReadPreamble
  <2>2. CASE WalkTooLong \/ EndOfIndex \/ RefuseNode \/ EnterNode
    BY <2>2 DEF WalkTooLong, EndOfIndex, RefuseNode, EnterNode
  <2>3. CASE ElementUnreadable \/ SkipElement \/ TakeElement \/ ReadBlock \/ LeaveNode
    BY <2>3 DEF ElementUnreadable, SkipElement, TakeElement, ReadBlock, LeaveNode
  <2> QED BY <2>1, <2>2, <2>3 DEF LocalStep
<1>2. result = Pending
  BY <1>1 DEF LocalFollows
<1>3. CASE Indexed
  <2>1. LocalFollows' /\ Indexed'
    BY <1>1, <1>3, LocalFollowsStep DEF Indexed
  <2>2. PICK c \in Seq(Nodes) : LocalOutcome(disk', wanted', c, result')
    BY <1>1, <2>1 DEF LocalFollows
  <2>3. disk \in Files /\ LocalOutcome(disk, wanted, c, result')
    BY <1>1, <1>3, <2>2 DEF Indexed
  <2>4. result' \in BlockReplies(disk, wanted)
    BY <2>3, LocalOutcomeIsPromised
  <2> QED BY <1>2, <1>3, <2>4, IndexedReply
<1>4. CASE ~Indexed
  <2>1. \/ Stat \/ OpenFile \/ OpenFails \/ ReadWhole \/ ReadPreamble
    BY <1>4 DEF LocalNext, LocalStep, LocalFollows, WalkTooLong, EndOfIndex, RefuseNode, EnterNode,
                ElementUnreadable, SkipElement, TakeElement, ReadBlock, LeaveNode
  <2> USE DEF LocalNext, Finish, Replies
  <2>2. CASE Stat
    BY <1>1, <1>2, <2>2, BoundAssumption DEF Stat
  <2>3. CASE OpenFile
    BY <1>1, <1>2, <2>3 DEF OpenFile
  <2>4. CASE OpenFails
    BY <1>2, <2>4, BoundAssumption DEF OpenFails
  <2>5. CASE ReadWhole
    BY <1>2, <2>5 DEF ReadWhole, LocalFollows
  <2>6. CASE ReadPreamble
    <3>1. held = disk /\ disk \in Files /\ IsBlocksFile(disk) /\ wanted # NoIndex
      BY <2>6 DEF ReadPreamble, WalkInv, Unchanged, Reading, TypeOK, LocalTypeOK, LocalFollows
    <3>2. PreambleError(disk) \in Errors /\ result' = Refused(PreambleError(disk))
      BY <1>4, <2>6, <3>1, PreambleErrorType DEF ReadPreamble, Indexed
    <3>3. ~WellFormed(disk)
      BY <1>4, <3>1 DEF WellFormed, Indexed
    <3> QED BY <1>2, <3>1, <3>2, <3>3 DEF BlockReplies
  <2> QED BY <2>1, <2>2, <2>3, <2>4, <2>5, <2>6
<1> QED BY <1>3, <1>4

\* The remote reader too.
LEMMA RemoteAnswer ==
  ASSUME TypeOK, RemoteFollows, RemoteNext, answer' # answer
  PROVE  answer = Pending /\ answer' \in Replies(disk, wanted)
<1>1. stage # "done" /\ stage' = "done" /\ UNCHANGED <<disk, wanted>>
  BY DEF RemoteNext, RemoteStep, Conclude, Fetch, Extract, ParseTooLong, ParseRefused, ParseNode,
         ParsedAll, TakeNamed
<1>2. answer = Pending
  BY <1>1 DEF RemoteFollows
<1>3. CASE Indexed /\ stage \in {"node", "take"}
  <2>1. RemoteFollows' /\ Indexed'
    BY <1>1, <1>3, RemoteFollowsStep DEF Indexed
  <2>2. PICK d \in Seq(Nodes) : RemoteOutcome(disk', wanted', d, answer')
    BY <1>1, <2>1 DEF RemoteFollows
  <2>3. disk \in Files /\ RemoteOutcome(disk, wanted, d, answer')
    BY <1>1, <1>3, <2>2 DEF Indexed
  <2>4. answer' \in BlockReplies(disk, wanted)
    BY <2>3, RemoteOutcomeIsPromised
  <2> QED BY <1>2, <1>3, <2>4, IndexedReply
<1>4. CASE Fetch
  BY <1>2, <1>4 DEF Fetch, Conclude, RemoteNext, Replies
<1>5. CASE Extract
  <2>1. bytes = disk /\ disk \in Files
    BY <1>5 DEF Extract, RemoteFollows
  <2>2. CASE IsBlocksFile(disk) /\ wanted # NoIndex
    <3>1. PreambleError(disk) \in Errors /\ answer' = Refused(PreambleError(disk))
          /\ PreambleError(disk) # "none"
      BY <1>1, <1>5, <2>1, <2>2, PreambleErrorType DEF Extract, Conclude
    <3>2. ~WellFormed(disk)
      BY <3>1 DEF WellFormed
    <3> QED BY <1>2, <2>1, <2>2, <3>1, <3>2 DEF Replies, BlockReplies
  <2>3. CASE ~(IsBlocksFile(disk) /\ wanted # NoIndex)
    BY <1>1, <1>2, <1>5, <2>1, <2>3 DEF Extract, Conclude, Replies
  <2> QED BY <2>2, <2>3
<1>6. Fetch \/ Extract \/ (Indexed /\ stage \in {"node", "take"})
  BY DEF RemoteNext, RemoteStep, RemoteFollows, ParseTooLong, ParseRefused, ParseNode,
         ParsedAll, TakeNamed
<1> QED BY <1>3, <1>4, <1>5, <1>6

\* What resolving a path answers is what BlockPromise promises, on every file: a regular
\* file or nothing at all, plain or indexed, well formed or damaged.
THEOREM LocalImplementsPromise == Spec => LocalKeepsPromise
<1>1. Init => LocalPromise!PromiseInit
  BY DEF Init, RequestInit, LocalInit, LocalPromise!PromiseInit, LocalPromise!RequestInit,
         LocalPromise!Entries, Entries, LocalPromise!Pending, Pending
<1>2. TypeOK /\ WalkInv /\ LocalFollows /\ [Next]_vars
      => [LocalPromise!Reply]_<<disk, wanted, result>>
  <2> SUFFICES ASSUME TypeOK, WalkInv, LocalFollows, [Next]_vars
               PROVE  \/ LocalPromise!Reply
                      \/ UNCHANGED <<disk, wanted, result>>
    OBVIOUS
  <2>1. CASE ReadLocal /\ result' # result
    <3>1. LocalNext /\ UNCHANGED <<disk, wanted>>
      BY <2>1 DEF ReadLocal, LocalNext
    <3>2. result = Pending /\ result' \in Replies(disk, wanted)
      BY <2>1, <3>1, LocalAnswer
    <3>3. result' \in LocalPromise!Replies(disk, wanted)
      BY <3>2, LocalPromiseIsPromise
    <3> QED BY <3>1, <3>2, <3>3 DEF LocalPromise!Reply, LocalPromise!Pending, Pending
  <2>2. CASE ReadLocal /\ result' = result
    BY <2>2 DEF ReadLocal, LocalNext
  <2>3. CASE ReadRemote \/ BothDone \/ UNCHANGED vars
    BY <2>3 DEF ReadRemote, RemoteNext, BothDone, vars, localVars
  <2> QED BY <2>1, <2>2, <2>3 DEF Next
<1> QED
  BY <1>1, <1>2, TypeCorrect, WalkInvHolds, FollowsHolds, PTL
     DEF Spec, LocalKeepsPromise, LocalPromise!Promise

\* What resolving a URL answers is what BlockPromise promises, on every file.
THEOREM RemoteImplementsPromise == Spec => RemoteKeepsPromise
<1>1. Init => RemotePromise!PromiseInit
  BY DEF Init, RequestInit, RemoteInit, RemotePromise!PromiseInit, RemotePromise!RequestInit,
         RemotePromise!Entries, Entries, RemotePromise!Pending, Pending
<1>2. TypeOK /\ RemoteFollows /\ [Next]_vars
      => [RemotePromise!Reply]_<<disk, wanted, answer>>
  <2> SUFFICES ASSUME TypeOK, RemoteFollows, [Next]_vars
               PROVE  \/ RemotePromise!Reply
                      \/ UNCHANGED <<disk, wanted, answer>>
    OBVIOUS
  <2>1. CASE ReadRemote /\ answer' # answer
    <3>1. RemoteNext /\ UNCHANGED <<disk, wanted>>
      BY <2>1 DEF ReadRemote, RemoteNext
    <3>2. answer = Pending /\ answer' \in Replies(disk, wanted)
      BY <2>1, <3>1, RemoteAnswer
    <3>3. answer' \in RemotePromise!Replies(disk, wanted)
      BY <3>2, RemotePromiseIsPromise
    <3> QED BY <3>1, <3>2, <3>3 DEF RemotePromise!Reply, RemotePromise!Pending, Pending
  <2>2. CASE ReadRemote /\ answer' = answer
    BY <2>2 DEF ReadRemote, RemoteNext
  <2>3. CASE ReadLocal \/ BothDone \/ UNCHANGED vars
    BY <2>3 DEF ReadLocal, LocalNext, BothDone, vars, remoteVars
  <2> QED BY <2>1, <2>2, <2>3 DEF Next
<1> QED
  BY <1>1, <1>2, TypeCorrect, FollowsHolds, PTL
     DEF Spec, RemoteKeepsPromise, RemotePromise!Promise
=============================================================================
