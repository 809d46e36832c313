----------------------------- MODULE HeaderProofs -----------------------------
(***************************************************************************)
(* Proofs about the header parser, for every set of documents and every    *)
(* value of the three budgets.                                             *)
(***************************************************************************)
EXTENDS HeaderTree, SequenceTheorems, FiniteSetTheorems, TLAPS

-----------------------------------------------------------------------------
(* Induction, by the least counterexample. *)

\* A set of naturals that is not empty has a least element.
LEMMA LeastNatural ==
  ASSUME NEW T, T \subseteq Nat, T # {}
  PROVE  \E m \in T : \A n \in T : m <= n
<1> DEFINE Segments == {0 .. m : m \in T}
           R == StrictSubsetOrdering(Nat)
<1>1. Segments \subseteq FiniteSubsetsOf(Nat) /\ Segments # {}
  <2>1. ASSUME NEW m \in T
        PROVE  0 .. m \in FiniteSubsetsOf(Nat)
    <3>1. IsFiniteSet(0 .. m)
      BY FS_Interval
    <3> QED BY <3>1 DEF FiniteSubsetsOf
  <2> QED BY <2>1
<1>2. PICK s \in Segments : \A t \in Segments : <<t, s>> \notin R
  <2>1. IsWellFoundedOn(R, FiniteSubsetsOf(Nat))
    BY FS_StrictSubsetOrderingWellFounded
  <2> HIDE DEF Segments, R
  <2> QED BY <1>1, <2>1, WFMin, Zenon
<1>3. PICK m \in T : s = 0 .. m
  OBVIOUS
<1>4. ASSUME NEW n \in T
      PROVE  m <= n
  <2>1. SUFFICES ASSUME n < m PROVE FALSE
    OBVIOUS
  <2>2. 0 .. n \subseteq 0 .. m /\ 0 .. n # 0 .. m
    <3>1. m \in 0 .. m /\ m \notin 0 .. n
      BY <2>1
    <3> QED BY <2>1, <3>1
  <2>3. <<0 .. n, s>> \in R
    BY <1>3, <2>2 DEF StrictSubsetOrdering
  <2> QED BY <1>2, <2>3
<1> QED BY <1>4

-----------------------------------------------------------------------------
(***************************************************************************)
(* The attributes a sequence of elements declares: partial sums, which     *)
(* exist, are unique, and end in Declared.                                 *)
(***************************************************************************)
Countable(s) == Len(s) \in Nat /\ \A k \in 1 .. Len(s) : s[k].tag.attributes \in Nat

SumsUp(s, m, f) == f[0] = 0 /\ \A k \in 1 .. m : f[k] = f[k - 1] + s[k].tag.attributes

PartialSums(s, m, f) ==
  /\ f \in [0 .. m -> Nat]
  /\ f[0] = 0
  /\ \A k \in 1 .. m : f[k] = f[k - 1] + s[k].tag.attributes

LEMMA SumsExtended ==
  ASSUME NEW s, NEW m \in Nat, NEW f, PartialSums(s, m, f), s[m + 1].tag.attributes \in Nat
  PROVE  \E g : PartialSums(s, m + 1, g) /\ g[m + 1] = f[m] + s[m + 1].tag.attributes
<1> DEFINE g == [k \in 0 .. m + 1 |-> IF k = m + 1 THEN f[m] + s[m + 1].tag.attributes ELSE f[k]]
<1>1. g \in [0 .. m + 1 -> Nat] /\ g[0] = 0
  BY DEF PartialSums
<1>2. ASSUME NEW k \in 1 .. m + 1
      PROVE  g[k] = g[k - 1] + s[k].tag.attributes
  <2>1. CASE k = m + 1
    BY <2>1
  <2>2. CASE k \in 1 .. m
    BY <2>2 DEF PartialSums
  <2> QED BY <2>1, <2>2
<1>3. g[m + 1] = f[m] + s[m + 1].tag.attributes
  OBVIOUS
<1> HIDE DEF g
<1>4. PartialSums(s, m + 1, g)
  BY <1>1, <1>2 DEF PartialSums
<1> QED BY <1>3, <1>4

LEMMA SumsExist ==
  ASSUME NEW s, Countable(s)
  PROVE  \E f : PartialSums(s, Len(s), f)
<1> DEFINE T == {m \in 0 .. Len(s) : ~\E f : PartialSums(s, m, f)}
<1>1. SUFFICES ASSUME T # {} PROVE FALSE
  BY DEF Countable
<1>2. PICK m \in T : \A n \in T : m <= n
  <2>1. T \subseteq Nat
    BY DEF Countable
  <2> HIDE DEF T
  <2> QED BY <1>1, <2>1, LeastNatural
<1>3. CASE m = 0
  <2>1. PartialSums(s, 0, [k \in 0 .. 0 |-> 0])
    BY DEF PartialSums
  <2> QED BY <1>3, <2>1
<1>4. CASE m # 0
  <2>1. m - 1 \in 0 .. Len(s) /\ m \in 1 .. Len(s)
    BY <1>4 DEF Countable
  <2>2. PICK f : PartialSums(s, m - 1, f)
    BY <1>2, <2>1
  <2>3. \E g : PartialSums(s, m, g)
    <3>1. s[(m - 1) + 1].tag.attributes \in Nat /\ m - 1 \in Nat /\ (m - 1) + 1 = m
      BY <2>1 DEF Countable
    <3> QED BY <2>2, <3>1, SumsExtended
  <2> QED BY <2>3
<1> QED BY <1>3, <1>4

LEMMA SumsAgree ==
  ASSUME NEW s, NEW m \in Nat, NEW f, NEW g, PartialSums(s, m, f), SumsUp(s, m, g)
  PROVE  \A k \in 0 .. m : f[k] = g[k]
<1> DEFINE T == {k \in 0 .. m : f[k] # g[k]}
<1>1. SUFFICES ASSUME T # {} PROVE FALSE
  OBVIOUS
<1>2. PICK k \in T : \A n \in T : k <= n
  <2>1. T \subseteq Nat
    OBVIOUS
  <2> HIDE DEF T
  <2> QED BY <1>1, <2>1, LeastNatural
<1>3. k # 0
  BY DEF PartialSums, SumsUp
<1>4. k - 1 \in 0 .. m /\ k \in 1 .. m
  BY <1>3
<1>5. f[k - 1] = g[k - 1]
  BY <1>2, <1>4
<1> QED BY <1>4, <1>5 DEF PartialSums, SumsUp

\* Declared is the last of the partial sums.
LEMMA DeclaredIsSum ==
  ASSUME NEW s, Countable(s), NEW f, PartialSums(s, Len(s), f)
  PROVE  Declared(s) = f[Len(s)]
<1> DEFINE n == Len(s)
           Def(g) == g = [k \in 0 .. n |-> IF k = 0 THEN 0 ELSE g[k - 1] + s[k].tag.attributes]
           sum == CHOOSE g : Def(g)
<1>1. n \in Nat
  BY DEF Countable
<1>2. Def(f)
  BY <1>1 DEF PartialSums
<1>3. Def(sum)
  <2> HIDE DEF Def
  <2> QED BY <1>2
<1>4. sum[0] = 0 /\ \A k \in 1 .. n : sum[k] = sum[k - 1] + s[k].tag.attributes
  <2> HIDE DEF sum
  <2> QED BY <1>1, <1>3
<1>5. f[n] = sum[n]
  <2> HIDE DEF sum, Def
  <2>1. PartialSums(s, n, f)
    OBVIOUS
  <2> HIDE DEF n
  <2>2. SumsUp(s, n, sum)
    BY <1>4 DEF SumsUp
  <2>3. \A k \in 0 .. n : f[k] = sum[k]
    BY <1>1, <2>1, <2>2, SumsAgree
  <2> QED BY <1>1, <2>3
<1>6. Declared(s) = sum[n]
  BY DEF Declared
<1> QED BY <1>5, <1>6

\* Sequences that declare the same, element by element.
LEMMA DeclaredAlike ==
  ASSUME NEW s, NEW t, Countable(s), Len(t) = Len(s),
         \A k \in 1 .. Len(s) : t[k].tag.attributes = s[k].tag.attributes
  PROVE  Countable(t) /\ Declared(t) = Declared(s)
<1>1. PICK f : PartialSums(s, Len(s), f)
  BY SumsExist
<1>2. PartialSums(t, Len(t), f)
  BY <1>1 DEF PartialSums
<1>3. Countable(t)
  BY DEF Countable
<1> QED BY <1>1, <1>2, <1>3, DeclaredIsSum

LEMMA DeclaredNothing == Countable(<<>>) /\ Declared(<<>>) = 0
<1>1. PartialSums(<<>>, 0, [k \in 0 .. 0 |-> 0])
  BY DEF PartialSums
<1>2. Countable(<<>>)
  BY DEF Countable
<1> QED BY <1>1, <1>2, DeclaredIsSum

\* One element more declares what it declares more.
LEMMA DeclaredOneMore ==
  ASSUME NEW s, NEW t, Countable(s), Len(t) = Len(s) + 1,
         \A k \in 1 .. Len(s) : t[k] = s[k], t[Len(t)].tag.attributes \in Nat
  PROVE  /\ Countable(t)
         /\ Declared(s) \in Nat
         /\ Declared(t) = Declared(s) + t[Len(t)].tag.attributes
<1>1. Len(s) \in Nat
  BY DEF Countable
<1>2. Countable(t)
  BY <1>1 DEF Countable
<1>3. PICK f : PartialSums(s, Len(s), f)
  BY SumsExist
<1>4. PartialSums(t, Len(s), f)
  BY <1>1, <1>3 DEF PartialSums
<1>5. PICK g : PartialSums(t, Len(t), g) /\ g[Len(t)] = f[Len(s)] + t[Len(t)].tag.attributes
  BY <1>1, <1>4, SumsExtended
<1>6. Declared(t) = g[Len(t)] /\ Declared(s) = f[Len(s)]
  BY <1>2, <1>3, <1>5, DeclaredIsSum
<1>7. f[Len(s)] \in Nat
  BY <1>1, <1>3 DEF PartialSums
<1> QED BY <1>2, <1>5, <1>6, <1>7

-----------------------------------------------------------------------------
(* Types *)

Pieces == Inks \cup {Blank}
Field == STRING \cup {None}

Element ==
  [n : Nat, tag : Kind, depth : Nat, parent : Nat, text : Seq(Pieces),
   location : Field, compression : Field, checksum : Field]

TypeInv ==
  /\ unread \in Seq(Events)
  /\ stack \in Seq(Element) /\ tree \in Seq(Element)
  /\ root \in BOOLEAN
  /\ counted \in Nat /\ attributes \in Nat /\ serial \in Nat

LEMMA EventType ==
  ASSUME NEW e \in Events
  PROVE  /\ e.event \in {"start", "empty"} => e.tag \in Kind
         /\ e.event = "text" => e.piece \in Pieces
<1>1. CASE e \in {StartOf(k) : k \in Kinds}
  BY <1>1, DocumentAssumption DEF StartOf
<1>2. CASE e \in {EmptyOf(k) : k \in Kinds}
  BY <1>2, DocumentAssumption DEF EmptyOf
<1>3. CASE e \in {TextOf(p) : p \in Inks \cup {Blank}}
  BY <1>3 DEF TextOf, Pieces
<1>4. CASE e \in {EndOf, ErrorOf}
  BY <1>4 DEF EndOf, ErrorOf
<1> QED BY <1>1, <1>2, <1>3, <1>4 DEF Events

LEMMA KindType ==
  ASSUME NEW kind \in Kind
  PROVE  /\ kind.attributes \in Nat
         /\ kind.location \in Field /\ kind.compression \in Field /\ kind.checksum \in Field
         /\ kind.encoding \in Field
BY DEF Kind, Field

LEMMA ElementFields ==
  ASSUME NEW e \in Element
  PROVE  /\ e.n \in Nat /\ e.depth \in Nat /\ e.parent \in Nat /\ e.tag \in Kind
         /\ e.location \in Field /\ e.compression \in Field /\ e.checksum \in Field
         /\ e.text \in Seq(Pieces) /\ e.tag.attributes \in Nat /\ e.tag.encoding \in Field
<1>1. e.tag \in Kind
  BY DEF Element
<1> QED BY <1>1, KindType DEF Element

LEMMA SeqAt ==
  ASSUME NEW S, NEW s \in Seq(S), NEW k \in 1 .. Len(s)
  PROVE  s[k] \in S
OBVIOUS

LEMMA SeqMore ==
  ASSUME NEW S, NEW s \in Seq(S), NEW e \in S
  PROVE  /\ Append(s, e) \in Seq(S) /\ Len(Append(s, e)) = Len(s) + 1
         /\ Append(s, e)[Len(s) + 1] = e
         /\ \A k \in 1 .. Len(s) : Append(s, e)[k] = s[k]
         /\ Len(s) \in Nat
OBVIOUS

LEMMA SeqFront ==
  ASSUME NEW S, NEW s \in Seq(S), s # <<>>
  PROVE  /\ SubSeq(s, 1, Len(s) - 1) \in Seq(S) /\ Len(SubSeq(s, 1, Len(s) - 1)) = Len(s) - 1
         /\ \A k \in 1 .. Len(s) - 1 : SubSeq(s, 1, Len(s) - 1)[k] = s[k]
         /\ Len(s) \in Nat /\ Len(s) \in 1 .. Len(s) /\ s[Len(s)] \in S
<1>1. Len(s) \in Nat /\ Len(s) # 0
  BY EmptySeq
<1>2. \A k \in 1 .. Len(s) - 1 : s[k] \in S
  BY <1>1
<1> DEFINE n == Len(s) - 1
           t == SubSeq(s, 1, n)
<1>3. n \in Int /\ 0 <= n /\ Len(s) = n + 1
  BY <1>1
<1>4. /\ t \in Seq(S) /\ Len(t) = IF 1 <= n THEN n - 1 + 1 ELSE 0
      /\ \A k \in 1 .. n - 1 + 1 : t[k] = s[1 + k - 1]
  <2>1. 1 \in Int /\ n \in Int /\ \A k \in 1 .. n : s[k] \in S
    BY <1>2, <1>3
  <2> HIDE DEF n
  <2> QED BY <2>1, SubSeqProperties
<1> HIDE DEF n, t
<1>5. Len(t) = n
  BY <1>3, <1>4
<1>6. \A k \in 1 .. n : t[k] = s[k]
  BY <1>3, <1>4
<1>7. Len(s) \in 1 .. Len(s) /\ s[Len(s)] \in S
  BY <1>1
<1> QED BY <1>1, <1>3, <1>4, <1>5, <1>6, <1>7 DEF n, t

LEMMA SeqEdited ==
  ASSUME NEW S, NEW s \in Seq(S), NEW m \in 1 .. Len(s), NEW e \in S
  PROVE  /\ [s EXCEPT ![m] = e] \in Seq(S)
         /\ Len([s EXCEPT ![m] = e]) = Len(s)
         /\ [s EXCEPT ![m] = e][m] = e
         /\ \A k \in 1 .. Len(s) : k # m => [s EXCEPT ![m] = e][k] = s[k]
OBVIOUS

LEMMA ElementFromType ==
  ASSUME TypeInv, NEW kind \in Kind
  PROVE  ElementFrom(kind) \in Element
<1>1. (IF stack = <<>> THEN 0 ELSE stack[Len(stack)].n) \in Nat
  <2>1. stack # <<>> => stack[Len(stack)] \in Element
    BY SeqFront DEF TypeInv
  <2> QED BY <2>1, ElementFields
<1>2. serial + 1 \in Nat /\ Len(stack) + 1 \in Nat /\ <<>> \in Seq(Pieces)
  BY DEF TypeInv
<1> QED BY <1>1, <1>2, KindType DEF ElementFrom, Element

\* What <Data> says of its parent's block leaves what places the parent in the tree alone.
LEMMA PromoteType ==
  ASSUME NEW p \in Element, NEW d \in Element
  PROVE  /\ Promote(p, d) \in Element
         /\ Promote(p, d).n = p.n /\ Promote(p, d).tag = p.tag
         /\ Promote(p, d).depth = p.depth /\ Promote(p, d).parent = p.parent
         /\ Promote(p, d).location = Relocated(p, d)
         /\ Promote(p, d).compression = OrElse(p.compression, d.compression)
         /\ Promote(p, d).checksum = OrElse(p.checksum, d.checksum)
         /\ Promote(p, d).text = IF IsBlank(p.text) THEN d.text ELSE p.text
<1>1. /\ Relocated(p, d) \in Field
      /\ OrElse(p.compression, d.compression) \in Field
      /\ OrElse(p.checksum, d.checksum) \in Field
      /\ (IF IsBlank(p.text) THEN d.text ELSE p.text) \in Seq(Pieces)
  BY ElementFields DEF Relocated, OrElse
<1> QED BY <1>1 DEF Promote, Element

-----------------------------------------------------------------------------
(***************************************************************************)
(* What a step does to the tree.  An empty tag is a start tag and its end  *)
(* in one step.                                                            *)
(***************************************************************************)
\* st2, tr2 and rt2 are what is left when the innermost element of st is finished.
Closed(st, tr, rt, st2, tr2, rt2) ==
  LET e == st[Len(st)]
  IN  /\ rt2 <=> (rt \/ Len(st) = 1)
      /\ tr2 = IF rt THEN tr ELSE Append(tr, e)
      /\ st2 \in Seq(Element) /\ Len(st2) = Len(st) - 1
      /\ \A k \in 1 .. Len(st2) :
           st2[k] = IF k = Len(st2) /\ Is(e, "Data") THEN Promote(st[k], e) ELSE st[k]

\* Elements that differ in their text at most, and only by what is added to it.
Alike(d, e) ==
  /\ Begins(d.text, e.text)
  /\ d.n = e.n /\ d.tag = e.tag /\ d.depth = e.depth /\ d.parent = e.parent
  /\ d.location = e.location /\ d.compression = e.compression /\ d.checksum = e.checksum

Idle == UNCHANGED <<stack, tree, root, counted, attributes, serial>>

Texts ==
  /\ stack' \in Seq(Element)
  /\ Len(stack') = Len(stack)
  /\ \A k \in 1 .. Len(stack) : Alike(stack'[k], stack[k])
  /\ UNCHANGED <<tree, root, counted, attributes, serial>>

Budgeted(kind) ==
  /\ Counted(kind)
  /\ counted + 1 <= MaxElements
  /\ attributes + kind.attributes <= MaxAttributes

Opens(kind) ==
  /\ Budgeted(kind)
  /\ Len(stack) < MaxDepth
  /\ stack' = Append(stack, ElementFrom(kind))
  /\ UNCHANGED <<tree, root>>

SelfCloses(kind) ==
  /\ Budgeted(kind)
  /\ Closed(Append(stack, ElementFrom(kind)), tree, root, stack', tree', root')

Closes ==
  /\ stack # <<>>
  /\ Closed(stack, tree, root, stack', tree', root')
  /\ UNCHANGED <<counted, attributes, serial>>

LEMMA FinishCloses ==
  ASSUME TypeInv, NEW open \in Seq(Element), NEW e \in Element, FinishIn(open, e),
         NEW st, Len(st) = Len(open) + 1, st[Len(st)] = e,
         \A k \in 1 .. Len(open) : st[k] = open[k]
  PROVE  Closed(st, tree, root, stack', tree', root')
<1>1. Len(open) \in Nat /\ root \in BOOLEAN /\ tree \in Seq(Element)
  BY DEF TypeInv
<1>2. /\ tree' = IF root THEN tree ELSE Append(tree, e)
      /\ tree' \in Seq(Element)
  <2>1. tree' = IF root THEN tree ELSE Append(tree, e)
    BY <1>1 DEF FinishIn
  <2>2. Append(tree, e) \in Seq(Element)
    BY <1>1
  <2> QED BY <1>1, <2>1, <2>2
<1>3. CASE open = <<>>
  <2>1. stack' = <<>> /\ root' = TRUE /\ Len(open) = 0
    BY <1>3 DEF FinishIn
  <2> QED BY <1>2, <2>1 DEF Closed
<1>4. CASE open # <<>>
  <2>1. Len(open) \in 1 .. Len(open) /\ open[Len(open)] \in Element
    BY <1>1, <1>4, SeqFront
  <2>2. Promote(open[Len(open)], e) \in Element
    BY <2>1, PromoteType
  <2> DEFINE edited == [open EXCEPT ![Len(open)] = Promote(open[Len(open)], e)]
  <2>3. stack' = IF Is(e, "Data") THEN edited ELSE open
    BY <1>4 DEF FinishIn
  <2>4. /\ edited \in Seq(Element) /\ Len(edited) = Len(open)
        /\ edited[Len(open)] = Promote(open[Len(open)], e)
        /\ \A k \in 1 .. Len(open) : k # Len(open) => edited[k] = open[k]
    BY <2>1, <2>2, SeqEdited
  <2> HIDE DEF edited
  <2>5. stack' \in Seq(Element) /\ Len(stack') = Len(open)
    BY <2>3, <2>4
  <2>6. ASSUME NEW k \in 1 .. Len(stack')
        PROVE  stack'[k] = IF k = Len(stack') /\ Is(e, "Data") THEN Promote(st[k], e) ELSE st[k]
    BY <2>3, <2>4, <2>5, <2>6
  <2>7. root' = root
    BY <1>4 DEF FinishIn
  <2>8. Len(open) # 0 /\ Len(st) # 1
    BY <1>1, <2>1
  <2>9. root' <=> root \/ Len(st) = 1
    BY <2>7, <2>8
  <2> QED BY <1>1, <1>2, <2>5, <2>6, <2>7, <2>9 DEF Closed
<1> QED BY <1>3, <1>4

\* A start tag that is not refused keeps the budgets.
LEMMA TagBudgets ==
  ASSUME TypeInv, NEW kind \in Kind, NEW opens \in BOOLEAN, TagErrors(kind, opens) = {}
  PROVE  /\ counted + 1 <= MaxElements /\ attributes + kind.attributes <= MaxAttributes
         /\ opens => Len(stack) < MaxDepth
<1>1. /\ counted \in Nat /\ attributes \in Nat /\ kind.attributes \in Nat /\ Len(stack) \in Nat
      /\ MaxElements \in Nat /\ MaxAttributes \in Nat /\ MaxDepth \in Nat
  BY KindType, LimitsAssumption DEF TypeInv
<1>2. ~(counted + 1 > MaxElements \/ (opens /\ Len(stack) >= MaxDepth))
  BY DEF TagErrors
<1>3. ~(attributes + kind.attributes > MaxAttributes)
  BY <1>2 DEF TagErrors
<1> QED BY <1>1, <1>2, <1>3

LEMMA StepMoves ==
  ASSUME TypeInv, [Next]_vars
  PROVE  \/ Idle
         \/ Texts
         \/ \E kind \in Kind : Opens(kind)
         \/ \E kind \in Kind : SelfCloses(kind)
         \/ Closes
<1>1. unread # <<>> => Head(unread) \in Events
  BY DEF TypeInv
<1>2. CASE StartTag
  <2> DEFINE kind == Head(unread).tag
  <2>1. kind \in Kind
    BY <1>1, <1>2, EventType DEF StartTag, Reads
  <2>2. CASE \E error \in TagErrors(kind, TRUE) : Refuse(error)
    BY <2>2 DEF Refuse, Idle
  <2>3. CASE /\ TagErrors(kind, TRUE) = {}
             /\ Counted(kind)
             /\ stack' = Append(stack, ElementFrom(kind))
             /\ UNCHANGED <<tree, root, verdict>>
    <3>1. Opens(kind)
      BY <2>1, <2>3, TagBudgets DEF Opens, Budgeted
    <3> QED BY <2>1, <3>1
  <2> QED BY <1>2, <2>2, <2>3 DEF StartTag
<1>3. CASE EmptyTag
  <2> DEFINE kind == Head(unread).tag
  <2>1. kind \in Kind
    BY <1>1, <1>3, EventType DEF EmptyTag, Reads
  <2>2. CASE \E error \in TagErrors(kind, FALSE) : Refuse(error)
    BY <2>2 DEF Refuse, Idle
  <2>3. CASE /\ TagErrors(kind, FALSE) = {}
             /\ Counted(kind)
             /\ FinishIn(stack, ElementFrom(kind))
    <3>1. Budgeted(kind)
      BY <2>1, <2>3, TagBudgets DEF Budgeted
    <3>2. stack \in Seq(Element) /\ ElementFrom(kind) \in Element
      BY <2>1, ElementFromType DEF TypeInv
    <3> DEFINE st == Append(stack, ElementFrom(kind))
    <3>3. Closed(st, tree, root, stack', tree', root')
      <4>1. /\ Len(st) = Len(stack) + 1 /\ st[Len(st)] = ElementFrom(kind)
            /\ \A k \in 1 .. Len(stack) : st[k] = stack[k]
        BY <3>2, SeqMore
      <4> HIDE DEF st
      <4> QED BY <2>3, <3>2, <4>1, FinishCloses
    <3> QED BY <2>1, <3>1, <3>3 DEF SelfCloses
  <2> QED BY <1>3, <2>2, <2>3 DEF EmptyTag
<1>4. CASE EndTag
  <2>1. CASE stack = <<>> /\ Refuse("BadHeader")
    BY <2>1 DEF Refuse, Idle
  <2>2. CASE /\ stack # <<>>
             /\ FinishIn(SubSeq(stack, 1, Len(stack) - 1), stack[Len(stack)])
             /\ UNCHANGED <<counted, attributes, serial, verdict>>
    <3> DEFINE open == SubSeq(stack, 1, Len(stack) - 1)
    <3>1. /\ open \in Seq(Element) /\ Len(open) = Len(stack) - 1
          /\ \A k \in 1 .. Len(stack) - 1 : open[k] = stack[k]
          /\ Len(stack) \in Nat /\ stack[Len(stack)] \in Element
      BY <2>2, SeqFront DEF TypeInv
    <3> HIDE DEF open
    <3>2. FinishIn(open, stack[Len(stack)])
      BY <2>2 DEF open
    <3>3. Closed(stack, tree, root, stack', tree', root')
      BY <3>1, <3>2, FinishCloses
    <3> QED BY <2>2, <3>3 DEF Closes
  <2> QED BY <1>4, <2>1, <2>2 DEF EndTag
<1>5. CASE CharacterData
  <2>1. CASE stack = <<>>
    BY <1>5, <2>1 DEF CharacterData, Idle
  <2>2. CASE stack # <<>>
    <3> DEFINE m == Len(stack)
               text == Append(stack[m].text, Head(unread).piece)
               e == [stack[m] EXCEPT !.text = text]
    <3>1. stack \in Seq(Element) /\ m \in 1 .. Len(stack) /\ stack[m] \in Element
      BY <2>2, SeqFront DEF TypeInv
    <3>2. Head(unread).piece \in Pieces
      BY <1>1, <1>5, EventType DEF CharacterData, Reads
    <3>3. text \in Seq(Pieces)
      BY <3>1, <3>2, ElementFields
    <3>4. e \in Element
      BY <3>1, <3>3 DEF Element
    <3>5. stack' = [stack EXCEPT ![m] = e]
      BY <1>5, <2>2 DEF CharacterData
    <3>6. Alike(e, stack[m])
      <4>1. stack[m].text \in Seq(Pieces)
        BY <3>1, ElementFields
      <4>2. Begins(text, stack[m].text)
        BY <3>2, <4>1, SeqMore DEF Begins
      <4> HIDE DEF text
      <4> QED BY <3>1, <4>2 DEF Alike, Element
    <3>7. /\ stack' \in Seq(Element) /\ Len(stack') = Len(stack) /\ stack'[m] = e
          /\ \A k \in 1 .. Len(stack) : k # m => stack'[k] = stack[k]
      <4> HIDE DEF e, m
      <4> QED BY <3>1, <3>4, <3>5, SeqEdited
    <3> HIDE DEF m, e
    <3>8. \A k \in 1 .. Len(stack) : Alike(stack'[k], stack[k])
      <4>1. ASSUME NEW k \in 1 .. Len(stack), k # m
            PROVE  Alike(stack'[k], stack[k])
        <5>1. stack[k] \in Element
          BY SeqAt DEF TypeInv
        <5>2. stack[k].text \in Seq(Pieces)
          BY <5>1, ElementFields
        <5>3. Begins(stack[k].text, stack[k].text)
          BY <5>2 DEF Begins
        <5> QED BY <3>7, <4>1, <5>3 DEF Alike
      <4> QED BY <3>6, <3>7, <4>1
    <3> QED BY <1>5, <3>7, <3>8 DEF CharacterData, Texts
  <2> QED BY <2>1, <2>2
<1>6. CASE Malformed \/ EndOfDocument \/ Judged \/ UNCHANGED vars
  BY <1>6 DEF Malformed, Refuse, EndOfDocument, Judged, vars, Idle
<1> QED BY <1>2, <1>3, <1>4, <1>5, <1>6 DEF Next

\* The stack that a self-closing tag would open and close at once.
LEMMA Opened ==
  ASSUME TypeInv, NEW kind \in Kind, NEW st, st = Append(stack, ElementFrom(kind))
  PROVE  /\ st \in Seq(Element) /\ Len(st) = Len(stack) + 1 /\ Len(stack) \in Nat
         /\ st[Len(stack) + 1] = ElementFrom(kind)
         /\ \A k \in 1 .. Len(stack) : st[k] = stack[k]
BY ElementFromType, SeqMore DEF TypeInv

LEMMA ClosedType ==
  ASSUME NEW st \in Seq(Element), NEW tr \in Seq(Element), NEW rt \in BOOLEAN, Len(st) # 0,
         NEW st2, NEW tr2, NEW rt2, Closed(st, tr, rt, st2, tr2, rt2)
  PROVE  st2 \in Seq(Element) /\ tr2 \in Seq(Element)
<1>1. st[Len(st)] \in Element
  OBVIOUS
<1>2. Append(tr, st[Len(st)]) \in Seq(Element)
  BY <1>1, SeqMore
<1> QED BY <1>2 DEF Closed

LEMMA TypeInvStep ==
  ASSUME TypeInv, [Next]_vars
  PROVE  TypeInv'
<1>1. unread' \in Seq(Events)
  <2>1. unread \in Seq(Events) /\ (unread # <<>> => Tail(unread) \in Seq(Events))
    BY DEF TypeInv
  <2> QED
    BY <2>1
       DEF Next, StartTag, EmptyTag, EndTag, CharacterData, Malformed, Reads, EndOfDocument,
           Judged, vars
<1>2. root' \in BOOLEAN
  BY Zenon
     DEF TypeInv, Next, StartTag, EmptyTag, EndTag, CharacterData, Malformed, Refuse, FinishIn,
         EndOfDocument, Judged, vars
<1>3. /\ stack' \in Seq(Element) /\ tree' \in Seq(Element)
      /\ counted' \in Nat /\ attributes' \in Nat /\ serial' \in Nat
  <2>1. CASE Idle \/ Texts
    BY <2>1 DEF Idle, Texts, TypeInv
  <2>2. ASSUME NEW kind \in Kind, Opens(kind)
        PROVE  /\ stack' \in Seq(Element) /\ tree' \in Seq(Element)
               /\ counted' \in Nat /\ attributes' \in Nat /\ serial' \in Nat
    <3>1. stack' = Append(stack, ElementFrom(kind)) /\ tree' = tree /\ Counted(kind)
      BY <2>2 DEF Opens, Budgeted
    <3>2. stack' \in Seq(Element)
      BY <3>1, Opened
    <3>3. counted' \in Nat /\ attributes' \in Nat /\ serial' \in Nat
      BY <3>1, KindType DEF Counted, TypeInv
    <3> QED BY <3>1, <3>2, <3>3 DEF TypeInv
  <2>3. ASSUME NEW kind \in Kind, SelfCloses(kind)
        PROVE  /\ stack' \in Seq(Element) /\ tree' \in Seq(Element)
               /\ counted' \in Nat /\ attributes' \in Nat /\ serial' \in Nat
    <3>1. PICK st : st = Append(stack, ElementFrom(kind))
      OBVIOUS
    <3>2. st \in Seq(Element) /\ Len(st) # 0
      <4>1. st \in Seq(Element) /\ Len(st) = Len(stack) + 1 /\ Len(stack) \in Nat
        BY <3>1, Opened
      <4> QED BY <4>1
    <3>3. tree \in Seq(Element) /\ root \in BOOLEAN
      BY DEF TypeInv
    <3>4. stack' \in Seq(Element) /\ tree' \in Seq(Element)
      BY <2>3, <3>1, <3>2, <3>3, ClosedType DEF SelfCloses
    <3> QED BY <2>3, <3>4, KindType DEF SelfCloses, Budgeted, Counted, TypeInv
  <2>4. CASE Closes
    <3>1. stack \in Seq(Element) /\ Len(stack) # 0 /\ tree \in Seq(Element) /\ root \in BOOLEAN
      BY <2>4, EmptySeq DEF Closes, TypeInv
    <3>2. stack' \in Seq(Element) /\ tree' \in Seq(Element)
      BY <2>4, <3>1, ClosedType DEF Closes
    <3> QED BY <2>4, <3>2 DEF Closes, TypeInv
  <2> QED BY <2>1, <2>2, <2>3, <2>4, StepMoves
<1> QED BY <1>1, <1>2, <1>3 DEF TypeInv

LEMMA TypeInvHolds == Spec => []TypeInv
<1>1. Init => TypeInv
  <2> SUFFICES ASSUME Init PROVE TypeInv
    OBVIOUS
  <2>1. unread \in Seq(Events)
    BY DocumentAssumption DEF Init
  <2>2. <<>> \in Seq(Element)
    OBVIOUS
  <2> QED BY <2>1, <2>2 DEF Init, TypeInv
<1>2. TypeInv /\ [Next]_vars => TypeInv'
  BY TypeInvStep
<1> QED BY <1>1, <1>2, PTL DEF Spec

-----------------------------------------------------------------------------
(***************************************************************************)
(* The budgets.  What is in the tree and on the stack is at most what was  *)
(* counted, which is at most the budget.                                   *)
(***************************************************************************)
BudgetInv ==
  /\ Countable(tree) /\ Countable(stack)
  /\ Declared(tree) \in Nat /\ Declared(stack) \in Nat
  /\ Len(tree) + Len(stack) <= counted
  /\ counted <= MaxElements
  /\ Declared(tree) + Declared(stack) <= attributes
  /\ attributes <= MaxAttributes
  /\ \A k \in 1 .. Len(stack) : stack[k].depth = k /\ k <= MaxDepth

\* Finishing an element moves what it declares from the stack to the tree, or drops it.
LEMMA BudgetClosed ==
  ASSUME NEW st \in Seq(Element), NEW tr \in Seq(Element), NEW rt \in BOOLEAN, Len(st) # 0,
         NEW st2, NEW tr2, NEW rt2, Closed(st, tr, rt, st2, tr2, rt2),
         Countable(st), Countable(tr), Declared(tr) \in Nat
  PROVE  /\ Countable(st2) /\ Countable(tr2) /\ Declared(tr2) \in Nat /\ Declared(st2) \in Nat
         /\ Len(tr2) + Len(st2) <= Len(tr) + Len(st)
         /\ Declared(tr2) + Declared(st2) <= Declared(tr) + Declared(st)
<1> DEFINE e == st[Len(st)]
           open == SubSeq(st, 1, Len(st) - 1)
<1>1. st # <<>> /\ Len(st) \in Nat /\ Len(tr) \in Nat
  BY DEF Countable
<1>2. /\ open \in Seq(Element) /\ Len(open) = Len(st) - 1
      /\ \A k \in 1 .. Len(st) - 1 : open[k] = st[k]
      /\ e \in Element /\ Len(st) \in 1 .. Len(st)
  BY <1>1, SeqFront
<1>3. e.tag.attributes \in Nat
  BY <1>2, ElementFields
<1> HIDE DEF open
<1>4. Countable(open)
  BY <1>1, <1>2 DEF Countable
<1>5. Declared(open) \in Nat /\ Declared(st) = Declared(open) + e.tag.attributes
  <2>1. Len(st) = Len(open) + 1 /\ \A k \in 1 .. Len(open) : st[k] = open[k]
    BY <1>1, <1>2
  <2> QED BY <1>3, <1>4, <2>1, DeclaredOneMore
<1>6. Countable(st2) /\ Declared(st2) = Declared(open) /\ Len(st2) = Len(open)
  <2>1. Len(st2) = Len(open)
    BY <1>2 DEF Closed
  <2>2. ASSUME NEW k \in 1 .. Len(open)
        PROVE  st2[k].tag.attributes = open[k].tag.attributes
    <3>1. k \in 1 .. Len(st) - 1 /\ k \in 1 .. Len(st) /\ st[k] \in Element /\ open[k] = st[k]
      BY <1>1, <1>2
    <3>2. st2[k] = IF k = Len(st2) /\ Is(e, "Data") THEN Promote(st[k], e) ELSE st[k]
      BY <2>1 DEF Closed
    <3>3. Promote(st[k], e).tag = st[k].tag
      BY <1>2, <3>1, PromoteType
    <3> QED BY <3>1, <3>2, <3>3
  <2> QED BY <1>4, <2>1, <2>2, DeclaredAlike
<1> HIDE DEF e
<1>7. /\ Countable(tr2) /\ Declared(tr2) \in Nat /\ Len(tr2) <= Len(tr) + 1
      /\ Declared(tr2) <= Declared(tr) + e.tag.attributes
  <2>1. CASE rt
    <3>1. tr2 = tr
      BY <2>1 DEF Closed
    <3> QED BY <1>1, <1>3, <3>1
  <2>2. CASE ~rt
    <3>1. tr2 = Append(tr, e)
      BY <2>2 DEF Closed, e
    <3>2. /\ Len(tr2) = Len(tr) + 1 /\ tr2[Len(tr2)] = e
          /\ \A k \in 1 .. Len(tr) : tr2[k] = tr[k]
      BY <1>2, <3>1, SeqMore
    <3>3. Countable(tr2) /\ Declared(tr2) = Declared(tr) + e.tag.attributes
      BY <1>3, <3>2, DeclaredOneMore
    <3> QED BY <1>1, <1>3, <3>2, <3>3
  <2> QED BY <2>1, <2>2
<1>8. Len(tr2) \in Nat
  BY <1>7 DEF Countable
<1>9. Len(tr2) + Len(st2) <= Len(tr) + Len(st)
  <2>1. Len(tr2) <= Len(tr) + 1 /\ Len(st2) = Len(st) - 1
    BY <1>2, <1>6, <1>7
  <2> QED BY <1>1, <1>8, <2>1
<1>10. Declared(tr2) + Declared(st2) <= Declared(tr) + Declared(st)
  <2>1. /\ Declared(tr2) <= Declared(tr) + e.tag.attributes
        /\ Declared(st) = Declared(st2) + e.tag.attributes
        /\ Declared(tr2) \in Nat /\ Declared(st2) \in Nat
    BY <1>5, <1>6, <1>7
  <2> HIDE DEF Declared
  <2> QED BY <1>3, <2>1
<1>11. Declared(st2) \in Nat /\ Countable(st2)
  BY <1>5, <1>6
<1>12. Declared(tr2) \in Nat /\ Countable(tr2)
  BY <1>7
<1> QED BY <1>9, <1>10, <1>11, <1>12

LEMMA DepthClosed ==
  ASSUME NEW st \in Seq(Element), NEW tr, NEW rt, Len(st) # 0,
         NEW st2, NEW tr2, NEW rt2, Closed(st, tr, rt, st2, tr2, rt2)
  PROVE  /\ Len(st2) \in Nat /\ Len(st2) < Len(st)
         /\ \A k \in 1 .. Len(st2) :
              /\ k \in 1 .. Len(st)
              /\ st2[k].n = st[k].n /\ st2[k].tag = st[k].tag
              /\ st2[k].depth = st[k].depth /\ st2[k].parent = st[k].parent
<1>1. Len(st2) = Len(st) - 1 /\ Len(st) \in Nat /\ st[Len(st)] \in Element
  BY DEF Closed
<1>2. ASSUME NEW k \in 1 .. Len(st2)
      PROVE  /\ k \in 1 .. Len(st)
             /\ st2[k].n = st[k].n /\ st2[k].tag = st[k].tag
             /\ st2[k].depth = st[k].depth /\ st2[k].parent = st[k].parent
  <2>1. k \in 1 .. Len(st) /\ st[k] \in Element
    BY <1>1
  <2>2. st2[k] = st[k] \/ st2[k] = Promote(st[k], st[Len(st)])
    BY DEF Closed
  <2> QED BY <1>1, <2>1, <2>2, PromoteType
<1> QED BY <1>1, <1>2

LEMMA BudgetStep ==
  ASSUME TypeInv, BudgetInv, [Next]_vars
  PROVE  BudgetInv'
<1>1. CASE Idle
  BY <1>1 DEF Idle, BudgetInv
<1>2. CASE Texts
  <2>1. /\ Countable(stack) /\ Len(stack') = Len(stack)
        /\ \A k \in 1 .. Len(stack) : /\ stack'[k].tag.attributes = stack[k].tag.attributes
                                      /\ stack'[k].depth = stack[k].depth
    BY <1>2 DEF Texts, Alike, BudgetInv
  <2>2. Countable(stack') /\ Declared(stack') = Declared(stack)
    BY <2>1, DeclaredAlike
  <2> QED BY <1>2, <2>1, <2>2 DEF Texts, BudgetInv
<1>3. ASSUME NEW kind \in Kind, Budgeted(kind), NEW st, st = Append(stack, ElementFrom(kind))
      PROVE  /\ st \in Seq(Element) /\ Len(st) # 0 /\ Countable(st) /\ Declared(st) \in Nat
             /\ Len(tree) + Len(st) <= counted'
             /\ counted' <= MaxElements
             /\ Declared(tree) + Declared(st) <= attributes'
             /\ attributes' <= MaxAttributes
             /\ \A k \in 1 .. Len(st) : st[k].depth = k /\ (k = Len(st) \/ k <= MaxDepth)
             /\ Len(st) = Len(stack) + 1 /\ Len(stack) \in Nat
  <2>1. /\ st \in Seq(Element) /\ Len(st) = Len(stack) + 1 /\ Len(stack) \in Nat
        /\ st[Len(stack) + 1] = ElementFrom(kind)
        /\ \A k \in 1 .. Len(stack) : st[k] = stack[k]
    BY <1>3, Opened
  <2>2. /\ ElementFrom(kind).tag.attributes = kind.attributes /\ kind.attributes \in Nat
        /\ ElementFrom(kind).depth = Len(stack) + 1
    BY KindType DEF ElementFrom
  <2>3. /\ Countable(st) /\ Declared(stack) \in Nat
        /\ Declared(st) = Declared(stack) + kind.attributes
    BY <2>1, <2>2, DeclaredOneMore DEF BudgetInv
  <2>4. /\ counted' = counted + 1 /\ attributes' = attributes + kind.attributes
        /\ counted + 1 <= MaxElements /\ attributes + kind.attributes <= MaxAttributes
    BY <1>3 DEF Budgeted, Counted
  <2>5. Len(tree) \in Nat /\ Declared(tree) \in Nat /\ counted \in Nat /\ attributes \in Nat
    BY DEF TypeInv, BudgetInv
  <2>6. \A k \in 1 .. Len(st) : st[k].depth = k /\ (k = Len(st) \/ k <= MaxDepth)
    BY <2>1, <2>2 DEF BudgetInv
  <2>7. Len(tree) + Len(stack) <= counted /\ Declared(tree) + Declared(stack) <= attributes
    BY DEF BudgetInv
  <2> HIDE DEF Declared
  <2>8. Len(tree) + Len(st) <= counted'
    BY <2>1, <2>4, <2>5, <2>7
  <2>9. Declared(tree) + Declared(st) <= attributes' /\ Declared(st) \in Nat
    BY <2>2, <2>3, <2>4, <2>5, <2>7
  <2> QED BY <2>1, <2>3, <2>4, <2>6, <2>8, <2>9
<1>4. ASSUME NEW st, st \in Seq(Element), Len(st) # 0, Closed(st, tree, root, stack', tree', root'),
             Countable(st), Declared(st) \in Nat,
             Len(tree) + Len(st) <= counted', counted' <= MaxElements,
             Declared(tree) + Declared(st) <= attributes', attributes' <= MaxAttributes,
             counted' \in Nat, attributes' \in Nat,
             \A k \in 1 .. Len(st) : st[k].depth = k /\ (k = Len(st) \/ k <= MaxDepth)
      PROVE  BudgetInv'
  <2>1. tree \in Seq(Element) /\ root \in BOOLEAN /\ Countable(tree) /\ Declared(tree) \in Nat
    BY DEF TypeInv, BudgetInv
  <2>2. /\ Countable(stack') /\ Countable(tree') /\ Declared(tree') \in Nat /\ Declared(stack') \in Nat
        /\ Len(tree') + Len(stack') <= Len(tree) + Len(st)
        /\ Declared(tree') + Declared(stack') <= Declared(tree) + Declared(st)
    BY <1>4, <2>1, BudgetClosed
  <2>3. /\ Len(stack') \in Nat /\ Len(stack') < Len(st)
        /\ \A k \in 1 .. Len(stack') : k \in 1 .. Len(st) /\ stack'[k].depth = st[k].depth
    BY <1>4, DepthClosed
  <2>4. \A k \in 1 .. Len(stack') : stack'[k].depth = k /\ k <= MaxDepth
    BY <1>4, <2>3
  <2>5. Len(tree') \in Nat /\ Len(tree) \in Nat /\ Len(st) \in Nat /\ MaxElements \in Nat /\ MaxAttributes \in Nat
    BY <1>4, <2>1, <2>2, LimitsAssumption DEF Countable
  <2>6. Len(tree') + Len(stack') <= counted' /\ Declared(tree') + Declared(stack') <= attributes'
    BY <1>4, <2>1, <2>2, <2>3, <2>5
  <2> QED BY <1>4, <2>2, <2>4, <2>6 DEF BudgetInv
<1>5. ASSUME NEW kind \in Kind, Opens(kind)
      PROVE  BudgetInv'
  <2>1. PICK st : st = Append(stack, ElementFrom(kind))
    OBVIOUS
  <2>2. stack' = st /\ tree' = tree /\ Budgeted(kind) /\ Len(stack) < MaxDepth
    BY <1>5, <2>1 DEF Opens
  <2>3. /\ Countable(st) /\ Declared(st) \in Nat
        /\ Len(tree) + Len(st) <= counted' /\ counted' <= MaxElements
        /\ Declared(tree) + Declared(st) <= attributes' /\ attributes' <= MaxAttributes
        /\ \A k \in 1 .. Len(st) : st[k].depth = k
        /\ Len(st) = Len(stack) + 1 /\ Len(stack) \in Nat
    BY <1>3, <2>1, <2>2
  <2>4. \A k \in 1 .. Len(st) : k <= MaxDepth
    BY <2>2, <2>3, LimitsAssumption
  <2>5. Countable(tree) /\ Declared(tree) \in Nat
    BY DEF BudgetInv
  <2> QED BY <2>2, <2>3, <2>4, <2>5 DEF BudgetInv
<1>6. ASSUME NEW kind \in Kind, SelfCloses(kind)
      PROVE  BudgetInv'
  <2>1. PICK st : st = Append(stack, ElementFrom(kind))
    OBVIOUS
  <2>2. Budgeted(kind) /\ Closed(st, tree, root, stack', tree', root')
    BY <1>6, <2>1 DEF SelfCloses
  <2>3. counted' \in Nat /\ attributes' \in Nat
    BY TypeInvStep DEF TypeInv
  <2> QED BY <1>3, <1>4, <2>1, <2>2, <2>3
<1>7. CASE Closes
  <2>1. stack \in Seq(Element) /\ Len(stack) # 0 /\ counted \in Nat /\ attributes \in Nat
    BY <1>7, EmptySeq DEF Closes, TypeInv
  <2>2. counted' = counted /\ attributes' = attributes /\ Closed(stack, tree, root, stack', tree', root')
    BY <1>7 DEF Closes
  <2>3. PICK st : st = stack
    OBVIOUS
  <2> QED BY <1>4, <2>1, <2>2, <2>3 DEF BudgetInv
<1> QED BY <1>1, <1>2, <1>5, <1>6, <1>7, StepMoves

\* The parser holds to its three budgets: elements and attributes of everything built and
\* being built, and the depth of what is open.
THEOREM HeaderIsBounded == Spec => []BudgetsHold
<1>1. Init => BudgetInv
  BY DeclaredNothing, LimitsAssumption DEF Init, BudgetInv
<1>2. TypeInv /\ BudgetInv /\ [Next]_vars => BudgetInv'
  BY BudgetStep
<1>3. TypeInv /\ BudgetInv => BudgetsHold
  <2> SUFFICES ASSUME TypeInv, BudgetInv PROVE BudgetsHold
    OBVIOUS
  <2>1. /\ Len(tree) \in Nat /\ Len(stack) \in Nat /\ counted \in Nat /\ attributes \in Nat
        /\ MaxElements \in Nat /\ MaxAttributes \in Nat
    BY LimitsAssumption DEF TypeInv
  <2> QED BY <2>1 DEF BudgetInv, BudgetsHold
<1> QED BY <1>1, <1>2, <1>3, TypeInvHolds, PTL DEF Spec

-----------------------------------------------------------------------------
(***************************************************************************)
(* The shape of what was read: the stack st is a path from the first tag,  *)
(* the finished elements tr hang from it or from one another, and an       *)
(* element keeps the number of its start tag, at most sr.                  *)
(***************************************************************************)
Over(p, e) == p.n = e.parent /\ p.depth + 1 = e.depth /\ p.n < e.n

Spine(st, sr) ==
  /\ \A k \in 1 .. Len(st) :
       /\ st[k].n \in 1 .. sr /\ st[k].depth = k
       /\ st[k].parent = IF k = 1 THEN 0 ELSE st[k - 1].n
  /\ \A j, k \in 1 .. Len(st) : j < k => st[j].n < st[k].n

Hangs(st, tr, rt, e) ==
  \/ \E j \in 1 .. Len(tr) : Over(tr[j], e)
  \/ ~rt /\ \E j \in 1 .. Len(st) : Over(st[j], e)

Shape(st, tr, rt, sr) ==
  /\ Spine(st, sr)
  /\ ~rt => IF Len(st) = 0 THEN sr = 0 /\ Len(tr) = 0 ELSE st[1].n = 1
  /\ rt => \E k \in 1 .. Len(tr) : tr[k].n = 1
  /\ \A k \in 1 .. Len(tr) :
       /\ tr[k].n \in 1 .. sr
       /\ \A j \in 1 .. Len(tr) : tr[j].n = tr[k].n => j = k
       /\ \A j \in 1 .. Len(st) : tr[k].n # st[j].n
       /\ tr[k].n = 1 => tr[k].parent = 0
       /\ tr[k].n # 1 => Hangs(st, tr, rt, tr[k])
       /\ \A j \in 1 .. Len(st) - 1 : tr[k].parent = st[j].n => tr[k].n < st[j + 1].n

LEMMA ShapeOpened ==
  ASSUME NEW st \in Seq(Element), NEW tr \in Seq(Element), NEW rt \in BOOLEAN, NEW sr \in Nat,
         Shape(st, tr, rt, sr),
         NEW e \in Element, e.n = sr + 1, e.depth = Len(st) + 1,
         e.parent = IF Len(st) = 0 THEN 0 ELSE st[Len(st)].n
  PROVE  Shape(Append(st, e), tr, rt, sr + 1)
<1> DEFINE up == Append(st, e)
<1>1. /\ Len(up) = Len(st) + 1 /\ up[Len(st) + 1] = e
      /\ \A k \in 1 .. Len(st) : up[k] = st[k]
      /\ Len(st) \in Nat /\ Len(tr) \in Nat
  BY SeqMore
<1>2. \A k \in 1 .. Len(st) : st[k].n \in Nat /\ st[k] \in Element
  BY SeqAt, ElementFields
<1>3. \A k \in 1 .. Len(tr) : tr[k].n \in Nat /\ tr[k] \in Element
  BY SeqAt, ElementFields
<1> HIDE DEF up
<1>4. Spine(up, sr + 1)
  <2>1. ASSUME NEW k \in 1 .. Len(up)
        PROVE  /\ up[k].n \in 1 .. sr + 1 /\ up[k].depth = k
               /\ up[k].parent = IF k = 1 THEN 0 ELSE up[k - 1].n
    <3>1. CASE k = Len(st) + 1
      <4>1. k # 1 => up[k - 1] = st[Len(st)]
        BY <1>1, <3>1
      <4> QED BY <1>1, <3>1, <4>1
    <3>2. CASE k \in 1 .. Len(st)
      <4>1. k # 1 => up[k - 1] = st[k - 1]
        BY <1>1, <3>2
      <4>2. /\ st[k].n \in 1 .. sr /\ st[k].depth = k
            /\ st[k].parent = IF k = 1 THEN 0 ELSE st[k - 1].n
        BY <3>2 DEF Shape, Spine
      <4>3. up[k] = st[k] /\ st[k].n \in 1 .. sr + 1
        BY <1>1, <3>2, <4>2
      <4> QED BY <4>1, <4>2, <4>3
    <3> QED BY <1>1, <3>1, <3>2
  <2>2. ASSUME NEW j \in 1 .. Len(up), NEW k \in 1 .. Len(up), j < k
        PROVE  up[j].n < up[k].n
    <3>1. j \in 1 .. Len(st) /\ up[j] = st[j] /\ st[j].n \in 1 .. sr
      BY <1>1, <2>2 DEF Shape, Spine
    <3>2. CASE k = Len(st) + 1
      BY <1>1, <3>1, <3>2
    <3>3. CASE k \in 1 .. Len(st)
      BY <1>1, <2>2, <3>1, <3>3 DEF Shape, Spine
    <3> QED BY <1>1, <3>2, <3>3
  <2> QED BY <2>1, <2>2 DEF Spine
<1>5. ~rt => up[1].n = 1
  BY <1>1 DEF Shape
<1>6. ASSUME NEW k \in 1 .. Len(tr)
      PROVE  /\ tr[k].n \in 1 .. sr + 1
             /\ \A j \in 1 .. Len(up) : tr[k].n # up[j].n
             /\ tr[k].n # 1 => Hangs(up, tr, rt, tr[k])
             /\ \A j \in 1 .. Len(up) - 1 : tr[k].parent = up[j].n => tr[k].n < up[j + 1].n
  <2>1. tr[k].n \in 1 .. sr
    BY DEF Shape
  <2>2. ASSUME NEW j \in 1 .. Len(up)
        PROVE  tr[k].n # up[j].n
    <3>1. \A h \in 1 .. Len(st) : tr[k].n # st[h].n
      BY DEF Shape
    <3>2. j \in 1 .. Len(st) \/ up[j].n = sr + 1
      BY <1>1
    <3> QED BY <1>1, <2>1, <3>1, <3>2
  <2>3. tr[k].n # 1 => Hangs(up, tr, rt, tr[k])
    <3>1. \A j \in 1 .. Len(st) : j \in 1 .. Len(up) /\ up[j] = st[j]
      BY <1>1
    <3>2. tr[k].n # 1 => Hangs(st, tr, rt, tr[k])
      BY DEF Shape
    <3> QED BY <3>1, <3>2 DEF Hangs
  <2>4. ASSUME NEW j \in 1 .. Len(up) - 1, tr[k].parent = up[j].n
        PROVE  tr[k].n < up[j + 1].n
    <3>1. j \in 1 .. Len(st) /\ up[j] = st[j]
      BY <1>1
    <3>2. CASE j = Len(st)
      BY <1>1, <2>1, <3>2
    <3>3. CASE j # Len(st)
      <4>1. j \in 1 .. Len(st) - 1 /\ up[j + 1] = st[j + 1]
        BY <1>1, <3>1, <3>3
      <4> QED BY <2>4, <3>1, <4>1 DEF Shape
    <3> QED BY <3>2, <3>3
  <2> QED BY <2>1, <2>2, <2>3, <2>4
<1>7. Len(up) # 0
  BY <1>1
<1>8. Shape(up, tr, rt, sr + 1)
  BY <1>4, <1>5, <1>6, <1>7 DEF Shape
<1> QED BY <1>8 DEF up

\* The shape does not hang on what the elements of the stack hold.
LEMMA ShapeAlike ==
  ASSUME NEW st, NEW tr, NEW rt, NEW sr, Shape(st, tr, rt, sr),
         NEW st2, Len(st) \in Nat, Len(st2) = Len(st),
         \A k \in 1 .. Len(st) :
           st2[k].n = st[k].n /\ st2[k].depth = st[k].depth /\ st2[k].parent = st[k].parent
  PROVE  Shape(st2, tr, rt, sr)
<1>1. Spine(st2, sr)
  <2>1. ASSUME NEW k \in 1 .. Len(st2)
        PROVE  /\ st2[k].n \in 1 .. sr /\ st2[k].depth = k
               /\ st2[k].parent = IF k = 1 THEN 0 ELSE st2[k - 1].n
    <3>1. k # 1 => k - 1 \in 1 .. Len(st)
      OBVIOUS
    <3> QED BY <3>1 DEF Shape, Spine
  <2>2. \A j, k \in 1 .. Len(st2) : j < k => st2[j].n < st2[k].n
    BY DEF Shape, Spine
  <2> QED BY <2>1, <2>2 DEF Spine
<1>2. ASSUME NEW k \in 1 .. Len(tr)
      PROVE  /\ tr[k].n # 1 => Hangs(st2, tr, rt, tr[k])
             /\ \A j \in 1 .. Len(st2) - 1 : tr[k].parent = st2[j].n => tr[k].n < st2[j + 1].n
  <2>1. tr[k].n # 1 => Hangs(st, tr, rt, tr[k])
    BY DEF Shape
  <2>2. ASSUME NEW j \in 1 .. Len(st2) - 1, tr[k].parent = st2[j].n
        PROVE  tr[k].n < st2[j + 1].n
    <3>1. j \in 1 .. Len(st) - 1 /\ j \in 1 .. Len(st) /\ j + 1 \in 1 .. Len(st)
      OBVIOUS
    <3> QED BY <2>2, <3>1 DEF Shape
  <2> QED BY <2>1, <2>2 DEF Hangs, Over
<1>3. ~rt => IF Len(st2) = 0 THEN sr = 0 /\ Len(tr) = 0 ELSE st2[1].n = 1
  BY DEF Shape
<1> QED BY <1>1, <1>2, <1>3 DEF Shape

LEMMA ShapeClosed ==
  ASSUME NEW st \in Seq(Element), NEW tr \in Seq(Element), NEW rt \in BOOLEAN, NEW sr \in Nat,
         Len(st) # 0, Shape(st, tr, rt, sr),
         NEW st2, NEW tr2, NEW rt2, Closed(st, tr, rt, st2, tr2, rt2)
  PROVE  Shape(st2, tr2, rt2, sr)
<1>10. PICK m : m = Len(st)
  OBVIOUS
<1>11. PICK e : e = st[m]
  OBVIOUS
<1>1. /\ m \in Nat /\ m \in 1 .. m /\ Len(st) = m /\ Len(st2) = m - 1 /\ Len(tr) \in Nat
      /\ e \in Element /\ e = st[m]
      /\ (rt2 <=> (rt \/ m = 1)) /\ tr2 = IF rt THEN tr ELSE Append(tr, e)
  BY <1>10, <1>11 DEF Closed
<1>2. \A k \in 1 .. m - 1 :
        /\ k \in 1 .. m /\ st2[k].n = st[k].n
        /\ st2[k].depth = st[k].depth /\ st2[k].parent = st[k].parent
  BY <1>1, DepthClosed
<1>3. \A k \in 1 .. m : st[k].n \in Nat /\ st[k].depth \in Nat /\ st[k].parent \in Nat
  BY <1>1, SeqAt, ElementFields
<1>4. \A k \in 1 .. Len(tr) : tr[k].n \in Nat /\ tr[k].parent \in Nat
  BY SeqAt, ElementFields
<1>5. /\ e.n \in 1 .. sr /\ e.depth = m
      /\ e.parent = IF m = 1 THEN 0 ELSE st[m - 1].n
      /\ \A j \in 1 .. m - 1 : st[j].n < e.n
  <2>1. Spine(st, sr)
    BY DEF Shape
  <2> QED BY <1>1, <2>1 DEF Spine
<1>6. Spine(st2, sr)
  <2>1. ASSUME NEW k \in 1 .. Len(st2)
        PROVE  /\ st2[k].n \in 1 .. sr /\ st2[k].depth = k
               /\ st2[k].parent = IF k = 1 THEN 0 ELSE st2[k - 1].n
    <3>1. k \in 1 .. m - 1 /\ (k # 1 => k - 1 \in 1 .. m - 1)
      BY <1>1
    <3>2. /\ st[k].n \in 1 .. sr /\ st[k].depth = k
          /\ st[k].parent = IF k = 1 THEN 0 ELSE st[k - 1].n
      <4>1. k \in 1 .. Len(st)
        BY <1>1, <1>2, <3>1
      <4> QED BY <4>1 DEF Shape, Spine
    <3> QED BY <1>2, <3>1, <3>2
  <2>2. ASSUME NEW j \in 1 .. Len(st2), NEW k \in 1 .. Len(st2), j < k
        PROVE  st2[j].n < st2[k].n
    <3>1. j \in 1 .. m - 1 /\ k \in 1 .. m - 1
      BY <1>1
    <3>2. st[j].n < st[k].n
      BY <1>1, <1>2, <2>2, <3>1 DEF Shape, Spine
    <3> QED BY <1>2, <3>1, <3>2
  <2> QED BY <2>1, <2>2 DEF Spine
<1>7. ASSUME NEW k \in 1 .. Len(tr)
      PROVE  /\ tr[k].n \in 1 .. sr
             /\ \A j \in 1 .. Len(st2) : tr[k].n # st2[j].n
             /\ \A j \in 1 .. Len(st2) - 1 : tr[k].parent = st2[j].n => tr[k].n < st2[j + 1].n
             /\ tr[k].n # e.n
  <2>1. tr[k].n \in 1 .. sr /\ \A j \in 1 .. m : tr[k].n # st[j].n
    BY <1>1 DEF Shape
  <2>2. ASSUME NEW j \in 1 .. Len(st2) - 1, tr[k].parent = st2[j].n
        PROVE  tr[k].n < st2[j + 1].n
    <3>1. j \in 1 .. m - 1 /\ j + 1 \in 1 .. m - 1
      BY <1>1
    <3>2. tr[k].parent = st[j].n => tr[k].n < st[j + 1].n
      BY <1>1, <3>1 DEF Shape
    <3> QED BY <1>2, <2>2, <3>1, <3>2
  <2>3. \A j \in 1 .. Len(st2) : tr[k].n # st2[j].n
    BY <1>1, <1>2, <2>1
  <2> QED BY <1>1, <2>1, <2>2, <2>3
<1>8. CASE rt
  <2>1. \A k \in 1 .. Len(tr) : tr[k].n # 1 => Hangs(st2, tr, rt, tr[k])
    BY <1>8 DEF Shape, Hangs
  <2>2. tr2 = tr /\ rt2 /\ Len(tr2) = Len(tr)
    BY <1>1, <1>8
  <2>3. /\ \E k \in 1 .. Len(tr) : tr[k].n = 1
        /\ \A k \in 1 .. Len(tr) : /\ \A j \in 1 .. Len(tr) : tr[j].n = tr[k].n => j = k
                                   /\ tr[k].n = 1 => tr[k].parent = 0
    BY <1>8 DEF Shape
  <2> QED BY <1>6, <1>7, <1>8, <2>1, <2>2, <2>3 DEF Shape, Hangs
<1>9. CASE ~rt
  <2>1. /\ Len(tr2) = Len(tr) + 1 /\ tr2[Len(tr) + 1] = e
        /\ \A k \in 1 .. Len(tr) : tr2[k] = tr[k]
    BY <1>1, <1>9, SeqMore
  <2>2. st[1].n = 1 /\ (m = 1 => e.n = 1)
    BY <1>1, <1>9 DEF Shape
  <2>3. ASSUME NEW x, ~rt, Hangs(st, tr, rt, x)
        PROVE  Hangs(st2, tr2, rt2, x)
    <3>1. CASE \E j \in 1 .. Len(tr) : Over(tr[j], x)
      BY <1>1, <2>1, <3>1 DEF Hangs
    <3>2. CASE \E j \in 1 .. m : Over(st[j], x)
      <4>1. PICK j \in 1 .. m : Over(st[j], x)
        BY <3>2
      <4>2. CASE j = m
        <5>1. Over(tr2[Len(tr) + 1], x) /\ Len(tr) + 1 \in 1 .. Len(tr2)
          BY <1>1, <2>1, <4>1, <4>2 
        <5> QED BY <5>1 DEF Hangs
      <4>3. CASE j \in 1 .. m - 1
        <5>1. m # 1 /\ ~rt2
          BY <1>1, <1>9, <4>3
        <5>2. Over(st2[j], x) /\ j \in 1 .. Len(st2)
          BY <1>1, <1>2, <4>1, <4>3 DEF Over
        <5> QED BY <5>1, <5>2 DEF Hangs
      <4> QED BY <1>1, <4>1, <4>2, <4>3
    <3> QED BY <1>1, <2>3, <3>1, <3>2 DEF Hangs
  <2>4. e.n # 1 => Hangs(st2, tr2, rt2, e)
    <3>1. SUFFICES ASSUME e.n # 1 PROVE Hangs(st2, tr2, rt2, e)
      OBVIOUS
    <3>2. m - 1 \in 1 .. m - 1 /\ ~rt2
      BY <1>1, <1>9, <2>2, <3>1
    <3>3. st[m - 1].depth = m - 1
      BY <1>1, <1>2, <3>2 DEF Shape, Spine
    <3>4. Over(st2[m - 1], e)
      BY <1>1, <1>2, <1>5, <3>2, <3>3 DEF Over
    <3> QED BY <1>1, <3>2, <3>4 DEF Hangs
  <2>5. ASSUME NEW j \in 1 .. Len(st2) - 1, e.parent = st2[j].n
        PROVE  e.n < st2[j + 1].n
    <3>1. /\ j \in 1 .. m - 2 /\ j \in 1 .. m - 1 /\ m - 1 \in 1 .. m - 1
          /\ m \in Nat /\ j \in 1 .. m /\ m - 1 \in 1 .. m /\ j < m - 1
      BY <1>1
    <3>2. st[j].n < st[m - 1].n
      BY <1>1, <3>1 DEF Shape, Spine
    <3>3. e.parent = st[m - 1].n /\ e.parent = st[j].n
      BY <1>2, <1>5, <2>5, <3>1
    <3> QED BY <1>3, <3>1, <3>2, <3>3
  <2>6. /\ \A j \in 1 .. Len(st2) : e.n # st2[j].n
        /\ e.n = 1 => e.parent = 0
    <3>1. \A j \in 1 .. m - 1 : st[j].n < e.n /\ st[j].n \in Nat
      BY <1>2, <1>3, <1>5
    <3>2. m # 1 => 1 \in 1 .. m - 1
      BY <1>1
    <3> QED BY <1>1, <1>2, <1>3, <1>5, <2>2, <3>1, <3>2
  <2>7. ASSUME NEW k \in 1 .. Len(tr2)
        PROVE  /\ tr2[k].n \in 1 .. sr
               /\ \A j \in 1 .. Len(tr2) : tr2[j].n = tr2[k].n => j = k
               /\ \A j \in 1 .. Len(st2) : tr2[k].n # st2[j].n
               /\ tr2[k].n = 1 => tr2[k].parent = 0
               /\ tr2[k].n # 1 => Hangs(st2, tr2, rt2, tr2[k])
               /\ \A j \in 1 .. Len(st2) - 1 : tr2[k].parent = st2[j].n => tr2[k].n < st2[j + 1].n
    <3>1. CASE k = Len(tr) + 1
      <4>1. \A j \in 1 .. Len(tr2) : tr2[j].n = e.n => j = k
        BY <1>1, <1>7, <2>1, <3>1
      <4>2. tr2[k] = e
        BY <2>1, <3>1
      <4>3. \A j \in 1 .. Len(st2) - 1 : e.parent = st2[j].n => e.n < st2[j + 1].n
        BY <2>5
      <4> QED BY <1>5, <2>4, <2>6, <4>1, <4>2, <4>3
    <3>2. CASE k \in 1 .. Len(tr)
      <4>1. tr2[k].n # 1 => Hangs(st2, tr2, rt2, tr2[k])
        BY <1>9, <2>1, <2>3, <3>2 DEF Shape
      <4>2. /\ \A j \in 1 .. Len(tr) : tr[j].n = tr[k].n => j = k
            /\ tr[k].n = 1 => tr[k].parent = 0
        BY <3>2 DEF Shape
      <4>3. \A j \in 1 .. Len(tr2) : j = Len(tr) + 1 \/ j \in 1 .. Len(tr)
        BY <1>1, <2>1
      <4>4. tr2[k] = tr[k] /\ tr[k].n # e.n
        BY <1>7, <2>1, <3>2
      <4>5. \A j \in 1 .. Len(tr2) : tr2[j].n = tr2[k].n => j = k
        BY <2>1, <4>2, <4>3, <4>4
      <4>6. /\ tr[k].n \in 1 .. sr
            /\ \A j \in 1 .. Len(st2) : tr[k].n # st2[j].n
            /\ \A j \in 1 .. Len(st2) - 1 : tr[k].parent = st2[j].n => tr[k].n < st2[j + 1].n
        BY <1>7, <3>2
      <4> QED BY <4>1, <4>2, <4>4, <4>5, <4>6
    <3>3. k = Len(tr) + 1 \/ k \in 1 .. Len(tr)
      BY <1>1, <2>1
    <3> QED BY <3>1, <3>2, <3>3
  <2>8. ~rt2 => IF Len(st2) = 0 THEN sr = 0 /\ Len(tr2) = 0 ELSE st2[1].n = 1
    BY <1>1, <1>2, <2>2
  <2>9. rt2 => \E k \in 1 .. Len(tr2) : tr2[k].n = 1
    BY <1>1, <1>9, <2>1, <2>2
  <2> QED BY <1>6, <2>7, <2>8, <2>9 DEF Shape
<1> QED BY <1>8, <1>9

ShapeInv == Shape(stack, tree, root, serial)

\* A start tag that is not refused opens an element where it belongs.
LEMMA ShapeBudgeted ==
  ASSUME TypeInv, ShapeInv, NEW kind \in Kind, Budgeted(kind)
  PROVE  /\ serial' = serial + 1 /\ serial + 1 \in Nat
         /\ Append(stack, ElementFrom(kind)) \in Seq(Element)
         /\ Shape(Append(stack, ElementFrom(kind)), tree, root, serial + 1)
<1>1. stack \in Seq(Element) /\ tree \in Seq(Element) /\ root \in BOOLEAN /\ serial \in Nat
  BY DEF TypeInv
<1>2. PICK e : e = ElementFrom(kind)
  OBVIOUS
<1>3. e \in Element
  BY <1>2, ElementFromType
<1>4. stack = <<>> <=> Len(stack) = 0
  BY <1>1, EmptySeq
<1>5. /\ e.n = serial + 1 /\ e.depth = Len(stack) + 1
      /\ e.parent = IF Len(stack) = 0 THEN 0 ELSE stack[Len(stack)].n
  BY <1>2, <1>4 DEF ElementFrom
<1>6. Shape(Append(stack, e), tree, root, serial + 1)
  BY <1>1, <1>3, <1>5, ShapeOpened DEF ShapeInv
<1> QED BY <1>1, <1>2, <1>3, <1>6, SeqMore DEF Budgeted, Counted

LEMMA ShapeStep ==
  ASSUME TypeInv, ShapeInv, [Next]_vars
  PROVE  ShapeInv'
<1>1. CASE Idle
  BY <1>1 DEF Idle, ShapeInv
<1>2. CASE Texts
  <2>1. /\ Len(stack) \in Nat /\ Len(stack') = Len(stack)
        /\ \A k \in 1 .. Len(stack) : /\ stack'[k].n = stack[k].n
                                      /\ stack'[k].depth = stack[k].depth
                                      /\ stack'[k].parent = stack[k].parent
    BY <1>2 DEF Texts, Alike, TypeInv
  <2>2. Shape(stack', tree, root, serial)
    BY <2>1, ShapeAlike DEF ShapeInv
  <2> QED BY <1>2, <2>2 DEF Texts, ShapeInv
<1>4. ASSUME NEW kind \in Kind, Opens(kind)
      PROVE  ShapeInv'
  <2>1. Budgeted(kind) /\ stack' = Append(stack, ElementFrom(kind)) /\ tree' = tree /\ root' = root
    BY <1>4 DEF Opens
  <2>2. serial' = serial + 1 /\ Shape(Append(stack, ElementFrom(kind)), tree, root, serial + 1)
    BY <2>1, ShapeBudgeted
  <2> QED BY <2>1, <2>2 DEF ShapeInv
<1>5. ASSUME NEW kind \in Kind, SelfCloses(kind)
      PROVE  ShapeInv'
  <2>1. PICK st : st = Append(stack, ElementFrom(kind))
    OBVIOUS
  <2>2. Budgeted(kind) /\ Closed(st, tree, root, stack', tree', root')
    BY <1>5, <2>1 DEF SelfCloses
  <2>3. /\ serial' = serial + 1 /\ serial + 1 \in Nat
        /\ st \in Seq(Element) /\ Shape(st, tree, root, serial + 1)
    BY <2>1, <2>2, ShapeBudgeted
  <2>4. Len(st) # 0 /\ tree \in Seq(Element) /\ root \in BOOLEAN
    <3>1. Len(st) = Len(stack) + 1 /\ Len(stack) \in Nat
      BY <2>1, Opened
    <3> QED BY <3>1 DEF TypeInv
  <2>5. Shape(stack', tree', root', serial + 1)
    BY <2>2, <2>3, <2>4, ShapeClosed
  <2> QED BY <2>3, <2>5 DEF ShapeInv
<1>6. CASE Closes
  <2>1. /\ stack \in Seq(Element) /\ tree \in Seq(Element) /\ root \in BOOLEAN /\ serial \in Nat
        /\ Len(stack) # 0 /\ serial' = serial
        /\ Closed(stack, tree, root, stack', tree', root')
    BY <1>6, EmptySeq DEF Closes, TypeInv
  <2>2. Shape(stack', tree', root', serial)
    BY <2>1, ShapeClosed DEF ShapeInv
  <2> QED BY <2>1, <2>2 DEF ShapeInv
<1> QED BY <1>1, <1>2, <1>4, <1>5, <1>6, StepMoves

LEMMA ShapeHolds == Spec => [](TypeInv /\ ShapeInv)
<1>1. Init => ShapeInv
  BY DEF Init, ShapeInv, Shape, Spine
<1>2. TypeInv /\ ShapeInv /\ [Next]_vars => ShapeInv'
  BY ShapeStep
<1> QED BY <1>1, <1>2, TypeInvHolds, PTL DEF Spec

-----------------------------------------------------------------------------
(***************************************************************************)
(* What an accepted header passed.  Nothing moves once it is judged, so    *)
(* what the judgement looked at is still so.                               *)
(***************************************************************************)
Accepted ==
  verdict = "accepted" => /\ stack = <<>> /\ root
                          /\ Is(Root, "xisf")
                          /\ ~SharedUid

\* No fault of a start tag, and no refusal, is an acceptance.
LEMMA NotRefused ==
  ASSUME NEW kind \in Kind, NEW opens \in BOOLEAN
  PROVE  "accepted" \notin TagErrors(kind, opens)
<1>1. kind.fault \in {"BadHeader", "BadAttribute", "Unsupported", None}
  BY DEF Kind
<1> QED BY <1>1 DEF TagErrors

LEMMA AcceptedStep ==
  ASSUME TypeInv, Accepted, [Next]_vars
  PROVE  Accepted'
<1>1. unread # <<>> => Head(unread) \in Events
  BY DEF TypeInv
<1>2. CASE StartTag \/ EmptyTag
  <2>1. Head(unread).tag \in Kind
    BY <1>1, <1>2, EventType DEF StartTag, EmptyTag, Reads
  <2>2. verdict' # "accepted"
    BY <1>2, <2>1, NotRefused DEF StartTag, EmptyTag, Refuse, Reads
  <2> QED BY <2>2 DEF Accepted
<1>3. CASE EndTag \/ CharacterData \/ Malformed
  <2>1. verdict' # "accepted"
    BY <1>3 DEF EndTag, CharacterData, Malformed, Refuse, Reads
  <2> QED BY <2>1 DEF Accepted
<1>4. CASE EndOfDocument
  <2>1. verdict' = "accepted" => stack = <<>> /\ root /\ Is(Root, "xisf") /\ ~SharedUid
    BY <1>4 DEF EndOfDocument, Judgement
  <2>2. stack' = stack /\ root' = root /\ tree' = tree
    BY <1>4 DEF EndOfDocument
  <2> QED BY <2>1, <2>2 DEF Accepted, Root, SharedUid, Tree
<1>5. CASE Judged \/ UNCHANGED vars
  <2>1. stack' = stack /\ root' = root /\ tree' = tree /\ verdict' = verdict
    BY <1>5 DEF Judged, vars
  <2> QED BY <2>1 DEF Accepted, Root, SharedUid, Tree
<1> QED BY <1>2, <1>3, <1>4, <1>5 DEF Next

LEMMA AcceptedHolds == Spec => [](TypeInv /\ ShapeInv /\ Accepted)
<1>1. Init => Accepted
  BY DEF Init, Accepted
<1>2. TypeInv /\ Accepted /\ [Next]_vars => Accepted'
  BY AcceptedStep
<1> QED BY <1>1, <1>2, ShapeHolds, PTL DEF Spec

\* An element of the tree is known by the number of its start tag.
LEMMA NumbersName ==
  ASSUME TypeInv, ShapeInv
  PROVE  /\ \A e \in Tree : e \in Element
         /\ \A d, e \in Tree : d.n = e.n => d = e
         /\ root => Root \in Tree /\ Root.n = 1
<1>1. \A e \in Tree : e \in Element
  BY SeqAt DEF Tree, TypeInv
<1>2. ASSUME NEW d \in Tree, NEW e \in Tree, d.n = e.n
      PROVE  d = e
  <2>1. PICK j \in 1 .. Len(tree) : d = tree[j]
    BY DEF Tree
  <2>2. PICK k \in 1 .. Len(tree) : e = tree[k]
    BY DEF Tree
  <2> QED BY <1>2, <2>1, <2>2 DEF ShapeInv, Shape
<1>3. root => Root \in Tree /\ Root.n = 1
  <2>1. root => \E e \in Tree : e.n = 1
    BY DEF ShapeInv, Shape, Tree
  <2> QED BY <2>1 DEF Root
<1> QED BY <1>1, <1>2, <1>3

\* An accepted header is one tree under a core xisf element, which every other element
\* hangs from directly or through elements that enclose it.
THEOREM HeaderIsOneTree == Spec => []OneTree
<1>1. TypeInv /\ ShapeInv /\ Accepted => OneTree
  <2> SUFFICES ASSUME TypeInv, ShapeInv, Accepted, verdict = "accepted"
               PROVE  /\ Is(Root, "xisf") /\ Root.parent = 0
                      /\ \A e \in Tree \ {Root} :
                           \E p \in Tree : p.n = e.parent /\ p.depth + 1 = e.depth /\ p.n < e.n
    BY DEF OneTree
  <2>1. root /\ stack = <<>> /\ Is(Root, "xisf")
    BY DEF Accepted
  <2>2. Root \in Tree /\ Root.n = 1
    BY <2>1, NumbersName
  <2>3. Root.parent = 0
    BY <2>2 DEF ShapeInv, Shape, Tree
  <2>4. ASSUME NEW e \in Tree \ {Root}
        PROVE  \E p \in Tree : p.n = e.parent /\ p.depth + 1 = e.depth /\ p.n < e.n
    <3>1. e.n # 1
      BY <2>2, NumbersName
    <3>2. PICK k \in 1 .. Len(tree) : e = tree[k]
      BY DEF Tree
    <3>3. Hangs(stack, tree, root, e)
      BY <3>1, <3>2 DEF ShapeInv, Shape
    <3> QED BY <2>1, <3>3 DEF Hangs, Over, Tree
  <2> QED BY <2>1, <2>3, <2>4
<1> QED BY <1>1, AcceptedHolds, PTL

\* In an accepted header following a Reference yields the one core element that carries
\* the identifier, whatever an extension's element carries.
THEOREM ReferencesName == Spec => []ReferencesAreUnambiguous
<1>1. TypeInv /\ ShapeInv /\ Accepted => ReferencesAreUnambiguous
  <2> SUFFICES ASSUME TypeInv, ShapeInv, Accepted, verdict = "accepted",
                      NEW owner \in Tree, NEW c \in Children(owner, "Reference"), NEW e \in Tree,
                      e.tag.core, e.tag.uid # None, e.tag.uid = c.tag.ref
               PROVE  ByUid(c.tag.ref) = {e} /\ e \in Associated(owner, e.tag.name)
    BY DEF ReferencesAreUnambiguous
  <2>1. ASSUME NEW d \in Tree, d.tag.core, d.tag.uid = e.tag.uid
        PROVE  d = e
    <3>1. d.n = e.n
      BY <2>1 DEF Accepted, SharedUid
    <3> QED BY <3>1, NumbersName
  <2>2. e.n \in Nat
    BY NumbersName, ElementFields
  <2>3. ByUid(c.tag.ref) = {e}
    BY <2>1, <2>2 DEF ByUid
  <2>4. Is(e, e.tag.name)
    BY DEF Is
  <2> QED BY <2>3, <2>4 DEF Associated
<1> QED BY <1>1, AcceptedHolds, PTL

-----------------------------------------------------------------------------
(***************************************************************************)
(* What <Data> children say of a block.  The children that are finished    *)
(* are ds; they are finished in the order of their start tags, so the one  *)
(* that supplies a field first is the first of them that has it.           *)
(***************************************************************************)
IsFirst(ds, field, d) ==
  d \in ds /\ d[field] # None /\ \A c \in ds : c[field] # None => d.n <= c.n

Offered(h, ds, field) ==
  \/ h.tag[field] # None /\ h[field] = h.tag[field]
  \/ h.tag[field] = None /\ h[field] = None /\ \A d \in ds : d[field] = None
  \/ h.tag[field] = None /\ \E d : IsFirst(ds, field, d) /\ h[field] = d[field]

\* A location is not kept as it was supplied: it takes the encoding of <Data>.
Located(h, ds) ==
  \/ h.tag.location # None /\ h.location # None
  \/ h.tag.location = None /\ h.location = None /\ \A d \in ds : d.location = None
  \/ h.tag.location = None /\ h.location # None /\ \E d : IsFirst(ds, "location", d)

Encoded(h, ds) ==
  /\ ds = {} => h.location = h.tag.location
  /\ \A d : /\ ds = {d} /\ h.tag.location \notin {None, "attached"} /\ d.location = None
            => h.location = IF d.tag.encoding = None THEN h.tag.location ELSE d.tag.encoding

Texted(h, ds) == \A d : ds = {d} => Begins(h.text, d.text) \/ ~IsBlank(h.text)

Described(h, ds) ==
  /\ Offered(h, ds, "compression") /\ Offered(h, ds, "checksum")
  /\ Located(h, ds) /\ Encoded(h, ds) /\ Texted(h, ds)

\* A block that one more <Data> is promoted into is described by all of them.
LEMMA OfferedMore ==
  ASSUME NEW field \in {"compression", "checksum"},
         NEW h \in Element, NEW e \in Element, NEW h2, h2.tag = h.tag,
         h2[field] = OrElse(h[field], e[field]),
         NEW ds, \A c \in ds : c \in Element /\ c.n < e.n, Offered(h, ds, field)
  PROVE  Offered(h2, ds \cup {e}, field)
<1>1. CASE h[field] # None
  <2>1. h2[field] = h[field]
    BY <1>1 DEF OrElse
  <2>2. CASE h.tag[field] # None /\ h[field] = h.tag[field]
    BY <2>1, <2>2 DEF Offered
  <2>3. CASE h.tag[field] = None /\ \E d : IsFirst(ds, field, d) /\ h[field] = d[field]
    <3>1. PICK d : IsFirst(ds, field, d) /\ h[field] = d[field]
      BY <2>3
    <3>2. d.n <= e.n
      <4>1. d \in Element /\ d.n < e.n /\ d.n \in Nat /\ e.n \in Nat
        BY <3>1, ElementFields DEF IsFirst
      <4> QED BY <4>1
    <3>3. IsFirst(ds \cup {e}, field, d)
      BY <3>1, <3>2 DEF IsFirst
    <3> QED BY <2>1, <2>3, <3>1, <3>3 DEF Offered
  <2> QED BY <1>1, <2>2, <2>3 DEF Offered
<1>2. CASE h[field] = None
  <2>1. h.tag[field] = None /\ \A d \in ds : d[field] = None
    BY <1>2 DEF Offered, IsFirst
  <2>2. h2[field] = e[field]
    BY <1>2 DEF OrElse
  <2>3. e[field] # None => IsFirst(ds \cup {e}, field, e)
    <3>1. e.n \in Nat
      BY ElementFields
    <3> QED BY <2>1, <3>1 DEF IsFirst
  <2> QED BY <2>1, <2>2, <2>3 DEF Offered
<1> QED BY <1>1, <1>2

LEMMA LocatedMore ==
  ASSUME NEW h \in Element, NEW e \in Element, NEW h2, h2.tag = h.tag,
         h2.location = Relocated(h, e),
         NEW ds, \A c \in ds : c \in Element /\ c.n < e.n, Located(h, ds)
  PROVE  Located(h2, ds \cup {e})
<1>1. h2.location = None <=> h.location = None /\ e.location = None
  BY DEF Relocated, OrElse
<1>2. CASE h.location # None /\ h.tag.location = None
  <2>1. PICK d : IsFirst(ds, "location", d)
    BY <1>2 DEF Located
  <2>2. d.n <= e.n
    <3>1. d \in Element /\ d.n < e.n /\ d.n \in Nat /\ e.n \in Nat
      BY <2>1, ElementFields DEF IsFirst
    <3> QED BY <3>1
  <2>3. IsFirst(ds \cup {e}, "location", d)
    BY <2>1, <2>2 DEF IsFirst
  <2> QED BY <1>1, <1>2, <2>3 DEF Located
<1>3. CASE h.location = None
  <2>1. h.tag.location = None /\ \A d \in ds : d.location = None
    BY <1>3 DEF Located
  <2>2. e.location # None => IsFirst(ds \cup {e}, "location", e)
    <3>1. e.n \in Nat
      BY ElementFields
    <3> QED BY <2>1, <3>1 DEF IsFirst
  <2> QED BY <1>1, <1>3, <2>1, <2>2 DEF Located
<1>4. CASE h.location # None /\ h.tag.location # None
  BY <1>1, <1>4 DEF Located
<1> QED BY <1>2, <1>3, <1>4

LEMMA DescribedMore ==
  ASSUME NEW h \in Element, NEW e \in Element, NEW h2, h2 = Promote(h, e),
         NEW ds, \A c \in ds : c \in Element /\ c.n < e.n, Described(h, ds)
  PROVE  Described(h2, ds \cup {e})
<1>1. /\ h2.tag = h.tag /\ h2.location = Relocated(h, e)
      /\ h2.compression = OrElse(h.compression, e.compression)
      /\ h2.checksum = OrElse(h.checksum, e.checksum)
      /\ h2.text = IF IsBlank(h.text) THEN e.text ELSE h.text
  BY PromoteType
<1>2. Offered(h2, ds \cup {e}, "compression") /\ Offered(h2, ds \cup {e}, "checksum")
  BY <1>1, OfferedMore DEF Described
<1>3. Located(h2, ds \cup {e})
  BY <1>1, LocatedMore DEF Described
<1>4. Encoded(h2, ds \cup {e})
  <2>1. e \notin ds
    BY ElementFields
  <2>2. ASSUME NEW d, ds \cup {e} = {d}, h.tag.location \notin {None, "attached"}, d.location = None
        PROVE  h2.location = IF d.tag.encoding = None THEN h.tag.location ELSE d.tag.encoding
    <3>1. d = e /\ ds = {}
      BY <2>1, <2>2
    <3>2. h.location = h.tag.location
      BY <3>1 DEF Described, Encoded
    <3> QED BY <1>1, <2>2, <3>1, <3>2 DEF Relocated, OrElse
  <2> QED BY <1>1, <2>2 DEF Encoded
<1>5. Texted(h2, ds \cup {e})
  <2>1. e \notin ds /\ e.text \in Seq(Pieces)
    BY ElementFields
  <2>2. Begins(e.text, e.text)
    BY <2>1 DEF Begins
  <2> QED BY <1>1, <2>1, <2>2 DEF Texted
<1> QED BY <1>2, <1>3, <1>4, <1>5 DEF Described

\* The finished core <Data> children of the element that is numbered n.
DataOf(tr, n) == {c \in {tr[k] : k \in 1 .. Len(tr)} : c.parent = n /\ Is(c, "Data")}

DataDescribes(st, tr, rt) ==
  /\ \A k \in 1 .. Len(tr) : Described(tr[k], DataOf(tr, tr[k].n))
  /\ ~rt => \A k \in 1 .. Len(st) : Described(st[k], DataOf(tr, st[k].n))

LEMMA DescribedAlike ==
  ASSUME NEW h, NEW h2, Alike(h2, h), NEW ds, Described(h, ds)
  PROVE  Described(h2, ds)
<1>1. /\ h2.tag = h.tag /\ h2.location = h.location
      /\ h2.compression = h.compression /\ h2.checksum = h.checksum
      /\ Begins(h2.text, h.text)
  BY DEF Alike
<1>2. Offered(h2, ds, "compression") /\ Offered(h2, ds, "checksum")
  BY <1>1 DEF Described, Offered
<1>3. Located(h2, ds) /\ Encoded(h2, ds)
  BY <1>1 DEF Described, Located, Encoded
<1>4. ~IsBlank(h.text) => ~IsBlank(h2.text)
  <2>1. ASSUME NEW k \in 1 .. Len(h.text), h.text[k] # Blank
        PROVE  k \in 1 .. Len(h2.text) /\ h2.text[k] # Blank
    BY <1>1, <2>1 DEF Begins
  <2> QED BY <2>1 DEF IsBlank
<1>5. ASSUME NEW d, Begins(h.text, d.text)
      PROVE  Begins(h2.text, d.text)
  BY <1>1, <1>5 DEF Begins
<1>6. Texted(h2, ds)
  BY <1>4, <1>5 DEF Described, Texted
<1> QED BY <1>2, <1>3, <1>6 DEF Described

LEMMA DescribesOpened ==
  ASSUME NEW st \in Seq(Element), NEW tr \in Seq(Element), NEW rt \in BOOLEAN, NEW sr \in Nat,
         Shape(st, tr, rt, sr), DataDescribes(st, tr, rt),
         NEW e \in Element, e.n = sr + 1,
         e.location = e.tag.location, e.compression = e.tag.compression,
         e.checksum = e.tag.checksum
  PROVE  DataDescribes(Append(st, e), tr, rt)
<1>1. PICK up : up = Append(st, e)
  OBVIOUS
<1>2. /\ Len(up) = Len(st) + 1 /\ up[Len(st) + 1] = e
      /\ \A k \in 1 .. Len(st) : up[k] = st[k]
      /\ Len(st) \in Nat
  BY <1>1, SeqMore
<1>3. DataOf(tr, e.n) = {}
  <2>1. ASSUME NEW k \in 1 .. Len(tr), tr[k].parent = sr + 1
        PROVE  FALSE
    <3>1. tr[k].n = 1 => tr[k].parent = 0
      BY DEF Shape
    <3>2. Hangs(st, tr, rt, tr[k])
      BY <2>1, <3>1 DEF Shape
    <3>3. \/ \E j \in 1 .. Len(tr) : tr[j].n = sr + 1
          \/ \E j \in 1 .. Len(st) : st[j].n = sr + 1
      BY <2>1, <3>2 DEF Hangs, Over
    <3>4. /\ \A j \in 1 .. Len(tr) : tr[j].n \in 1 .. sr
          /\ \A j \in 1 .. Len(st) : st[j].n \in 1 .. sr
      BY DEF Shape, Spine
    <3> QED BY <3>3, <3>4
  <2> QED BY <2>1 DEF DataOf
<1>4. Described(e, {})
  BY DEF Described, Offered, Located, Encoded, Texted
<1>5. ~rt => \A k \in 1 .. Len(up) : Described(up[k], DataOf(tr, up[k].n))
  <2>1. ASSUME ~rt, NEW k \in 1 .. Len(up)
        PROVE  Described(up[k], DataOf(tr, up[k].n))
    <3>1. CASE k = Len(st) + 1
      BY <1>2, <1>3, <1>4, <3>1
    <3>2. CASE k \in 1 .. Len(st)
      BY <1>2, <2>1, <3>2 DEF DataDescribes
    <3> QED BY <1>2, <3>1, <3>2
  <2> QED BY <2>1
<1>6. DataDescribes(up, tr, rt)
  BY <1>5 DEF DataDescribes
<1> QED BY <1>1, <1>6

LEMMA DescribesClosed ==
  ASSUME NEW st \in Seq(Element), NEW tr \in Seq(Element), NEW rt \in BOOLEAN, NEW sr \in Nat,
         Len(st) # 0, Shape(st, tr, rt, sr), DataDescribes(st, tr, rt),
         NEW st2, NEW tr2, NEW rt2, Closed(st, tr, rt, st2, tr2, rt2)
  PROVE  DataDescribes(st2, tr2, rt2)
<1>1. CASE rt
  BY <1>1 DEF Closed, DataDescribes
<1>2. CASE ~rt
  <2>1. PICK m : m = Len(st)
    OBVIOUS
  <2>2. PICK e : e = st[m]
    OBVIOUS
  <2>3. /\ m \in Nat /\ m \in 1 .. m /\ Len(st) = m /\ Len(st2) = m - 1 /\ Len(tr) \in Nat
        /\ e \in Element /\ e = st[m] /\ tr2 = Append(tr, e)
        /\ \A k \in 1 .. m - 1 :
             st2[k] = IF k = m - 1 /\ Is(e, "Data") THEN Promote(st[k], e) ELSE st[k]
    BY <1>2, <2>1, <2>2 DEF Closed
  <2>4. /\ Len(tr2) = Len(tr) + 1 /\ tr2[Len(tr) + 1] = e
        /\ \A k \in 1 .. Len(tr) : tr2[k] = tr[k]
    BY <2>3, SeqMore
  <2>5. /\ e.n \in 1 .. sr /\ e.parent = IF m = 1 THEN 0 ELSE st[m - 1].n
        /\ \A j \in 1 .. m - 1 : st[j].n < e.n
    BY <2>3 DEF Shape, Spine
  <2>6. /\ \A k \in 1 .. m : st[k] \in Element /\ st[k].n \in Nat /\ st[k].n \in 1 .. sr
        /\ \A k \in 1 .. Len(tr) : tr[k] \in Element /\ tr[k].n \in Nat /\ tr[k].n \in 1 .. sr
    <3>1. /\ \A k \in 1 .. m : st[k] \in Element /\ st[k].n \in 1 .. sr
          /\ \A k \in 1 .. Len(tr) : tr[k] \in Element /\ tr[k].n \in 1 .. sr
      BY <2>3, SeqAt DEF Shape, Spine
    <3> QED BY <3>1
  <2>7. \A n : DataOf(tr2, n) = IF e.parent = n /\ Is(e, "Data") THEN DataOf(tr, n) \cup {e}
                                ELSE DataOf(tr, n)
    <3>1. {tr2[k] : k \in 1 .. Len(tr2)} = {tr[k] : k \in 1 .. Len(tr)} \cup {e}
      <4>1. \A k \in 1 .. Len(tr2) : k = Len(tr) + 1 \/ k \in 1 .. Len(tr)
        BY <2>3, <2>4
      <4>2. Len(tr) + 1 \in 1 .. Len(tr2) /\ \A k \in 1 .. Len(tr) : k \in 1 .. Len(tr2)
        BY <2>3, <2>4
      <4> QED BY <2>4, <4>1, <4>2
    <3> QED BY <3>1 DEF DataOf
  <2>8. ASSUME NEW k \in 1 .. Len(tr)
        PROVE  Described(tr[k], DataOf(tr2, tr[k].n))
    <3>1. e.parent # tr[k].n
      <4>1. m # 1 => m - 1 \in 1 .. Len(st)
        BY <2>3
      <4> QED BY <2>5, <2>6, <4>1 DEF Shape
    <3> QED BY <2>7, <3>1 DEF DataDescribes
  <2>9. Described(e, DataOf(tr2, e.n))
    <3>1. e.parent # e.n
      <4>1. m # 1 => m - 1 \in 1 .. m - 1 /\ m - 1 \in 1 .. m
        BY <2>3
      <4> QED BY <2>5, <2>6, <4>1
    <3>2. Described(e, DataOf(tr, e.n))
      BY <1>2, <2>3 DEF DataDescribes
    <3> QED BY <2>7, <3>1, <3>2
  <2>10. ASSUME NEW k \in 1 .. m - 1
         PROVE  Described(st2[k], DataOf(tr2, st2[k].n))
    <3>1. k \in 1 .. m /\ st[k] \in Element /\ m - 1 \in 1 .. m /\ m # 1 /\ k + 1 \in 1 .. m
      BY <2>3, <2>6
    <3>2. Described(st[k], DataOf(tr, st[k].n))
      BY <1>2, <2>3, <3>1 DEF DataDescribes
    <3>3. CASE k = m - 1 /\ Is(e, "Data")
      <4>1. st2[k] = Promote(st[k], e) /\ st2[k].n = st[k].n
        BY <2>3, <3>1, <3>3, PromoteType
      <4>2. \A c \in DataOf(tr, st[k].n) : c \in Element /\ c.n < e.n
        <5>1. \A j \in 1 .. Len(tr) : tr[j].parent = st[k].n => tr[j].n < st[k + 1].n
          <6>1. k \in 1 .. Len(st) - 1
            BY <2>3
          <6> QED BY <6>1 DEF Shape
        <5>2. st[k + 1] = e
          BY <2>3, <3>3
        <5> QED BY <2>6, <5>1, <5>2 DEF DataOf
      <4>3. Described(st2[k], DataOf(tr, st[k].n) \cup {e})
        BY <2>3, <3>1, <3>2, <4>1, <4>2, DescribedMore
      <4>4. DataOf(tr2, st[k].n) = DataOf(tr, st[k].n) \cup {e}
        BY <2>5, <2>7, <3>1, <3>3
      <4> QED BY <4>1, <4>3, <4>4
    <3>4. CASE ~(k = m - 1 /\ Is(e, "Data"))
      <4>1. st2[k] = st[k]
        BY <2>3, <3>4
      <4>2. k # m - 1 => st[m - 1].n # st[k].n
        <5>1. k # m - 1 => st[k].n < st[m - 1].n
          BY <2>3, <3>1 DEF Shape, Spine
        <5> QED BY <2>6, <3>1, <5>1
      <4>3. ~(e.parent = st[k].n /\ Is(e, "Data"))
        BY <2>5, <3>1, <3>4, <4>2
      <4>4. DataOf(tr2, st[k].n) = DataOf(tr, st[k].n)
        BY <2>7, <4>3
      <4> QED BY <3>2, <4>1, <4>4
    <3> QED BY <3>3, <3>4
  <2>11. \A k \in 1 .. Len(tr2) : Described(tr2[k], DataOf(tr2, tr2[k].n))
    <3>1. \A k \in 1 .. Len(tr2) : k = Len(tr) + 1 \/ k \in 1 .. Len(tr)
      BY <2>3, <2>4
    <3> QED BY <2>4, <2>8, <2>9, <3>1
  <2> QED BY <2>3, <2>10, <2>11 DEF DataDescribes
<1> QED BY <1>1, <1>2

DataInv == DataDescribes(stack, tree, root)

LEMMA DataStep ==
  ASSUME TypeInv, ShapeInv, DataInv, [Next]_vars
  PROVE  DataInv'
<1>1. CASE Idle
  BY <1>1 DEF Idle, DataInv
<1>2. CASE Texts
  <2>1. ASSUME ~root, NEW k \in 1 .. Len(stack')
        PROVE  Described(stack'[k], DataOf(tree, stack'[k].n))
    <3>1. k \in 1 .. Len(stack) /\ Alike(stack'[k], stack[k]) /\ stack'[k].n = stack[k].n
      BY <1>2 DEF Texts, Alike
    <3>2. Described(stack[k], DataOf(tree, stack[k].n))
      BY <2>1, <3>1 DEF DataInv, DataDescribes
    <3> QED BY <3>1, <3>2, DescribedAlike
  <2>2. tree' = tree /\ root' = root
    BY <1>2 DEF Texts
  <2> QED BY <2>1, <2>2 DEF DataInv, DataDescribes
<1>3. ASSUME NEW kind \in Kind, Budgeted(kind), NEW st, st = Append(stack, ElementFrom(kind))
      PROVE  DataDescribes(st, tree, root)
  <2>1. stack \in Seq(Element) /\ tree \in Seq(Element) /\ root \in BOOLEAN /\ serial \in Nat
    BY DEF TypeInv
  <2>2. PICK e : e = ElementFrom(kind)
    OBVIOUS
  <2>3. /\ e \in Element /\ e.n = serial + 1 /\ e.location = e.tag.location
        /\ e.compression = e.tag.compression /\ e.checksum = e.tag.checksum
    <3>1. e \in Element
      BY <2>2, ElementFromType
    <3> QED BY <2>2, <3>1 DEF ElementFrom
  <2> QED BY <1>3, <2>1, <2>2, <2>3, DescribesOpened DEF ShapeInv, DataInv
<1>4. ASSUME NEW kind \in Kind, Opens(kind)
      PROVE  DataInv'
  <2>1. Budgeted(kind) /\ stack' = Append(stack, ElementFrom(kind)) /\ tree' = tree /\ root' = root
    BY <1>4 DEF Opens
  <2>2. DataDescribes(Append(stack, ElementFrom(kind)), tree, root)
    BY <1>3, <2>1
  <2> QED BY <2>1, <2>2 DEF DataInv
<1>5. ASSUME NEW kind \in Kind, SelfCloses(kind)
      PROVE  DataInv'
  <2>1. PICK st : st = Append(stack, ElementFrom(kind))
    OBVIOUS
  <2>2. Budgeted(kind) /\ Closed(st, tree, root, stack', tree', root')
    BY <1>5, <2>1 DEF SelfCloses
  <2>3. serial + 1 \in Nat /\ st \in Seq(Element) /\ Shape(st, tree, root, serial + 1)
    BY <2>1, <2>2, ShapeBudgeted
  <2>4. DataDescribes(st, tree, root)
    BY <1>3, <2>1, <2>2
  <2>5. Len(st) # 0 /\ tree \in Seq(Element) /\ root \in BOOLEAN
    <3>1. Len(st) = Len(stack) + 1 /\ Len(stack) \in Nat
      BY <2>1, Opened
    <3> QED BY <3>1 DEF TypeInv
  <2> QED BY <2>2, <2>3, <2>4, <2>5, DescribesClosed DEF DataInv
<1>6. CASE Closes
  <2>1. /\ stack \in Seq(Element) /\ tree \in Seq(Element) /\ root \in BOOLEAN /\ serial \in Nat
        /\ Len(stack) # 0
        /\ Closed(stack, tree, root, stack', tree', root')
    BY <1>6, EmptySeq DEF Closes, TypeInv
  <2> QED BY <2>1, DescribesClosed DEF ShapeInv, DataInv
<1> QED BY <1>1, <1>2, <1>4, <1>5, <1>6, StepMoves

LEMMA DataHolds == Spec => [](TypeInv /\ ShapeInv /\ DataInv)
<1>1. Init => DataInv
  BY DEF Init, DataInv, DataDescribes
<1>2. TypeInv /\ ShapeInv /\ DataInv /\ [Next]_vars => DataInv'
  BY DataStep
<1> QED BY <1>1, <1>2, ShapeHolds, PTL DEF Spec

\* An element of the tree is described by its own tag and its <Data> children.
LEMMA TreeDescribed ==
  ASSUME TypeInv, DataInv, NEW e \in Tree
  PROVE  Described(e, Children(e, "Data")) /\ e \in Element
<1>1. PICK k \in 1 .. Len(tree) : e = tree[k]
  BY DEF Tree
<1>2. Children(e, "Data") = DataOf(tree, e.n)
  BY DEF Children, Tree, DataOf
<1>3. Described(e, DataOf(tree, e.n))
  BY <1>1 DEF DataInv, DataDescribes
<1>4. e \in Element
  BY <1>1, SeqAt DEF TypeInv
<1> QED BY <1>2, <1>3, <1>4

LEMMA OfferedIsSupplied ==
  ASSUME NEW h, NEW field, NEW ds, Offered(h, ds, field)
  PROVE  h[field] \in Supplied(h.tag[field], ds, field)
BY DEF Offered, Supplied, First, IsFirst

LEMMA LocatedIsSupplied ==
  ASSUME NEW h, NEW ds, Located(h, ds)
  PROVE  (h.location = None) = (Supplied(h.tag.location, ds, "location") = {None})
BY DEF Located, Supplied, First, IsFirst

\* However many <Data> children an element has, its compression and checksum come from its
\* own tag or else from the first that records one, and it has a location just if its tag
\* or one of them has.
THEOREM BlocksAreDescribed == Spec => []DataIsPromoted
<1>1. TypeInv /\ DataInv => DataIsPromoted
  <2> SUFFICES ASSUME TypeInv, DataInv, NEW e \in Tree
               PROVE  LET ds == Children(e, "Data")
                      IN  /\ e.compression \in Supplied(e.tag.compression, ds, "compression")
                          /\ e.checksum \in Supplied(e.tag.checksum, ds, "checksum")
                          /\ (e.location = None) = (Supplied(e.tag.location, ds, "location") = {None})
    BY DEF DataIsPromoted
  <2>1. PICK ds : ds = Children(e, "Data")
    OBVIOUS
  <2>2. Offered(e, ds, "compression") /\ Offered(e, ds, "checksum") /\ Located(e, ds)
    BY <2>1, TreeDescribed DEF Described
  <2>3. e["compression"] \in Supplied(e.tag["compression"], ds, "compression")
    BY <2>2, OfferedIsSupplied
  <2>4. e["checksum"] \in Supplied(e.tag["checksum"], ds, "checksum")
    BY <2>2, OfferedIsSupplied
  <2>5. (e.location = None) = (Supplied(e.tag.location, ds, "location") = {None})
    BY <2>2, LocatedIsSupplied
  <2> QED BY <2>1, <2>3, <2>4, <2>5
<1> QED BY <1>1, DataHolds, PTL

\* The text of an element with a single <Data> child begins with the child's, unless text of its
\* own that is not blank comes first; and the block it embeds has the child's encoding, or the
\* location's if the child has none, and the child's compression.
THEOREM SingleDataDescribes == Spec => []SingleDataDescribesBlock
<1>1. TypeInv /\ DataInv => SingleDataDescribesBlock
  <2> SUFFICES ASSUME TypeInv, DataInv, NEW e \in Tree, NEW d \in Tree,
                      Children(e, "Data") = {d}
               PROVE  /\ Begins(e.text, d.text) \/ ~IsBlank(e.text)
                      /\ e.tag.location \notin {None, "attached"} /\ d.location = None =>
                           e.location = IF d.tag.encoding = None THEN e.tag.location ELSE d.tag.encoding
                      /\ e.tag.compression = None => e.compression = d.compression
    BY DEF SingleDataDescribesBlock
  <2>1. Offered(e, {d}, "compression") /\ Encoded(e, {d}) /\ Texted(e, {d})
    BY TreeDescribed DEF Described
  <2>2. e.tag.location \notin {None, "attached"} /\ d.location = None =>
          e.location = IF d.tag.encoding = None THEN e.tag.location ELSE d.tag.encoding
    BY <2>1 DEF Encoded
  <2>3. e.tag.compression = None => e.compression = d.compression
    BY <2>1 DEF Offered, IsFirst
  <2>4. Begins(e.text, d.text) \/ ~IsBlank(e.text)
    BY <2>1 DEF Texted
  <2> QED BY <2>2, <2>3, <2>4
<1> QED BY <1>1, DataHolds, PTL
=============================================================================
