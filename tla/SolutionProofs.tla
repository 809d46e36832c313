---------------------------- MODULE SolutionProofs ----------------------------
(***************************************************************************)
(* Of SolvedImage, for images of any properties, altered in any way: the   *)
(* layers below an altered one stand, every term is whole and its own, and *)
(* a Fallback term covers the field.                                       *)
(*                                                                         *)
(* First what is cut out of shared arrays, then how a residual is          *)
(* evaluated, what is read under each key, what is gathered of a file, and *)
(* last the invariant: under a key that nobody altered the file gathers    *)
(* what the encoder wrote.                                                 *)
(***************************************************************************)
EXTENDS SolvedImage, SequenceTheorems, FiniteSetTheorems, WellFoundedInduction, TLAPS

LEMMA PolynomialTermsType ==
  ASSUME NEW d, d.order \in Int
  PROVE  PolynomialTerms(d) \in Nat
<1>1. CASE d.order >= 1
  <2>1. d.order * (d.order + 1) \in Nat
    BY <1>1
  <2> QED BY <2>1 DEF PolynomialTerms
<1>2. CASE ~(d.order >= 1)
  BY <1>2 DEF PolynomialTerms
<1> QED BY <1>1, <1>2

LEMMA Multiples ==
  ASSUME NEW n \in Nat \ {0}, NEW q \in Nat
  PROVE  n * q = (n - 1) * q + q /\ (n - 1) * q \in Nat
<1>1. n * q = (n - 1) * q + q
  OBVIOUS
<1>2. \A m \in Nat : m * q \in Nat
  OBVIOUS
<1> QED BY <1>1, <1>2

\* A slice of an array, by the number of elements before it and at its end.
Slice(s, first, last) == SubSeq(s, first + 1, last)

LEMMA SliceProperties ==
  ASSUME NEW S, NEW s \in Seq(S), NEW first \in Nat, NEW last \in Nat, first <= last, last <= Len(s)
  PROVE  /\ Slice(s, first, last) \in Seq(S)
         /\ Len(Slice(s, first, last)) = last - first
         /\ \A k \in 1 .. last - first : Slice(s, first, last)[k] = s[first + k]
<1>1. \A k \in first + 1 .. last : s[k] \in S
  OBVIOUS
<1> QED BY <1>1, SubSeqProperties DEF Slice

\* Two slices that meet are one.
LEMMA SlicesMeet ==
  ASSUME NEW S, NEW s \in Seq(S), NEW a \in Nat, NEW b \in Nat, NEW c \in Nat,
         a <= b, b <= c, c <= Len(s)
  PROVE  Slice(s, a, b) \o Slice(s, b, c) = Slice(s, a, c)
<1> DEFINE x == Slice(s, a, b)
           y == Slice(s, b, c)
           z == Slice(s, a, c)
<1>1. /\ x \in Seq(S) /\ Len(x) = b - a /\ \A k \in 1 .. b - a : x[k] = s[a + k]
      /\ y \in Seq(S) /\ Len(y) = c - b /\ \A k \in 1 .. c - b : y[k] = s[b + k]
      /\ z \in Seq(S) /\ Len(z) = c - a /\ \A k \in 1 .. c - a : z[k] = s[a + k]
  <2>1. a <= c /\ b <= Len(s)
    OBVIOUS
  <2>2. x \in Seq(S) /\ Len(x) = b - a /\ \A k \in 1 .. b - a : x[k] = s[a + k]
    BY <2>1, SliceProperties
  <2>3. y \in Seq(S) /\ Len(y) = c - b /\ \A k \in 1 .. c - b : y[k] = s[b + k]
    BY <2>1, SliceProperties
  <2>4. z \in Seq(S) /\ Len(z) = c - a /\ \A k \in 1 .. c - a : z[k] = s[a + k]
    BY <2>1, SliceProperties
  <2> QED BY <2>2, <2>3, <2>4
<1> HIDE DEF x, y, z
<1>2. /\ x \o y \in Seq(S) /\ Len(x \o y) = c - a
      /\ \A k \in 1 .. c - a : (x \o y)[k] = IF k <= b - a THEN x[k] ELSE y[k - (b - a)]
  <2>1. /\ x \o y \in Seq(S) /\ Len(x \o y) = Len(x) + Len(y)
        /\ \A k \in 1 .. Len(x) + Len(y) : (x \o y)[k] = IF k <= Len(x) THEN x[k] ELSE y[k - Len(x)]
    BY <1>1, ConcatProperties
  <2>2. Len(x) + Len(y) = c - a /\ Len(x) = b - a
    BY <1>1
  <2> QED BY <2>1, <2>2
<1>3. ASSUME NEW k \in 1 .. c - a PROVE (x \o y)[k] = z[k]
  <2>1. CASE k <= b - a
    BY <1>1, <1>2, <2>1
  <2>2. CASE ~(k <= b - a)
    <3>1. k - (b - a) \in 1 .. c - b /\ b + (k - (b - a)) = a + k
      BY <2>2
    <3> QED BY <1>1, <1>2, <2>2, <3>1
  <2> QED BY <2>1, <2>2
<1>4. x \o y = z
  BY <1>1, <1>2, <1>3, SeqEqual
<1> QED BY <1>4 DEF x, y, z

-----------------------------------------------------------------------------

\* The arrays a component shares among its terms, and a term that is cut out of them.
Arrays(p, N, C, Z) ==
  p.nodes \in Seq(N) /\ p.coefficients \in Seq(C) /\ p.normalizations \in Seq(Z)

Cut(p, i, d) == i \in Nat \ {0} /\ d.order \in Int /\ CutTerm(p, i, d).ok

\* Where the nodes of a term end, and where its coefficients begin and end, by count.
NodesTo(p, i) == IF i < Len(p.offsets) THEN p.offsets[i + 1] ELSE Len(p.nodes)
CoefficientsFrom(p, i, d) == p.offsets[i] + (i - 1) * PolynomialTerms(d)
CoefficientsTo(p, i, d) == NodesTo(p, i) + i * PolynomialTerms(d)

LEMMA CutTermHolds ==
  ASSUME NEW p, NEW i, NEW d, Cut(p, i, d)
  PROVE  /\ p.offsets[i] \in Nat /\ NodesTo(p, i) \in Nat
         /\ p.offsets[i] <= NodesTo(p, i) /\ NodesTo(p, i) <= Len(p.nodes)
         /\ CoefficientsTo(p, i, d) <= Len(p.coefficients)
         /\ 3 * i <= Len(p.normalizations)
         /\ CutTerm(p, i, d).value.normalization = SubSeq(p.normalizations, 3 * i - 2, 3 * i)
         /\ CutTerm(p, i, d).value.nodes = Slice(p.nodes, p.offsets[i], NodesTo(p, i))
         /\ CutTerm(p, i, d).value.coefficients =
              Slice(p.coefficients, CoefficientsFrom(p, i, d), CoefficientsTo(p, i, d))
BY DEF Cut, CutTerm, NodesTo, CoefficientsFrom, CoefficientsTo, Slice, Good, Bad

LEMMA CutTermLies ==
  ASSUME NEW p, NEW i, NEW d, Cut(p, i, d)
  PROVE  /\ CoefficientsFrom(p, i, d) \in Nat /\ CoefficientsTo(p, i, d) \in Nat
         /\ CoefficientsFrom(p, i, d) <= CoefficientsTo(p, i, d)
         /\ CoefficientsTo(p, i, d) - CoefficientsFrom(p, i, d) =
              NodesTo(p, i) - p.offsets[i] + PolynomialTerms(d)
<1> DEFINE q == PolynomialTerms(d)
           before == (i - 1) * q
           through == i * q
<1>1. q \in Nat /\ before \in Nat /\ through = before + q
  BY PolynomialTermsType, Multiples DEF Cut
<1>2. p.offsets[i] \in Nat /\ NodesTo(p, i) \in Nat /\ p.offsets[i] <= NodesTo(p, i)
  BY CutTermHolds
<1>3. CoefficientsFrom(p, i, d) = p.offsets[i] + before
  BY DEF CoefficientsFrom
<1>4. CoefficientsTo(p, i, d) = NodesTo(p, i) + through
  BY DEF CoefficientsTo
<1> HIDE DEF before, through
<1> QED BY <1>1, <1>2, <1>3, <1>4

\* A term has as many coefficients as it has nodes and the polynomial has monomials, and the
\* three numbers to normalize by (load.rs:261-311).
THEOREM CutTermsAreWhole ==
  ASSUME NEW N, NEW C, NEW Z, NEW p, Arrays(p, N, C, Z), NEW i, NEW d, Cut(p, i, d)
  PROVE  LET term == CutTerm(p, i, d).value
         IN  /\ Len(term.coefficients) = Len(term.nodes) + PolynomialTerms(d)
             /\ Len(term.normalization) = 3
<1> DEFINE term == CutTerm(p, i, d).value
           nodes == p.nodes
           coefficients == p.coefficients
           start == p.offsets[i]
           end == NodesTo(p, i)
           first == CoefficientsFrom(p, i, d)
           last == CoefficientsTo(p, i, d)
           q == PolynomialTerms(d)
<1>1. nodes \in Seq(N) /\ coefficients \in Seq(C) /\ p.normalizations \in Seq(Z)
  BY DEF Arrays
<1>2. /\ start \in Nat /\ end \in Nat /\ start <= end /\ end <= Len(nodes)
      /\ last <= Len(coefficients)
      /\ term.nodes = Slice(nodes, start, end) /\ term.coefficients = Slice(coefficients, first, last)
  BY CutTermHolds
<1>3. q \in Nat /\ first \in Nat /\ last \in Nat /\ first <= last /\ last - first = end - start + q
  BY CutTermLies, PolynomialTermsType DEF Cut
<1>4. Len(term.normalization) = 3
  <2>1. /\ i \in Nat \ {0} /\ 3 * i <= Len(p.normalizations)
        /\ term.normalization = SubSeq(p.normalizations, 3 * i - 2, 3 * i)
    BY CutTermHolds DEF Cut
  <2>2. /\ 3 * i - 2 \in Int /\ 3 * i \in Int /\ 3 * i - 2 <= 3 * i /\ 3 * i - (3 * i - 2) + 1 = 3
        /\ \A k \in 3 * i - 2 .. 3 * i : k \in 1 .. Len(p.normalizations)
    BY <1>1, <2>1
  <2>3. \A k \in 3 * i - 2 .. 3 * i : p.normalizations[k] \in Z
    BY <1>1, <2>2
  <2> HIDE DEF term
  <2> QED BY <2>1, <2>2, <2>3, SubSeqProperties
<1> HIDE DEF term, nodes, coefficients, start, end, first, last, q
<1>5. Len(term.nodes) = end - start
  BY <1>1, <1>2, SliceProperties
<1>6. Len(term.coefficients) = last - first
  BY <1>1, <1>2, <1>3, SliceProperties
<1>7. Len(term.coefficients) = Len(term.nodes) + q
  BY <1>2, <1>3, <1>5, <1>6
<1> QED BY <1>4, <1>7 DEF term, q

\* Of two terms that follow each other the second takes up the nodes and the coefficients
\* where the first leaves them: together they are one slice of the shared arrays, with
\* nothing passed over and nothing used twice (load.rs:261-311).
THEOREM CutTermsMeet ==
  ASSUME NEW N, NEW C, NEW Z, NEW p, Arrays(p, N, C, Z), Len(p.offsets) \in Nat,
         NEW i, NEW d, Cut(p, i, d), Cut(p, i + 1, d), i < Len(p.offsets)
  PROVE  LET this == CutTerm(p, i, d).value
             that == CutTerm(p, i + 1, d).value
         IN  /\ this.nodes \o that.nodes = Slice(p.nodes, p.offsets[i], NodesTo(p, i + 1))
             /\ this.coefficients \o that.coefficients =
                  Slice(p.coefficients, CoefficientsFrom(p, i, d), CoefficientsTo(p, i + 1, d))
<1> DEFINE this == CutTerm(p, i, d).value
           that == CutTerm(p, i + 1, d).value
           nodes == p.nodes
           coefficients == p.coefficients
           start == p.offsets[i]
           middle == p.offsets[i + 1]
           end == NodesTo(p, i + 1)
           first == CoefficientsFrom(p, i, d)
           between == CoefficientsTo(p, i, d)
           last == CoefficientsTo(p, i + 1, d)
<1>1. nodes \in Seq(N) /\ coefficients \in Seq(C)
  BY DEF Arrays
<1>2. NodesTo(p, i) = middle
  BY DEF NodesTo
<1>3. CoefficientsFrom(p, i + 1, d) = between
  <2>1. (i + 1) - 1 = i
    BY DEF Cut
  <2> QED BY <1>2, <2>1 DEF CoefficientsFrom, CoefficientsTo
<1>4. /\ start \in Nat /\ middle \in Nat /\ start <= middle
      /\ first \in Nat /\ between \in Nat /\ first <= between
      /\ this.nodes = Slice(nodes, start, middle)
      /\ this.coefficients = Slice(coefficients, first, between)
  BY <1>2, CutTermHolds, CutTermLies
<1>5. /\ end \in Nat /\ middle <= end /\ end <= Len(nodes)
      /\ last \in Nat /\ between <= last /\ last <= Len(coefficients)
      /\ that.nodes = Slice(nodes, middle, end)
      /\ that.coefficients = Slice(coefficients, between, last)
  BY <1>3, CutTermHolds, CutTermLies
<1> HIDE DEF this, that, nodes, coefficients, start, middle, end, first, between, last
<1>6. this.nodes \o that.nodes = Slice(nodes, start, end)
  <2>1. Slice(nodes, start, middle) \o Slice(nodes, middle, end) = Slice(nodes, start, end)
    <3>1. /\ start \in Nat /\ middle \in Nat /\ end \in Nat
          /\ start <= middle /\ middle <= end /\ end <= Len(nodes)
      BY <1>4, <1>5
    <3>2. nodes \in Seq(N)
      BY <1>1
    <3> QED BY <3>1, <3>2, SlicesMeet
  <2> QED BY <1>4, <1>5, <2>1
<1>7. this.coefficients \o that.coefficients = Slice(coefficients, first, last)
  <2>1. Slice(coefficients, first, between) \o Slice(coefficients, between, last) =
          Slice(coefficients, first, last)
    <3>1. /\ first \in Nat /\ between \in Nat /\ last \in Nat
          /\ first <= between /\ between <= last /\ last <= Len(coefficients)
      BY <1>4, <1>5
    <3>2. coefficients \in Seq(C)
      BY <1>1
    <3> QED BY <3>1, <3>2, SlicesMeet
  <2> QED BY <1>4, <1>5, <2>1
<1> QED BY <1>6, <1>7 DEF this, that, nodes, coefficients, start, middle, end, first, between, last

-----------------------------------------------------------------------------
LEMMA LeastNatural ==
  ASSUME NEW T, T \subseteq Nat, T # {}
  PROVE  \E m \in T : \A n \in T : m <= n
<1> DEFINE Segments == {0 .. m : m \in T}
           R == StrictSubsetOrdering(Nat)
<1>1. Segments \subseteq FiniteSubsetsOf(Nat) /\ Segments # {}
  <2>1. ASSUME NEW m \in T
        PROVE  0 .. m \in FiniteSubsetsOf(Nat)
    <3>1. IsFiniteSet(0 .. m)
      BY FS_Interval
    <3> QED BY <3>1 DEF FiniteSubsetsOf
  <2> QED BY <2>1
<1>2. PICK s \in Segments : \A t \in Segments : <<t, s>> \notin R
  <2>1. IsWellFoundedOn(R, FiniteSubsetsOf(Nat))
    BY FS_StrictSubsetOrderingWellFounded
  <2> HIDE DEF Segments, R
  <2> QED BY <1>1, <2>1, WFMin, Zenon
<1>3. PICK m \in T : s = 0 .. m
  OBVIOUS
<1>4. ASSUME NEW n \in T, n < m
      PROVE  FALSE
  <2>1. 0 .. n \subseteq 0 .. m /\ m \in 0 .. m /\ m \notin 0 .. n
    BY <1>4
  <2>2. <<0 .. n, s>> \in R
    BY <1>3, <2>1 DEF StrictSubsetOrdering
  <2> QED BY <1>2, <2>2
<1>5. \A n \in T : ~(n < m)
  BY <1>4
<1> QED BY <1>5

\* Steps that end in `?`: the value, or one that failed.
LEMMA TryHolds ==
  ASSUME NEW steps, DOMAIN steps \subseteq Nat, NEW value
  PROVE  \/ Try(steps, value) = Good(value) /\ \A i \in DOMAIN steps : steps[i].ok
         \/ \E i \in DOMAIN steps : Try(steps, value) = steps[i] /\ ~steps[i].ok
<1> DEFINE failed == {i \in DOMAIN steps : ~steps[i].ok}
<1>1. CASE failed = {}
  BY <1>1 DEF Try, Good
<1>2. CASE failed /= {}
  <2>1. Min(failed) \in failed
    <3>1. failed \subseteq Nat
      OBVIOUS
    <3> HIDE DEF failed
    <3>2. \E n \in failed : \A m \in failed : n <= m
      BY <1>2, <3>1, LeastNatural
    <3> QED BY <3>2 DEF Min
  <2> QED BY <1>2, <2>1 DEF Try
<1> QED BY <1>1, <1>2

LEMMA TryTwo ==
  ASSUME NEW a, NEW b, NEW value
  PROVE  /\ Try(<<a, b>>, value).ok => Try(<<a, b>>, value) = Good(value) /\ a.ok /\ b.ok
         /\ a.ok /\ b.ok => Try(<<a, b>>, value) = Good(value)
<1>1. PICK s : s = <<a, b>>
  OBVIOUS
<1>2. DOMAIN s = 1 .. 2 /\ s[1] = a /\ s[2] = b
  BY <1>1
<1>3. \/ Try(s, value) = Good(value) /\ \A i \in DOMAIN s : s[i].ok
      \/ \E i \in DOMAIN s : Try(s, value) = s[i] /\ ~s[i].ok
  BY <1>2, TryHolds
<1>4. 1 \in 1 .. 2 /\ 2 \in 1 .. 2 /\ \A i \in 1 .. 2 : i = 1 \/ i = 2
  OBVIOUS
<1>5. /\ Try(s, value).ok => Try(s, value) = Good(value) /\ a.ok /\ b.ok
      /\ a.ok /\ b.ok => Try(s, value) = Good(value)
  BY <1>2, <1>3, <1>4
<1> QED BY <1>1, <1>5

LEMMA FieldsHold ==
  ASSUME NEW order, DOMAIN order \subseteq Nat, NEW results
  PROVE  LET r == Fields(order, results)
         IN  \/ /\ r = Good([k \in DOMAIN results |-> results[k].value])
                /\ \A i \in DOMAIN order : results[order[i]].ok
             \/ \E i \in DOMAIN order : r = results[order[i]] /\ ~results[order[i]].ok
<1> DEFINE steps == [i \in DOMAIN order |-> results[order[i]]]
           value == [k \in DOMAIN results |-> results[k].value]
<1>1. DOMAIN steps = DOMAIN order /\ \A i \in DOMAIN order : steps[i] = results[order[i]]
  OBVIOUS
<1>2. Fields(order, results) = Try(steps, value)
  BY DEF Fields
<1> HIDE DEF steps, value
<1>3. \/ Try(steps, value) = Good(value) /\ \A i \in DOMAIN steps : steps[i].ok
      \/ \E i \in DOMAIN steps : Try(steps, value) = steps[i] /\ ~steps[i].ok
  BY <1>1, TryHolds
<1>4. \/ Fields(order, results) = Good(value) /\ \A i \in DOMAIN order : results[order[i]].ok
      \/ \E i \in DOMAIN order : Fields(order, results) = results[order[i]] /\ ~results[order[i]].ok
  BY <1>1, <1>2, <1>3
<1> QED BY <1>4 DEF value

-----------------------------------------------------------------------------
LEMMA Squares ==
  ASSUME NEW a \in Int, NEW b \in Int
  PROVE  LET n == Abs(a) + Abs(b) IN n \in Nat /\ a * a + b * b \in Nat /\ a * a + b * b < (n + 1) * (n + 1)
<1> DEFINE x == Abs(a)
           y == Abs(b)
<1>1. x \in Nat /\ y \in Nat /\ x * x = a * a /\ y * y = b * b
  <2>1. \A c \in Int : Abs(c) \in Nat /\ Abs(c) * Abs(c) = c * c
    <3> SUFFICES ASSUME NEW c \in Int PROVE Abs(c) \in Nat /\ Abs(c) * Abs(c) = c * c
      OBVIOUS
    <3>1. CASE c < 0
      <4>1. (-c) * (-c) = c * c /\ -c \in Nat
        BY <3>1
      <4> QED BY <3>1, <4>1 DEF Abs
    <3>2. CASE ~(c < 0)
      BY <3>2 DEF Abs
    <3> QED BY <3>1, <3>2
  <2> QED BY <2>1
<1> HIDE DEF x, y
<1>2. x * x \in Nat /\ y * y \in Nat /\ x * y \in Nat
  BY <1>1
<1>3. (x + y + 1) * (x + y + 1) = x * x + y * y + 2 * (x * y) + 2 * x + 2 * y + 1
  BY <1>1
<1>4. x * x + y * y < (x + y + 1) * (x + y + 1)
  BY <1>1, <1>2, <1>3
<1>5. x + y \in Nat /\ a * a + b * b \in Nat /\ a * a + b * b < (x + y + 1) * (x + y + 1)
  BY <1>1, <1>2, <1>4
<1> QED BY <1>5 DEF x, y

\* A distance is a number.
LEMMA HypotType ==
  ASSUME NEW a \in Int, NEW b \in Int
  PROVE  Hypot(a, b) \in Nat
<1> DEFINE n == Abs(a) + Abs(b)
           square == a * a + b * b
           Above == {m \in Nat : square < (m + 1) * (m + 1)}
<1>1. n \in Nat /\ square \in Nat /\ n \in Above
  BY Squares
<1>2. PICK h \in Above : \A m \in Above : h <= m
  <2>1. Above \subseteq Nat /\ Above /= {}
    BY <1>1
  <2> HIDE DEF Above
  <2> QED BY <2>1, LeastNatural
<1> HIDE DEF n, square
<1>3. h \in 0 .. n
  BY <1>1, <1>2
<1>4. h * h <= square
  <2>1. CASE h = 0
    <3>1. h * h = 0
      BY <2>1
    <3> QED BY <1>1, <3>1
  <2>2. CASE h /= 0
    <3>1. h - 1 \in Nat /\ (h - 1) + 1 = h /\ ~(h <= h - 1)
      BY <1>2, <2>2
    <3>2. h - 1 \notin Above
      BY <1>2, <3>1
    <3>3. ~(square < h * h)
      BY <3>1, <3>2
    <3>4. h * h \in Int
      BY <1>2
    <3> QED BY <1>1, <3>3, <3>4
  <2> QED BY <2>1, <2>2
<1>5. square < (h + 1) * (h + 1)
  BY <1>2
<1>6. \E i \in 0 .. n : i * i <= square /\ square < (i + 1) * (i + 1)
  BY <1>3, <1>4, <1>5
<1>7. Hypot(a, b) = CHOOSE i \in 0 .. n : i * i <= square /\ square < (i + 1) * (i + 1)
  BY DEF Hypot, n, square
<1>8. Hypot(a, b) \in 0 .. n
  BY <1>6, <1>7
<1> QED BY <1>1, <1>8

LEMMA ProductsArePositive ==
  ASSUME NEW a \in Nat \ {0}, NEW b \in Nat \ {0}
  PROVE  a * b \in Nat \ {0}
OBVIOUS

Fractions == [at : Nat, over : Nat \ {0}]

\* A weight is a fraction, and zero from the edge on only.
LEMMA WendlandHolds ==
  ASSUME NEW x \in Nat, NEW r \in Nat \ {0}
  PROVE  LET w == Wendland(x, r)
         IN  w \in Fractions /\ (w.at > 0 <=> x < r)
<1>1. CASE x >= r
  BY <1>1 DEF Wendland, Fractions
<1>2. CASE ~(x >= r)
  <2> DEFINE u == r - x
             k == 4 * x + r
  <2>1. u \in Nat \ {0} /\ k \in Nat \ {0}
    BY <1>2
  <2>2. Wendland(x, r) = [at |-> u * u * u * u * k, over |-> r * r * r * r * r]
    BY <1>2 DEF Wendland
  <2> HIDE DEF u, k
  <2>3. u * u * u * u * k \in Nat \ {0}
    <3>1. u * u \in Nat \ {0}
      BY <2>1, ProductsArePositive
    <3>2. u * u * u \in Nat \ {0}
      BY <2>1, <3>1, ProductsArePositive
    <3>3. u * u * u * u \in Nat \ {0}
      BY <2>1, <3>2, ProductsArePositive
    <3> QED BY <2>1, <3>3, ProductsArePositive
  <2>4. r * r * r * r * r \in Nat \ {0}
    <3>1. r * r \in Nat \ {0}
      BY ProductsArePositive
    <3>2. r * r * r \in Nat \ {0}
      BY <3>1, ProductsArePositive
    <3>3. r * r * r * r \in Nat \ {0}
      BY <3>2, ProductsArePositive
    <3> QED BY <3>3, ProductsArePositive
  <2>5. /\ Wendland(x, r).at = u * u * u * u * k
        /\ Wendland(x, r).over = r * r * r * r * r
    BY <2>2
  <2>6. Wendland(x, r) \in Fractions
    BY <2>2, <2>3, <2>4 DEF Fractions
  <2> QED BY <1>2, <2>3, <2>5, <2>6
<1> QED BY <1>1, <1>2

\* A function that is defined by what it is one step before.
Recurses(f, n, base, g) == f[0] = base /\ \A i \in 1 .. n : f[i] = g[<<i, f[i - 1]>>]

LEMMA RecursionExists ==
  ASSUME NEW V, NEW base \in V, NEW n \in Nat, NEW g \in [(1 .. n) \X V -> V]
  PROVE  \E f \in [0 .. n -> V] : Recurses(f, n, base, g)
<1> DEFINE Up(m) == \E f \in [0 .. m -> V] : Recurses(f, m, base, g)
           T == {m \in 0 .. n : ~Up(m)}
<1>1. Up(0)
  <2> DEFINE f == [i \in 0 .. 0 |-> base]
  <2>1. f \in [0 .. 0 -> V] /\ f[0] = base /\ 1 .. 0 = {}
    OBVIOUS
  <2> HIDE DEF f
  <2> QED BY <2>1 DEF Recurses
<1>2. ASSUME NEW m \in 1 .. n, Up(m - 1)
      PROVE  Up(m)
  <2>1. PICK f \in [0 .. m - 1 -> V] : Recurses(f, m - 1, base, g)
    BY <1>2
  <2>2. m - 1 \in 0 .. m - 1 /\ f[m - 1] \in V /\ <<m, f[m - 1]>> \in (1 .. n) \X V
    BY <2>1
  <2> DEFINE h == [i \in 0 .. m |-> IF i = m THEN g[<<m, f[m - 1]>>] ELSE f[i]]
  <2>3. h \in [0 .. m -> V]
    <3>1. \A i \in 0 .. m : i = m \/ i \in 0 .. m - 1
      OBVIOUS
    <3> QED BY <2>2, <3>1
  <2>4. h[0] = base
    BY <2>1 DEF Recurses
  <2>5. ASSUME NEW i \in 1 .. m PROVE h[i] = g[<<i, h[i - 1]>>]
    <3>1. h[i - 1] = f[i - 1]
      OBVIOUS
    <3>2. i /= m => i \in 1 .. m - 1 /\ h[i] = f[i]
      OBVIOUS
    <3>3. i = m => h[i] = g[<<m, f[m - 1]>>]
      OBVIOUS
    <3> HIDE DEF h
    <3> QED BY <2>1, <3>1, <3>2, <3>3 DEF Recurses
  <2> HIDE DEF h
  <2> QED BY <2>3, <2>4, <2>5 DEF Recurses
<1>3. T = {}
  <2> SUFFICES ASSUME T /= {} PROVE FALSE
    OBVIOUS
  <2>1. PICK m \in T : \A k \in T : m <= k
    <3>1. T \subseteq Nat
      OBVIOUS
    <3> HIDE DEF T
    <3> QED BY <3>1, LeastNatural
  <2> HIDE DEF Up
  <2>2. m \in 1 .. n /\ m - 1 \in 0 .. n /\ m - 1 \notin T
    BY <1>1, <2>1
  <2> QED BY <1>2, <2>1, <2>2
<1> HIDE DEF Up
<1>4. Up(n)
  BY <1>3
<1> QED BY <1>4 DEF Up

\* What is said of a function that grows so, said of its base and kept by its steps.
LEMMA RecursionHolds ==
  ASSUME NEW n \in Nat, NEW H, 0 \in H, \A i \in 1 .. n : i - 1 \in H => i \in H
  PROVE  n \in H
<1> DEFINE T == {m \in 0 .. n : m \notin H}
<1>1. ASSUME T /= {} PROVE FALSE
  <2>1. PICK m \in T : \A k \in T : m <= k
    <3>1. T \subseteq Nat
      OBVIOUS
    <3> HIDE DEF T
    <3> QED BY <1>1, <3>1, LeastNatural
  <2>2. m \in 1 .. n /\ m - 1 \in 0 .. n /\ m - 1 \notin T
    BY <2>1
  <2> QED BY <2>1, <2>2
<1> QED BY <1>1

-----------------------------------------------------------------------------
LEMMA PlusHolds ==
  ASSUME NEW a \in Fractions, NEW b \in Fractions
  PROVE  /\ Plus(a, b) \in Fractions
         /\ a.at = 0 /\ b.at = 0 => Plus(a, b).at = 0
<1>1. a.at \in Nat /\ b.at \in Nat /\ a.over \in Nat \ {0} /\ b.over \in Nat \ {0}
  BY DEF Fractions
<1>2. /\ a.at * b.over \in Nat /\ b.at * a.over \in Nat /\ a.over * b.over \in Nat \ {0}
      /\ a.at = 0 => a.at * b.over = 0
      /\ b.at = 0 => b.at * a.over = 0
  <2>1. a.over * b.over \in Nat \ {0}
    BY <1>1, ProductsArePositive
  <2> QED BY <1>1, <2>1
<1> QED BY <1>2 DEF Plus, Fractions

\* The weights of terms, added up.
Added(weight, sum) ==
  sum = [i \in 0 .. Len(weight) |->
           IF i = 0 THEN [at |-> 0, over |-> 1] ELSE Plus(sum[i - 1], weight[i])]

Coverage(weight) == (CHOOSE sum : Added(weight, sum))[Len(weight)]

LEMMA CoverageHolds ==
  ASSUME NEW weight \in Seq(Fractions)
  PROVE  /\ Coverage(weight) \in Fractions
         /\ (\A i \in 1 .. Len(weight) : weight[i].at = 0) => Coverage(weight).at = 0
<1> DEFINE n == Len(weight)
           base == [at |-> 0, over |-> 1]
           g == [x \in (1 .. n) \X Fractions |-> Plus(x[2], weight[x[1]])]
<1>1. n \in Nat /\ base \in Fractions /\ \A i \in 1 .. n : weight[i] \in Fractions
  <2>1. base \in Fractions
    BY DEF Fractions
  <2>2. n \in Nat /\ \A i \in 1 .. n : weight[i] \in Fractions
    OBVIOUS
  <2> QED BY <2>1, <2>2
<1>2. g \in [(1 .. n) \X Fractions -> Fractions]
  BY <1>1, PlusHolds
<1>3. \A i \in 1 .. n : \A v \in Fractions : g[<<i, v>>] = Plus(v, weight[i])
  OBVIOUS
<1> HIDE DEF g, base
<1>4. PICK f \in [0 .. n -> Fractions] : Recurses(f, n, base, g)
  <2> HIDE DEF n
  <2> QED BY <1>1, <1>2, RecursionExists
<1>5. \A i \in 1 .. n : f[i - 1] \in Fractions /\ f[i] = Plus(f[i - 1], weight[i])
  <2> SUFFICES ASSUME NEW i \in 1 .. n
               PROVE  f[i - 1] \in Fractions /\ f[i] = Plus(f[i - 1], weight[i])
    OBVIOUS
  <2>1. i - 1 \in 0 .. n
    BY <1>1
  <2>2. f[i - 1] \in Fractions
    BY <1>4, <2>1
  <2>3. f[i] = g[<<i, f[i - 1]>>]
    BY <1>4 DEF Recurses
  <2> QED BY <1>3, <2>2, <2>3
<1>6. Added(weight, f)
  <2>1. f = [i \in 0 .. n |-> f[i]]
    BY <1>4
  <2>2. \A i \in 0 .. n : f[i] = IF i = 0 THEN base ELSE Plus(f[i - 1], weight[i])
    BY <1>1, <1>4, <1>5 DEF Recurses
  <2> QED BY <2>1, <2>2 DEF Added, n, base
<1>7. PICK sum : sum = CHOOSE s : Added(weight, s)
  OBVIOUS
<1>8. Added(weight, sum)
  BY <1>6, <1>7
<1>9. sum[0] = base /\ \A i \in 1 .. n : sum[i] = Plus(sum[i - 1], weight[i])
  BY <1>1, <1>8 DEF Added, n, base
<1>10. sum[n] \in Fractions
  <2> DEFINE H == {i \in 0 .. n : sum[i] \in Fractions}
  <2>1. 0 \in H /\ \A i \in 1 .. n : i - 1 \in H => i \in H
    BY <1>1, <1>9, PlusHolds
  <2> HIDE DEF H, n
  <2>2. n \in H
    BY <1>1, <2>1, RecursionHolds
  <2> QED BY <2>2 DEF H
<1>11. ASSUME \A i \in 1 .. n : weight[i].at = 0
       PROVE  sum[n].at = 0
  <2> DEFINE H == {i \in 0 .. n : sum[i] \in Fractions /\ sum[i].at = 0}
  <2>1. 0 \in H
    BY <1>1, <1>9 DEF base
  <2>2. \A i \in 1 .. n : i - 1 \in H => i \in H
    BY <1>1, <1>9, <1>11, PlusHolds
  <2> HIDE DEF H, n
  <2>3. n \in H
    BY <1>1, <2>1, <2>2, RecursionHolds
  <2> QED BY <2>3 DEF H
<1> QED BY <1>7, <1>10, <1>11 DEF Coverage, n

-----------------------------------------------------------------------------
OfDegree(degree) == [j \in 1 .. degree + 1 |-> <<degree - (j - 1), j - 1>>]

Longer(list, m) == list \o OfDegree(m - 1)

Grown(below, order) ==
  below = [m \in 0 .. order |-> IF m = 0 THEN <<>> ELSE Longer(below[m - 1], m)]

LEMMA LongerHolds ==
  ASSUME NEW m \in Nat \ {0}, NEW list \in Seq(Nat \X Nat)
  PROVE  Longer(list, m) \in Seq(Nat \X Nat) /\ Len(Longer(list, m)) = Len(list) + m
<1> DEFINE s == [j \in 1 .. m |-> <<(m - 1) - (j - 1), j - 1>>]
<1>1. OfDegree(m - 1) = s
  <2>1. (m - 1) + 1 = m
    OBVIOUS
  <2> QED BY <2>1 DEF OfDegree
<1>2. \A j \in 1 .. m : (m - 1) - (j - 1) \in Nat /\ j - 1 \in Nat
  OBVIOUS
<1>3. s \in [1 .. m -> Nat \X Nat]
  BY <1>2
<1> HIDE DEF s
<1>4. s \in Seq(Nat \X Nat) /\ Len(s) = m
  BY <1>3
<1>5. list \o s \in Seq(Nat \X Nat) /\ Len(list \o s) = Len(list) + Len(s)
  BY <1>4, ConcatProperties
<1> QED BY <1>1, <1>4, <1>5 DEF Longer

\* Monomials are as many as the polynomial has terms.
LEMMA MonomialsAreCounted ==
  ASSUME NEW order \in Int
  PROVE  Len(Monomials(order)) = IF order >= 1 THEN (order * (order + 1)) \div 2 ELSE 0
<1>1. CASE ~(order >= 1)
  BY <1>1 DEF Monomials
<1>2. CASE order >= 1
  <2> DEFINE V == Seq(Nat \X Nat)
             g == [x \in (1 .. order) \X V |-> Longer(x[2], x[1])]
  <2>1. order \in Nat /\ 0 \in 0 .. order /\ order \in 0 .. order
    BY <1>2
  <2>2. PICK base : base = <<>>
    OBVIOUS
  <2>3. base \in V /\ Len(base) = 0
    BY <2>2
  <2>4. \A i \in 1 .. order : \A v \in V : Longer(v, i) \in V /\ Len(Longer(v, i)) = Len(v) + i
    <3> SUFFICES ASSUME NEW i \in 1 .. order, NEW v \in V
                 PROVE  Longer(v, i) \in V /\ Len(Longer(v, i)) = Len(v) + i
      OBVIOUS
    <3>1. i \in Nat \ {0}
      OBVIOUS
    <3> QED BY <3>1, LongerHolds
  <2>5. \A v \in V : Len(v) \in Nat
    OBVIOUS
  <2> HIDE DEF V
  <2>6. g \in [(1 .. order) \X V -> V]
    BY <2>4
  <2>7. \A i \in 1 .. order : \A v \in V : g[<<i, v>>] = Longer(v, i)
    OBVIOUS
  <2> HIDE DEF g
  <2>8. PICK f \in [0 .. order -> V] : Recurses(f, order, base, g)
    BY <2>1, <2>3, <2>6, RecursionExists
  <2>9. ASSUME NEW i \in 1 .. order
        PROVE  f[i] = Longer(f[i - 1], i)
    <3>1. i - 1 \in 0 .. order
      OBVIOUS
    <3>2. f[i - 1] \in V
      BY <2>8, <3>1
    <3>3. f[i] = g[<<i, f[i - 1]>>]
      BY <2>8 DEF Recurses
    <3> QED BY <2>7, <3>2, <3>3
  <2>10. Grown(f, order)
    <3>1. f = [i \in 0 .. order |-> f[i]]
      BY <2>8
    <3>2. f[0] = base
      BY <2>8 DEF Recurses
    <3>3. \A i \in 0 .. order : f[i] = IF i = 0 THEN base ELSE Longer(f[i - 1], i)
      BY <2>1, <2>9, <3>2
    <3> QED BY <2>2, <3>1, <3>3 DEF Grown
  <2>11. PICK below : below = CHOOSE b : Grown(b, order)
    OBVIOUS
  <2>12. Grown(below, order)
    BY <2>10, <2>11
  <2>13. below[0] = base /\ \A i \in 1 .. order : below[i] = Longer(below[i - 1], i)
    BY <2>1, <2>2, <2>12 DEF Grown
  <2> DEFINE H == {i \in 0 .. order : below[i] \in V /\ 2 * Len(below[i]) = i * (i + 1)}
  <2>14. 0 \in H
    <3>1. 0 * (0 + 1) = 0 /\ 2 * 0 = 0
      OBVIOUS
    <3> QED BY <2>1, <2>3, <2>13, <3>1
  <2>15. ASSUME NEW i \in 1 .. order, i - 1 \in H
         PROVE  i \in H
    <3> DEFINE v == below[i - 1]
    <3>1. below[i] = Longer(v, i) /\ v \in V /\ 2 * Len(v) = (i - 1) * ((i - 1) + 1)
      BY <2>13, <2>15
    <3>2. below[i] \in V /\ Len(below[i]) = Len(v) + i /\ Len(v) \in Nat
      BY <2>4, <2>5, <3>1
    <3>3. (i - 1) * ((i - 1) + 1) + 2 * i = i * (i + 1)
      OBVIOUS
    <3> HIDE DEF v
    <3>4. 2 * (Len(v) + i) = 2 * Len(v) + 2 * i
      BY <3>2
    <3>5. 2 * Len(below[i]) = i * (i + 1)
      BY <3>1, <3>2, <3>3, <3>4
    <3> QED BY <3>2, <3>5
  <2>16. order \in H
    <3> HIDE DEF H
    <3> QED BY <2>1, <2>14, <2>15, RecursionHolds
  <2>17. Monomials(order) = below[order]
    <3>1. ~(order < 1)
      BY <1>2
    <3>2. Monomials(order) = (CHOOSE b : Grown(b, order))[order]
      BY <3>1 DEF Monomials, Grown, Longer, OfDegree
    <3> QED BY <2>11, <3>2
  <2>18. Len(below[order]) \in Nat /\ 2 * Len(below[order]) = order * (order + 1)
    BY <2>5, <2>16
  <2>19. \A m, n \in Nat : 2 * m = n => m = n \div 2
    OBVIOUS
  <2>20. order * (order + 1) \in Nat
    BY <2>1
  <2>21. Len(below[order]) = (order * (order + 1)) \div 2
    BY <2>18, <2>19, <2>20
  <2> QED BY <1>2, <2>17, <2>21
<1> QED BY <1>1, <1>2

-----------------------------------------------------------------------------
\* One fraction is no larger than another, and that one than a third.
LEMMA FractionsOrdered ==
  ASSUME NEW a \in Nat, NEW b \in Nat, NEW c \in Nat,
         NEW p \in Nat \ {0}, NEW q \in Nat \ {0}, NEW r \in Nat \ {0},
         a * q <= b * p, b * r <= c * q
  PROVE  /\ a * r <= c * p
         /\ (a * q < b * p \/ b * r < c * q) => a * r < c * p
<1> DEFINE x == a * r
           y == c * p
<1>1. x \in Nat /\ y \in Nat
  OBVIOUS
<1>2. (a * q) * r <= (b * p) * r /\ (b * r) * p <= (c * q) * p
  OBVIOUS
<1>3. /\ (a * q < b * p) => (a * q) * r < (b * p) * r
      /\ (b * r < c * q) => (b * r) * p < (c * q) * p
  OBVIOUS
<1>4. (a * q) * r = x * q /\ (b * p) * r = (b * r) * p /\ (c * q) * p = y * q
  OBVIOUS
<1>5. x * q <= y * q /\ ((a * q < b * p \/ b * r < c * q) => x * q < y * q)
  BY <1>2, <1>3, <1>4
<1>6. \A m, n \in Nat : (m * q <= n * q => m <= n) /\ (m * q < n * q => m < n)
  OBVIOUS
<1> QED BY <1>1, <1>5, <1>6

IsTerm(t) == t.center[1] \in Int /\ t.center[2] \in Int /\ t.radius \in Nat \ {0}

LEMMA DistanceType ==
  ASSUME NEW t, IsTerm(t), NEW p \in Int \X Int
  PROVE  Distance(t, p) \in Nat
<1>1. p[1] - t.center[1] \in Int /\ p[2] - t.center[2] \in Int
  BY DEF IsTerm
<1> QED BY <1>1, HypotType DEF Distance

Nearer(local, p, i, j) ==
  LET di == Distance(local[i], p) * local[j].radius
      dj == Distance(local[j], p) * local[i].radius
  IN  di < dj \/ (di = dj /\ i < j)

\* Of terms one is the nearest.
LEMMA NearestHolds ==
  ASSUME NEW local, NEW n \in Nat \ {0}, DOMAIN local = 1 .. n, local /= <<>>,
         \A i \in 1 .. n : IsTerm(local[i]), NEW p \in Int \X Int
  PROVE  Nearest(local, p) \in 1 .. n
<1> DEFINE d == [i \in 1 .. n |-> Distance(local[i], p)]
           r == [i \in 1 .. n |-> local[i].radius]
           Best(b, m) == b \in 1 .. m /\ \A j \in (1 .. m) \ {b} : Nearer(local, p, b, j)
           H == {0} \cup {m \in 1 .. n : \E b \in 1 .. m : Best(b, m)}
<1>1. \A i \in 1 .. n : d[i] \in Nat /\ r[i] \in Nat \ {0}
  BY DistanceType DEF IsTerm
<1>2. \A i, j \in 1 .. n : Nearer(local, p, i, j) <=> d[i] * r[j] < d[j] * r[i] \/ (d[i] * r[j] = d[j] * r[i] /\ i < j)
  BY DEF Nearer
<1> HIDE DEF d, r
<1>3. ASSUME NEW i \in 1 .. n, NEW j \in 1 .. n, i /= j
      PROVE  Nearer(local, p, i, j) \/ Nearer(local, p, j, i)
  <2>1. d[i] * r[j] \in Nat /\ d[j] * r[i] \in Nat
    BY <1>1
  <2> QED BY <1>2, <1>3, <2>1
<1>4. ASSUME NEW i \in 1 .. n, NEW j \in 1 .. n, NEW k \in 1 .. n,
             Nearer(local, p, i, j), Nearer(local, p, j, k)
      PROVE  Nearer(local, p, i, k)
  <2>1. /\ d[i] \in Nat /\ d[j] \in Nat /\ d[k] \in Nat
        /\ r[i] \in Nat \ {0} /\ r[j] \in Nat \ {0} /\ r[k] \in Nat \ {0}
    BY <1>1
  <2>0. \A a, b \in 1 .. n : d[a] * r[b] \in Nat
    <3> SUFFICES ASSUME NEW a \in 1 .. n, NEW b \in 1 .. n PROVE d[a] * r[b] \in Nat
      OBVIOUS
    <3>1. d[a] \in Nat /\ r[b] \in Nat
      BY <1>1
    <3> QED BY <3>1
  <2>2. d[i] * r[j] <= d[j] * r[i] /\ d[j] * r[k] <= d[k] * r[j]
    <3>1. d[i] * r[j] < d[j] * r[i] \/ d[i] * r[j] = d[j] * r[i]
      BY <1>2, <1>4
    <3>2. d[j] * r[k] < d[k] * r[j] \/ d[j] * r[k] = d[k] * r[j]
      BY <1>2, <1>4
    <3>3. /\ d[i] * r[j] \in Nat /\ d[j] * r[i] \in Nat
          /\ d[j] * r[k] \in Nat /\ d[k] * r[j] \in Nat
      BY <2>0
    <3>4. \A x, y \in Nat : x < y \/ x = y => x <= y
      OBVIOUS
    <3> QED BY <3>1, <3>2, <3>3, <3>4, Zenon
  <2>3. /\ d[i] * r[k] <= d[k] * r[i]
        /\ (d[i] * r[j] < d[j] * r[i] \/ d[j] * r[k] < d[k] * r[j]) => d[i] * r[k] < d[k] * r[i]
    BY <2>1, <2>2, FractionsOrdered
  <2>4. d[i] * r[k] \in Nat /\ d[k] * r[i] \in Nat
    BY <2>0
  <2>5. CASE d[i] * r[k] < d[k] * r[i]
    BY <1>2, <2>5
  <2>6. CASE ~(d[i] * r[k] < d[k] * r[i])
    <3>1. ~(d[i] * r[j] < d[j] * r[i]) /\ ~(d[j] * r[k] < d[k] * r[j])
      BY <2>3, <2>6
    <3>2. i < j /\ j < k
      BY <1>2, <1>4, <3>1
    <3>3. i < k
      BY <3>2
    <3> QED BY <1>2, <2>3, <2>4, <2>6, <3>3
  <2> QED BY <2>5, <2>6
<1>5. ASSUME NEW m \in 1 .. n, m - 1 \in H
      PROVE  m \in H
  <2>1. CASE m = 1
    <3>1. Best(1, 1)
      OBVIOUS
    <3> HIDE DEF Best
    <3> QED BY <2>1, <3>1
  <2>2. CASE m /= 1
    <3>1. PICK b \in 1 .. m - 1 : Best(b, m - 1)
      <4>1. m - 1 /= 0
        BY <2>2
      <4> HIDE DEF Best
      <4> QED BY <1>5, <4>1
    <3>2. b \in 1 .. n /\ b \in 1 .. m /\ b /= m /\ \A j \in 1 .. m : j = m \/ j \in 1 .. m - 1
      OBVIOUS
    <3>3. \A j \in (1 .. m - 1) \ {b} : j \in 1 .. n /\ Nearer(local, p, b, j)
      BY <3>1
    <3>4. CASE Nearer(local, p, b, m)
      <4>1. Best(b, m)
        BY <3>2, <3>3, <3>4
      <4> HIDE DEF Best
      <4> QED BY <3>2, <4>1
    <3>5. CASE ~Nearer(local, p, b, m)
      <4>1. Nearer(local, p, m, b)
        BY <1>3, <3>2, <3>5
      <4>2. \A j \in (1 .. m - 1) \ {b} : Nearer(local, p, m, j)
        BY <1>4, <3>2, <3>3, <4>1
      <4>3. Best(m, m)
        BY <3>2, <4>1, <4>2
      <4>4. m \in 1 .. m
        OBVIOUS
      <4> HIDE DEF Best
      <4> QED BY <4>3, <4>4
    <3> QED BY <3>4, <3>5
  <2> QED BY <2>1, <2>2
<1>6. n \in H
  <2>1. 0 \in H
    OBVIOUS
  <2> HIDE DEF H
  <2> QED BY <1>5, <2>1, RecursionHolds
<1>7. PICK b \in 1 .. n : Best(b, n)
  <2> HIDE DEF Best
  <2> QED BY <1>6
<1>8. Nearest(local, p) = CHOOSE i \in 1 .. n : \A j \in (1 .. n) \ {i} : Nearer(local, p, i, j)
  BY DEF Nearest, Nearer
<1>9. \E i \in 1 .. n : \A j \in (1 .. n) \ {i} : Nearer(local, p, i, j)
  BY <1>7
<1> QED BY <1>8, <1>9

-----------------------------------------------------------------------------
Local(d) == \E S : d.local \in Seq(S) /\ \A t \in S : IsTerm(t)

Weights(d, p) ==
  [i \in DOMAIN d.local |-> Wendland(Distance(d.local[i], p), d.local[i].radius)]

LEMMA WeightsHold ==
  ASSUME NEW d, Local(d), NEW p \in Int \X Int
  PROVE  /\ Weights(d, p) \in Seq(Fractions)
         /\ Len(Weights(d, p)) = Len(d.local) /\ DOMAIN d.local = 1 .. Len(d.local)
         /\ \A i \in 1 .. Len(d.local) :
              /\ IsTerm(d.local[i]) /\ Distance(d.local[i], p) \in Nat
              /\ Weights(d, p)[i].at > 0 <=> Distance(d.local[i], p) < d.local[i].radius
<1> DEFINE local == d.local
           n == Len(local)
           w == [i \in 1 .. n |-> Wendland(Distance(local[i], p), local[i].radius)]
<1>1. DOMAIN local = 1 .. n /\ n \in Nat /\ \A i \in 1 .. n : IsTerm(local[i])
  BY DEF Local
<1>2. ASSUME NEW i \in 1 .. n
      PROVE  Distance(local[i], p) \in Nat /\ local[i].radius \in Nat \ {0}
  <2>1. IsTerm(local[i])
    BY <1>1
  <2> QED BY <2>1, DistanceType DEF IsTerm
<1>3. ASSUME NEW i \in 1 .. n
      PROVE  /\ Wendland(Distance(local[i], p), local[i].radius) \in Fractions
             /\ Wendland(Distance(local[i], p), local[i].radius).at > 0
                  <=> Distance(local[i], p) < local[i].radius
  BY <1>2, WendlandHolds
<1>4. Weights(d, p) = w
  BY <1>1 DEF Weights
<1>5. w \in [1 .. n -> Fractions] /\ \A i \in 1 .. n : w[i] = Wendland(Distance(local[i], p), local[i].radius)
  BY <1>3
<1> HIDE DEF w, n, local
<1>6. w \in Seq(Fractions) /\ Len(w) = n
  BY <1>1, <1>5
<1>7. \A i \in 1 .. n : /\ IsTerm(local[i]) /\ Distance(local[i], p) \in Nat
                        /\ w[i].at > 0 <=> Distance(local[i], p) < local[i].radius
  BY <1>1, <1>2, <1>3, <1>5
<1> QED BY <1>1, <1>4, <1>6, <1>7 DEF local, n

Covered(d, p) ==
  d.fallback /= None =>
    Coverage(Weights(d, p)).at * WeightUnit >= d.fallback.threshold * Coverage(Weights(d, p)).over

\* Residual, by its parts.
LEMMA ResidualIs ==
  ASSUME NEW d, NEW p, Len(Weights(d, p)) = Len(d.local), DOMAIN d.local = 1 .. Len(d.local)
  PROVE  LET weighed == (IF d.global = None THEN {} ELSE {<<"Global", 0>>})
                          \cup {<<"Local", i>> : i \in {j \in DOMAIN d.local : Weights(d, p)[j].at > 0}}
                          \cup (IF Covered(d, p) THEN {} ELSE {<<"Fallback", 0>>})
         IN  Residual(d, p) = [weighed |-> weighed,
                               nearest |-> IF weighed = {} THEN Nearest(d.local, p) ELSE None]
BY DEF Residual, Covered, Coverage, Added, Weights

\* Where a Fallback term is, the nearest Local term is never what is left.
LEMMA ResidualHolds ==
  ASSUME NEW d, Local(d), d.fallback /= None => d.fallback.threshold \in Nat \ {0},
         NEW p \in Int \X Int, None \notin Nat
  PROVE  LET r == Residual(d, p)
         IN  /\ r.nearest /= None =>
                  /\ d.fallback = None /\ d.global = None
                  /\ \A i \in DOMAIN d.local : Distance(d.local[i], p) >= d.local[i].radius
             /\ r.weighed = {} /\ r.nearest = None =>
                  d.fallback = None /\ d.global = None /\ d.local = <<>>
<1> DEFINE w == Weights(d, p)
           local == d.local
           n == Len(local)
           r == Residual(d, p)
           edge == {j \in 1 .. n : w[j].at > 0}
<1>1. /\ w \in Seq(Fractions) /\ Len(w) = n /\ DOMAIN local = 1 .. n
      /\ \A i \in 1 .. n : /\ IsTerm(local[i]) /\ Distance(local[i], p) \in Nat
                           /\ w[i].at > 0 <=> Distance(local[i], p) < local[i].radius
  BY WeightsHold
<1>2. PICK weighed : weighed = (IF d.global = None THEN {} ELSE {<<"Global", 0>>})
                                 \cup {<<"Local", i>> : i \in edge}
                                 \cup (IF Covered(d, p) THEN {} ELSE {<<"Fallback", 0>>})
  OBVIOUS
<1>3. r = [weighed |-> weighed, nearest |-> IF weighed = {} THEN Nearest(local, p) ELSE None]
  <2>1. {j \in DOMAIN d.local : Weights(d, p)[j].at > 0} = edge
    BY <1>1
  <2>2. weighed = (IF d.global = None THEN {} ELSE {<<"Global", 0>>})
                    \cup {<<"Local", i>> : i \in {j \in DOMAIN d.local : Weights(d, p)[j].at > 0}}
                    \cup (IF Covered(d, p) THEN {} ELSE {<<"Fallback", 0>>})
    BY <1>2, <2>1, Zenon
  <2>3. Len(Weights(d, p)) = Len(d.local) /\ DOMAIN d.local = 1 .. Len(d.local)
    BY <1>1
  <2>4. r = [weighed |-> (IF d.global = None THEN {} ELSE {<<"Global", 0>>})
                           \cup {<<"Local", i>> : i \in {j \in DOMAIN d.local : Weights(d, p)[j].at > 0}}
                           \cup (IF Covered(d, p) THEN {} ELSE {<<"Fallback", 0>>}),
             nearest |-> IF (IF d.global = None THEN {} ELSE {<<"Global", 0>>})
                              \cup {<<"Local", i>> : i \in {j \in DOMAIN d.local : Weights(d, p)[j].at > 0}}
                              \cup (IF Covered(d, p) THEN {} ELSE {<<"Fallback", 0>>}) = {}
                         THEN Nearest(d.local, p) ELSE None]
    <3> HIDE DEF w, n, local, edge
    <3> QED BY <2>3, ResidualIs, Zenon DEF r
  <2> QED BY <2>2, <2>4, Zenon
<1>4. weighed = {} => d.global = None /\ edge = {} /\ Covered(d, p)
  BY <1>2
<1>5. n \in Nat /\ \A i \in 1 .. n : w[i].at \in Nat
  <2> HIDE DEF w, n
  <2>1. n \in Nat /\ \A i \in 1 .. n : w[i] \in Fractions
    BY <1>1
  <2> QED BY <2>1 DEF Fractions
<1>6. edge = {} => \A i \in 1 .. n : w[i].at = 0
  BY <1>5
<1>7. ASSUME edge = {}, Covered(d, p), d.fallback /= None
      PROVE  FALSE
  <2> DEFINE c == Coverage(w)
             t == d.fallback.threshold
  <2>1. c \in Fractions /\ c.at = 0
    <3> HIDE DEF w, n, edge
    <3> QED BY <1>1, <1>6, <1>7, CoverageHolds
  <2>2. c.over \in Nat \ {0} /\ t \in Nat \ {0}
    BY <1>7, <2>1 DEF Fractions
  <2>3. c.at * WeightUnit >= t * c.over
    BY <1>7 DEF Covered
  <2>4. c.at * WeightUnit = 0
    BY <2>1, WeightAssumption
  <2> HIDE DEF c, t
  <2>5. t * c.over \in Nat \ {0}
    BY <2>2, ProductsArePositive
  <2> QED BY <2>3, <2>4, <2>5
<1>8. \A i \in 1 .. n : edge = {} => Distance(local[i], p) >= local[i].radius
  BY <1>1 DEF IsTerm
<1>9. local /= <<>> => Nearest(local, p) \in 1 .. n
  <2> SUFFICES ASSUME local /= <<>> PROVE Nearest(local, p) \in 1 .. n
    OBVIOUS
  <2>1. n \in Nat \ {0}
    BY DEF Local
  <2> HIDE DEF n, local, edge
  <2> QED BY <1>1, <2>1, NearestHolds
<1>10. Nearest(local, p) = None => local = <<>>
  BY <1>9
<1>11. /\ r.weighed = weighed
       /\ r.nearest /= None => weighed = {}
       /\ weighed = {} => r.nearest = Nearest(local, p)
  BY <1>3
<1> HIDE DEF w, n, r, edge, local
<1>12. r.nearest /= None =>
         /\ d.fallback = None /\ d.global = None
         /\ \A i \in DOMAIN local : Distance(local[i], p) >= local[i].radius
  BY <1>1, <1>4, <1>7, <1>8, <1>11
<1>13. r.weighed = {} /\ r.nearest = None => d.fallback = None /\ d.global = None /\ local = <<>>
  BY <1>4, <1>7, <1>10, <1>11
<1> QED BY <1>12, <1>13 DEF r, local

-----------------------------------------------------------------------------
\* Fields that are all read, by how many they are.
LEMMA FieldsRead ==
  ASSUME NEW order, DOMAIN order \subseteq Nat, NEW results, Fields(order, results).ok
  PROVE  /\ \A i \in DOMAIN order : results[order[i]].ok
         /\ Fields(order, results) = Good([k \in DOMAIN results |-> results[k].value])
<1>1. \/ /\ Fields(order, results) = Good([k \in DOMAIN results |-> results[k].value])
         /\ \A i \in DOMAIN order : results[order[i]].ok
      \/ \E i \in DOMAIN order : Fields(order, results) = results[order[i]] /\ ~results[order[i]].ok
  BY FieldsHold
<1> QED BY <1>1

LEMMA TwoRead ==
  ASSUME NEW a, NEW b, NEW results, Fields(<<a, b>>, results).ok
  PROVE  /\ results[a].ok /\ results[b].ok
         /\ Fields(<<a, b>>, results) = Good([k \in DOMAIN results |-> results[k].value])
<1>1. PICK order : order = <<a, b>>
  OBVIOUS
<1>2. DOMAIN order = 1 .. 2 /\ order[1] = a /\ order[2] = b /\ 1 \in 1 .. 2 /\ 2 \in 1 .. 2
  BY <1>1
<1>3. DOMAIN order \subseteq Nat /\ Fields(order, results).ok
  BY <1>1, <1>2
<1>4. /\ \A i \in DOMAIN order : results[order[i]].ok
      /\ Fields(order, results) = Good([k \in DOMAIN results |-> results[k].value])
  BY <1>3, FieldsRead
<1>5. results[a].ok /\ results[b].ok
  BY <1>2, <1>4
<1> QED BY <1>1, <1>4, <1>5

LEMMA ThreeRead ==
  ASSUME NEW a, NEW b, NEW c, NEW results, Fields(<<a, b, c>>, results).ok
  PROVE  /\ results[a].ok /\ results[b].ok /\ results[c].ok
         /\ Fields(<<a, b, c>>, results) = Good([k \in DOMAIN results |-> results[k].value])
<1>1. PICK order : order = <<a, b, c>>
  OBVIOUS
<1>2. /\ DOMAIN order = 1 .. 3 /\ order[1] = a /\ order[2] = b /\ order[3] = c
      /\ 1 \in 1 .. 3 /\ 2 \in 1 .. 3 /\ 3 \in 1 .. 3
  BY <1>1
<1>3. DOMAIN order \subseteq Nat /\ Fields(order, results).ok
  BY <1>1, <1>2
<1>4. /\ \A i \in DOMAIN order : results[order[i]].ok
      /\ Fields(order, results) = Good([k \in DOMAIN results |-> results[k].value])
  BY <1>3, FieldsRead
<1>5. results[a].ok /\ results[b].ok /\ results[c].ok
  BY <1>2, <1>4
<1> QED BY <1>1, <1>4, <1>5

LEMMA FourRead ==
  ASSUME NEW a, NEW b, NEW c, NEW e, NEW results, Fields(<<a, b, c, e>>, results).ok
  PROVE  /\ results[a].ok /\ results[b].ok /\ results[c].ok /\ results[e].ok
         /\ Fields(<<a, b, c, e>>, results) = Good([k \in DOMAIN results |-> results[k].value])
<1>1. PICK order : order = <<a, b, c, e>>
  OBVIOUS
<1>2. /\ DOMAIN order = 1 .. 4 /\ order[1] = a /\ order[2] = b /\ order[3] = c /\ order[4] = e
      /\ 1 \in 1 .. 4 /\ 2 \in 1 .. 4 /\ 3 \in 1 .. 4 /\ 4 \in 1 .. 4
  BY <1>1
<1>3. DOMAIN order \subseteq Nat /\ Fields(order, results).ok
  BY <1>1, <1>2
<1>4. /\ \A i \in DOMAIN order : results[order[i]].ok
      /\ Fields(order, results) = Good([k \in DOMAIN results |-> results[k].value])
  BY <1>3, FieldsRead
<1>5. results[a].ok /\ results[b].ok /\ results[c].ok /\ results[e].ok
  BY <1>2, <1>4
<1> QED BY <1>1, <1>4, <1>5

LEMMA FiveRead ==
  ASSUME NEW a, NEW b, NEW c, NEW e, NEW g, NEW results, Fields(<<a, b, c, e, g>>, results).ok
  PROVE  /\ results[a].ok /\ results[b].ok /\ results[c].ok /\ results[e].ok /\ results[g].ok
         /\ Fields(<<a, b, c, e, g>>, results) = Good([k \in DOMAIN results |-> results[k].value])
<1>1. PICK order : order = <<a, b, c, e, g>>
  OBVIOUS
<1>2. /\ DOMAIN order = 1 .. 5 /\ order[1] = a /\ order[2] = b /\ order[3] = c /\ order[4] = e
      /\ order[5] = g
      /\ 1 \in 1 .. 5 /\ 2 \in 1 .. 5 /\ 3 \in 1 .. 5 /\ 4 \in 1 .. 5 /\ 5 \in 1 .. 5
  BY <1>1
<1>3. DOMAIN order \subseteq Nat /\ Fields(order, results).ok
  BY <1>1, <1>2
<1>4. /\ \A i \in DOMAIN order : results[order[i]].ok
      /\ Fields(order, results) = Good([k \in DOMAIN results |-> results[k].value])
  BY <1>3, FieldsRead
<1>5. results[a].ok /\ results[b].ok /\ results[c].ok /\ results[e].ok /\ results[g].ok
  BY <1>2, <1>4
<1> QED BY <1>1, <1>4, <1>5

-----------------------------------------------------------------------------
\* What was gathered is stored under its own key.
Sound(f) ==
  /\ \A key \in DOMAIN f.blocks : IsStored(f.blocks[key]) /\ f.blocks[key].key = key
  /\ \A key \in DOMAIN f.scalars : IsText(Last(key), f.scalars[key])

LEMMA SizeType ==
  ASSUME NEW s \in Scalars \ {"Boolean"}
  PROVE  ScalarSize(s) \in Nat \ {0}
BY DEF ScalarSize, Scalars, Signed, Unsigned, Floats, Complexes

LEMMA BlockWordsHold ==
  ASSUME NEW b, IsStored(b), NEW property, NEW scalar \in Scalars \ {"Boolean"}, NEW shapes,
         BlockWords(b, property, scalar, shapes).ok
  PROVE  /\ BlockWords(b, property, scalar, shapes).value \in ValuesUnder(Key(b))
         /\ b.values /= None /\ property.kind.shape \in shapes
<1> DEFINE S == IF Key(b) = "Center" THEN Int ELSE Number
           size == ScalarSize(scalar)
           bytes == Len(b.values) * ScalarSize(b.written)
           read == [i \in 1 .. bytes \div size |-> Misread]
<1>1. b.values /= None /\ property.kind.shape \in shapes
  BY DEF BlockWords, Bad
<1>2. b.values \in Seq(S)
  BY <1>1 DEF IsStored, ValuesUnder
<1>3. bytes \in Nat /\ size \in Nat \ {0}
  <2>1. ScalarSize(b.written) \in Nat \ {0} /\ size \in Nat \ {0}
    BY SizeType DEF IsStored
  <2>2. Len(b.values) \in Nat
    BY <1>2
  <2> QED BY <2>1, <2>2
<1>4. read \in Seq(S)
  <2>1. Misread \in S
    BY AlterationsAssumption DEF Number
  <2> HIDE DEF S, size, bytes
  <2>2. bytes \div size \in Nat
    BY <1>3
  <2> QED BY <2>1, <2>2
<1>5. BlockWords(b, property, scalar, shapes) \in {Good(b.values), Good(read)}
  BY DEF BlockWords, Bad
<1> HIDE DEF read, S
<1>6. BlockWords(b, property, scalar, shapes).value \in Seq(S)
  BY <1>2, <1>4, <1>5 DEF Good
<1> QED BY <1>1, <1>6 DEF ValuesUnder, S

LEMMA WordsHold ==
  ASSUME NEW f, Sound(f), NEW key, NEW scalar \in Scalars \ {"Boolean"}, NEW shapes,
         Words(f, key, scalar, shapes).ok
  PROVE  LET value == Words(f, key, scalar, shapes).value
         IN  value = None \/ (value \in ValuesUnder(Last(key)) /\ key \in DOMAIN f.blocks)
<1>1. CASE key \notin DOMAIN f.blocks
  BY <1>1 DEF Words, Good
<1>2. CASE key \in DOMAIN f.blocks
  <2> DEFINE b == f.blocks[key]
             p == ParseProperty(b.e)
  <2>1. IsStored(b) /\ Key(b) = Last(key)
    BY <1>2 DEF Sound, Key
  <2>2. p.ok /\ Words(f, key, scalar, shapes) = BlockWords(b, p.value, scalar, shapes)
    <3>1. Words(f, key, scalar, shapes) = IF p.ok THEN BlockWords(b, p.value, scalar, shapes) ELSE p
      BY <1>2 DEF Words, AndThen
    <3> HIDE DEF p
    <3> QED BY <3>1
  <2> HIDE DEF b, p
  <2>3. BlockWords(b, p.value, scalar, shapes).value \in ValuesUnder(Key(b))
    BY <2>1, <2>2, BlockWordsHold
  <2> QED BY <1>2, <2>1, <2>2, <2>3
<1> QED BY <1>1, <1>2

LEMMA NeededHolds ==
  ASSUME NEW r, Needed(r).ok
  PROVE  r.ok /\ r.value /= None /\ Needed(r).value = r.value
BY DEF Needed, AndThen, Present, Good, Bad

LEMMA DoublesHold ==
  ASSUME NEW f, Sound(f), NEW key, Doubles(f, key).ok
  PROVE  Doubles(f, key).value \in ValuesUnder(Last(key))
<1> DEFINE r == Words(f, key, "Float64", AnyShape)
<1>1. Doubles(f, key) = Needed(r)
  BY DEF Doubles
<1> HIDE DEF r
<1>2. r.ok /\ r.value /= None /\ Doubles(f, key).value = r.value
  BY <1>1, NeededHolds
<1>3. "Float64" \in Scalars \ {"Boolean"}
  BY DEF Scalars, Floats
<1>4. r.value \in ValuesUnder(Last(key))
  BY <1>2, <1>3, WordsHold DEF r
<1> QED BY <1>2, <1>4

IsSequence(s) == \E S : s \in Seq(S)

LEMMA LastOf ==
  ASSUME NEW key, IsSequence(key), NEW a
  PROVE  IsSequence(key \o <<a>>) /\ Last(key \o <<a>>) = a
<1> DEFINE tail == <<a>>
<1>1. PICK S : key \in Seq(S)
  BY DEF IsSequence
<1>2. key \in Seq(S \cup {a}) /\ Len(key) \in Nat
  BY <1>1
<1>3. tail \in Seq(S \cup {a}) /\ Len(tail) = 1 /\ tail[1] = a
  OBVIOUS
<1> HIDE DEF tail
<1>4. /\ key \o tail \in Seq(S \cup {a}) /\ Len(key \o tail) = Len(key) + Len(tail)
      /\ \A i \in 1 .. Len(key) + Len(tail) :
           (key \o tail)[i] = IF i <= Len(key) THEN key[i] ELSE tail[i - Len(key)]
  BY <1>2, <1>3, ConcatProperties
<1>5. (key \o tail)[Len(key) + 1] = a
  BY <1>2, <1>3, <1>4
<1>6. IsSequence(key \o tail) /\ Last(key \o tail) = a
  BY <1>3, <1>4, <1>5 DEF Last, IsSequence
<1> QED BY <1>6 DEF tail

LEMMA LastOfTwo ==
  ASSUME NEW key, IsSequence(key), NEW a, NEW b
  PROVE  Last(key \o <<a, b>>) = b
<1> DEFINE tail == <<a, b>>
<1>1. PICK S : key \in Seq(S)
  BY DEF IsSequence
<1>2. key \in Seq(S \cup {a, b}) /\ Len(key) \in Nat
  BY <1>1
<1>3. tail \in Seq(S \cup {a, b}) /\ Len(tail) = 2 /\ tail[2] = b
  OBVIOUS
<1> HIDE DEF tail
<1>4. /\ Len(key \o tail) = Len(key) + Len(tail)
      /\ \A i \in 1 .. Len(key) + Len(tail) :
           (key \o tail)[i] = IF i <= Len(key) THEN key[i] ELSE tail[i - Len(key)]
  BY <1>2, <1>3, ConcatProperties
<1>5. (key \o tail)[Len(key) + 2] = b
  BY <1>2, <1>3, <1>4
<1>6. Last(key \o tail) = b
  BY <1>3, <1>4, <1>5 DEF Last
<1> QED BY <1>6 DEF tail

LEMMA PairsType ==
  ASSUME NEW S, NEW s \in Seq(S)
  PROVE  Pairs(s) \in Seq(S \X S)
<1>1. Len(s) \in Nat /\ Len(s) \div 2 \in Nat
  <2>1. Len(s) \in Nat
    OBVIOUS
  <2> QED BY <2>1
<1>2. \A i \in 1 .. Len(s) \div 2 : s[2 * i - 1] \in S /\ s[2 * i] \in S
  <2> SUFFICES ASSUME NEW i \in 1 .. Len(s) \div 2 PROVE s[2 * i - 1] \in S /\ s[2 * i] \in S
    OBVIOUS
  <2>1. 2 * i - 1 \in 1 .. Len(s) /\ 2 * i \in 1 .. Len(s)
    BY <1>1
  <2> QED BY <2>1
<1>3. Pairs(s) \in [1 .. Len(s) \div 2 -> S \X S]
  BY <1>2 DEF Pairs
<1> QED BY <1>1, <1>3

-----------------------------------------------------------------------------
LEMMA NumbersUnder ==
  ASSUME NEW f, Sound(f), NEW key, IsSequence(key), NEW name, name /= "Center",
         Doubles(f, key \o <<name>>).ok
  PROVE  Doubles(f, key \o <<name>>).value \in Seq(Number)
<1>1. Last(key \o <<name>>) = name
  BY LastOf
<1>2. Doubles(f, key \o <<name>>).value \in ValuesUnder(name)
  BY <1>1, DoublesHold
<1> QED BY <1>2 DEF ValuesUnder

LEMMA PairsUnder ==
  ASSUME NEW f, Sound(f), NEW key, IsSequence(key), NEW name, name /= "Center",
         MapOk(Doubles(f, key \o <<name>>), Pairs).ok
  PROVE  MapOk(Doubles(f, key \o <<name>>), Pairs).value \in Seq(Number \X Number)
<1> DEFINE r == Doubles(f, key \o <<name>>)
<1>1. r.ok /\ MapOk(r, Pairs).value = Pairs(r.value)
  BY DEF MapOk, AndThen, Good
<1>2. r.value \in Seq(Number)
  BY <1>1, NumbersUnder
<1> QED BY <1>1, <1>2, PairsType

LEMMA TextHolds ==
  ASSUME NEW f, Sound(f), NEW key
  PROVE  Text(f, key) = None \/ IsText(Last(key), Text(f, key))
BY DEF Sound, Text

LEMMA ShapeUnder ==
  ASSUME NEW f, Sound(f), NEW key, IsSequence(key), ScalarNumber(f, key \o <<"ShapeParameter">>).ok
  PROVE  ScalarNumber(f, key \o <<"ShapeParameter">>).value \in Number \cup {None}
<1> DEFINE name == key \o <<"ShapeParameter">>
           text == Text(f, name)
<1>1. Last(name) = "ShapeParameter"
  BY LastOf
<1>2. text = None \/ IsText("ShapeParameter", text)
  BY <1>1, TextHolds
<1>3. text /= Word /\ ScalarNumber(f, name).value = text
  BY DEF ScalarNumber, Good, Bad
<1> HIDE DEF name, text
<1>4. text \in Number \cup {None}
  BY <1>2, <1>3 DEF IsText
<1> QED BY <1>3, <1>4 DEF name

LEMMA ComponentHolds ==
  ASSUME NEW f, Sound(f), NEW key, IsSequence(key), NEW d, Component(f, key, d).ok
  PROVE  Component(f, key, d).value \in Spline
<1> DEFINE nz == Doubles(f, key \o <<"Normalization">>)
           ns == MapOk(Doubles(f, key \o <<"Nodes">>), Pairs)
           cs == Doubles(f, key \o <<"Coefficients">>)
           sh == IF d.basis \in Shaped THEN ScalarNumber(f, key \o <<"ShapeParameter">>) ELSE Good(None)
           res == [normalization |-> nz, nodes |-> ns, coefficients |-> cs, shape |-> sh]
           r == Fields(<<"normalization", "nodes", "coefficients", "shape">>, res)
<1>1. Component(f, key, d) = r
  BY DEF Component
<1>2. nz.ok => nz.value \in Seq(Number)
  <2>1. "Normalization" /= "Center"
    OBVIOUS
  <2> QED BY <2>1, NumbersUnder
<1>3. ns.ok => ns.value \in Seq(Number \X Number)
  <2>1. "Nodes" /= "Center"
    OBVIOUS
  <2> QED BY <2>1, PairsUnder
<1>4. cs.ok => cs.value \in Seq(Number)
  <2>1. "Coefficients" /= "Center"
    OBVIOUS
  <2> QED BY <2>1, NumbersUnder
<1>5. sh.ok => sh.value \in Number \cup {None}
  BY ShapeUnder DEF Good
<1> HIDE DEF nz, ns, cs, sh
<1>6. /\ res["normalization"] = nz /\ res["nodes"] = ns /\ res["coefficients"] = cs /\ res["shape"] = sh
      /\ [k \in DOMAIN res |-> res[k].value] =
           [normalization |-> nz.value, nodes |-> ns.value, coefficients |-> cs.value, shape |-> sh.value]
  OBVIOUS
<1> HIDE DEF res
<1>7. /\ nz.ok /\ ns.ok /\ cs.ok /\ sh.ok
      /\ r = Good([normalization |-> nz.value, nodes |-> ns.value, coefficients |-> cs.value,
                   shape |-> sh.value])
  BY <1>1, <1>6, FourRead
<1> HIDE DEF r
<1> QED BY <1>1, <1>2, <1>3, <1>4, <1>5, <1>7 DEF Good, Spline

\* What Y is, if X is a record that has coefficients.
LEMMA YComponentIs ==
  ASSUME NEW f, NEW key, NEW x, NEW own, YComponent(f, key, x, own).ok
  PROVE  \/ own.ok /\ YComponent(f, key, x, own) = own
         \/ /\ Doubles(f, key \o <<"Y", "Coefficients">>).ok
            /\ YComponent(f, key, x, own).value =
                 [x EXCEPT !.coefficients = Doubles(f, key \o <<"Y", "Coefficients">>).value]
BY DEF YComponent, MapOk, AndThen, Good

LEMMA YNumbers ==
  ASSUME NEW f, Sound(f), NEW key, IsSequence(key), Doubles(f, key \o <<"Y", "Coefficients">>).ok
  PROVE  Doubles(f, key \o <<"Y", "Coefficients">>).value \in Seq(Number)
<1>1. Last(key \o <<"Y", "Coefficients">>) = "Coefficients"
  BY LastOfTwo
<1>2. Doubles(f, key \o <<"Y", "Coefficients">>).value \in ValuesUnder("Coefficients")
  BY <1>1, DoublesHold
<1> QED BY <1>2 DEF ValuesUnder

-----------------------------------------------------------------------------
Whole(spline, d) ==
  spline \in Spline /\ Len(spline.coefficients) = Len(spline.nodes) + PolynomialTerms(d)

WholePair(pair, d) == pair \in SplinePair /\ Whole(pair.x, d) /\ Whole(pair.y, d)

LEMMA CheckLengthHolds ==
  ASSUME NEW spline, NEW d, CheckLength(spline, d).ok
  PROVE  Len(spline.coefficients) = Len(spline.nodes) + PolynomialTerms(d)
<1>1. Check(Len(spline.coefficients) = Len(spline.nodes) + PolynomialTerms(d), "BadHeader").ok
  BY TryTwo DEF CheckLength
<1> QED BY <1>1 DEF Check, Bad

LEMMA SingleTermHolds ==
  ASSUME NEW f, Sound(f), NEW key, IsSequence(key), NEW d, SingleTerm(f, key, d).ok
  PROVE  WholePair(SingleTerm(f, key, d).value, d)
<1> DEFINE X == Component(f, key \o <<"X">>, d)
           x == X.value
           own == Component(f, key \o <<"Y">>, d)
           Y == YComponent(f, key, x, own)
           y == Y.value
           both == Try(<<CheckLength(x, d), CheckLength(y, d)>>, [x |-> x, y |-> y])
<1>1. SingleTerm(f, key, d) = IF X.ok THEN IF Y.ok THEN both ELSE Y ELSE X
  BY DEF SingleTerm, AndThen
<1>2. X.ok => x \in Spline
  <2>1. IsSequence(key \o <<"X">>)
    BY LastOf
  <2> QED BY <2>1, ComponentHolds
<1>3. own.ok => own.value \in Spline
  <2>1. IsSequence(key \o <<"Y">>)
    BY LastOf
  <2> QED BY <2>1, ComponentHolds
<1>4. Y.ok => \/ own.ok /\ y = own.value
              \/ /\ Doubles(f, key \o <<"Y", "Coefficients">>).ok
                 /\ y = [x EXCEPT !.coefficients = Doubles(f, key \o <<"Y", "Coefficients">>).value]
  <2> HIDE DEF X, x, own
  <2> SUFFICES ASSUME Y.ok
               PROVE  \/ own.ok /\ y = own.value
                      \/ /\ Doubles(f, key \o <<"Y", "Coefficients">>).ok
                         /\ y = [x EXCEPT !.coefficients = Doubles(f, key \o <<"Y", "Coefficients">>).value]
    OBVIOUS
  <2> QED BY YComponentIs
<1> HIDE DEF X, x, own, Y, y
<1>5. both.ok => /\ both = Good([x |-> x, y |-> y])
                 /\ CheckLength(x, d).ok /\ CheckLength(y, d).ok
  BY TryTwo
<1> HIDE DEF both
<1>6. X.ok /\ Y.ok /\ both.ok /\ SingleTerm(f, key, d) = both
  BY <1>1
<1>7. x \in Spline
  BY <1>2, <1>6
<1>8. y \in Spline
  BY <1>3, <1>4, <1>6, <1>7, YNumbers DEF Spline
<1>9. SingleTerm(f, key, d).value = [x |-> x, y |-> y]
  BY <1>5, <1>6 DEF Good
<1>10. Whole(x, d) /\ Whole(y, d)
  BY <1>5, <1>6, <1>7, <1>8, CheckLengthHolds DEF Whole
<1> QED BY <1>7, <1>8, <1>9, <1>10 DEF WholePair, SplinePair

-----------------------------------------------------------------------------
ArraysOf(p, count) ==
  /\ p.normalizations \in Seq(Number) /\ p.nodes \in Seq(Number \X Number)
  /\ p.coefficients \in Seq(Number) /\ p.shapes \in Seq(Number)
  /\ p.offsets \in Seq(Number) /\ Len(p.offsets) = count

OffsetsOf(f, key, count) ==
  AndThen(Needed(Words(f, key \o <<"NodeOffsets">>, "Int32", AnyShape)),
          LAMBDA list : OfLength(list, count))

ShapesOf(f, key) ==
  MapOk(Words(f, key \o <<"ShapeParameter">>, "Float64", AnyShape),
        LAMBDA list : IF list = None THEN <<>> ELSE list)

LEMMA OffsetsHold ==
  ASSUME NEW f, Sound(f), NEW key, IsSequence(key), NEW count, OffsetsOf(f, key, count).ok
  PROVE  OffsetsOf(f, key, count).value \in Seq(Number) /\ Len(OffsetsOf(f, key, count).value) = count
<1> DEFINE name == key \o <<"NodeOffsets">>
           w == Words(f, name, "Int32", AnyShape)
           r == Needed(w)
           o == OffsetsOf(f, key, count)
<1>1. Last(name) = "NodeOffsets"
  BY LastOf
<1>2. "Int32" \in Scalars \ {"Boolean"}
  BY DEF Scalars, Signed
<1>3. w.ok => w.value = None \/ w.value \in ValuesUnder(Last(name))
  BY <1>2, WordsHold
<1>4. o.ok /\ o = IF r.ok THEN OfLength(r.value, count) ELSE r
  BY DEF AndThen, OffsetsOf
<1>5. r.ok => w.ok /\ w.value /= None /\ r.value = w.value
  BY NeededHolds
<1> HIDE DEF w, name, r, o
<1>6. r.ok /\ Len(r.value) = count /\ o.value = r.value
  BY <1>4 DEF OfLength, Good, Bad
<1>7. r.value \in Seq(Number)
  BY <1>1, <1>3, <1>5, <1>6 DEF ValuesUnder
<1> QED BY <1>6, <1>7 DEF o

LEMMA ShapesHold ==
  ASSUME NEW f, Sound(f), NEW key, IsSequence(key), ShapesOf(f, key).ok
  PROVE  ShapesOf(f, key).value \in Seq(Number)
<1> DEFINE name == key \o <<"ShapeParameter">>
           w == Words(f, name, "Float64", AnyShape)
           m == ShapesOf(f, key)
<1>1. Last(name) = "ShapeParameter"
  BY LastOf
<1>2. "Float64" \in Scalars \ {"Boolean"}
  BY DEF Scalars, Floats
<1>3. w.ok => w.value = None \/ w.value \in ValuesUnder(Last(name))
  BY <1>2, WordsHold
<1>4. w.ok /\ m.value = IF w.value = None THEN <<>> ELSE w.value
  BY DEF MapOk, AndThen, Good, ShapesOf
<1> HIDE DEF name, w, m
<1>5. w.value = None \/ w.value \in Seq(Number)
  BY <1>1, <1>3, <1>4 DEF ValuesUnder
<1>6. <<>> \in Seq(Number)
  OBVIOUS
<1>7. m.value \in Seq(Number)
  BY <1>4, <1>5, <1>6
<1> QED BY <1>7 DEF m

LEMMA PackedHolds ==
  ASSUME NEW f, Sound(f), NEW key, IsSequence(key), NEW count, NEW d, Packed(f, key, count, d).ok
  PROVE  ArraysOf(Packed(f, key, count, d).value, count)
<1> DEFINE nz == Doubles(f, key \o <<"Normalization">>)
           os == OffsetsOf(f, key, count)
           ns == MapOk(Doubles(f, key \o <<"Nodes">>), Pairs)
           cs == Doubles(f, key \o <<"Coefficients">>)
           sh == IF d.basis \notin Shaped THEN Good(<<>>) ELSE ShapesOf(f, key)
           res == [normalizations |-> nz, offsets |-> os, nodes |-> ns, coefficients |-> cs, shapes |-> sh]
           r == Fields(<<"normalizations", "offsets", "nodes", "coefficients", "shapes">>, res)
<1>1. Packed(f, key, count, d) = r
  BY DEF Packed, OffsetsOf, ShapesOf
<1>2. nz.ok => nz.value \in Seq(Number)
  <2>1. "Normalization" /= "Center"
    OBVIOUS
  <2> QED BY <2>1, NumbersUnder
<1>3. ns.ok => ns.value \in Seq(Number \X Number)
  <2>1. "Nodes" /= "Center"
    OBVIOUS
  <2> QED BY <2>1, PairsUnder
<1>4. cs.ok => cs.value \in Seq(Number)
  <2>1. "Coefficients" /= "Center"
    OBVIOUS
  <2> QED BY <2>1, NumbersUnder
<1>5. os.ok => os.value \in Seq(Number) /\ Len(os.value) = count
  BY OffsetsHold
<1>6. sh.ok => sh.value \in Seq(Number)
  <2>1. CASE d.basis \notin Shaped
    BY <2>1 DEF Good
  <2>2. CASE d.basis \in Shaped
    BY <2>2, ShapesHold
  <2> QED BY <2>1, <2>2
<1> HIDE DEF nz, os, ns, cs, sh
<1>7. /\ res["normalizations"] = nz /\ res["offsets"] = os /\ res["nodes"] = ns
      /\ res["coefficients"] = cs /\ res["shapes"] = sh
      /\ [k \in DOMAIN res |-> res[k].value] =
           [normalizations |-> nz.value, offsets |-> os.value, nodes |-> ns.value,
            coefficients |-> cs.value, shapes |-> sh.value]
  OBVIOUS
<1> HIDE DEF res
<1>8. /\ nz.ok /\ os.ok /\ ns.ok /\ cs.ok /\ sh.ok
      /\ r = Good([normalizations |-> nz.value, offsets |-> os.value, nodes |-> ns.value,
                   coefficients |-> cs.value, shapes |-> sh.value])
  BY <1>1, <1>7, FiveRead
<1> HIDE DEF r
<1> QED BY <1>1, <1>2, <1>3, <1>4, <1>5, <1>6, <1>8 DEF Good, ArraysOf

\* A term that is cut out is whole.
LEMMA CutTermTyped ==
  ASSUME NEW count, NEW p, ArraysOf(p, count), NEW i, NEW d, Cut(p, i, d)
  PROVE  Whole(CutTerm(p, i, d).value, d)
<1> DEFINE term == CutTerm(p, i, d).value
           z == p.normalizations
           s == SubSeq(z, 3 * i - 2, 3 * i)
           ns == Slice(p.nodes, p.offsets[i], NodesTo(p, i))
           cs == Slice(p.coefficients, CoefficientsFrom(p, i, d), CoefficientsTo(p, i, d))
           sh == IF i \in DOMAIN p.shapes THEN p.shapes[i] ELSE None
<1>1. term = [normalization |-> s, nodes |-> ns, coefficients |-> cs, shape |-> sh]
  BY DEF Cut, CutTerm, NodesTo, CoefficientsFrom, CoefficientsTo, Slice, Good, Bad
<1>2. /\ p.offsets[i] \in Nat /\ NodesTo(p, i) \in Nat
      /\ p.offsets[i] <= NodesTo(p, i) /\ NodesTo(p, i) <= Len(p.nodes)
      /\ CoefficientsTo(p, i, d) <= Len(p.coefficients)
      /\ 3 * i <= Len(z) /\ i \in Nat \ {0}
  BY CutTermHolds DEF Cut
<1>3. /\ CoefficientsFrom(p, i, d) \in Nat /\ CoefficientsTo(p, i, d) \in Nat
      /\ CoefficientsFrom(p, i, d) <= CoefficientsTo(p, i, d)
      /\ CoefficientsTo(p, i, d) - CoefficientsFrom(p, i, d) =
           NodesTo(p, i) - p.offsets[i] + PolynomialTerms(d)
  BY CutTermLies
<1>4. PolynomialTerms(d) \in Nat
  BY PolynomialTermsType DEF Cut
<1>5. ns \in Seq(Number \X Number) /\ Len(ns) = NodesTo(p, i) - p.offsets[i]
  BY <1>2, SliceProperties DEF ArraysOf
<1>6. cs \in Seq(Number) /\ Len(cs) = CoefficientsTo(p, i, d) - CoefficientsFrom(p, i, d)
  <2>1. p.coefficients \in Seq(Number)
    BY DEF ArraysOf
  <2>2. /\ CoefficientsFrom(p, i, d) \in Nat /\ CoefficientsTo(p, i, d) \in Nat
        /\ CoefficientsFrom(p, i, d) <= CoefficientsTo(p, i, d)
        /\ CoefficientsTo(p, i, d) <= Len(p.coefficients)
    BY <1>2, <1>3
  <2> QED BY <2>1, <2>2, SliceProperties
<1>7. s \in Seq(Number)
  <2>1. z \in Seq(Number)
    BY DEF ArraysOf
  <2>2. /\ 3 * i - 2 \in Int /\ 3 * i \in Int /\ 3 * i - 2 <= 3 * i
        /\ \A k \in 3 * i - 2 .. 3 * i : k \in 1 .. Len(z)
    BY <1>2, <2>1
  <2>3. \A k \in 3 * i - 2 .. 3 * i : z[k] \in Number
    BY <2>1, <2>2
  <2> HIDE DEF z
  <2> QED BY <2>2, <2>3, SubSeqProperties
<1>8. sh \in Number \cup {None}
  <2>1. p.shapes \in Seq(Number)
    BY DEF ArraysOf
  <2> QED BY <2>1
<1> HIDE DEF term, s, ns, cs, sh
<1>9. Len(cs) = Len(ns) + PolynomialTerms(d)
  BY <1>2, <1>3, <1>4, <1>5, <1>6
<1>10. term \in Spline /\ term.coefficients = cs /\ term.nodes = ns
  BY <1>1, <1>5, <1>6, <1>7, <1>8 DEF Spline
<1> QED BY <1>9, <1>10 DEF Whole, term

-----------------------------------------------------------------------------
LEMMA LocalTermHolds ==
  ASSUME NEW disks, NEW x, NEW y, NEW i, NEW d, LocalTerm(disks, x, y, i, d).ok
  PROVE  /\ Positive(disks.radii[i]) /\ CutTerm(x, i, d).ok /\ CutTerm(y, i, d).ok
         /\ LocalTerm(disks, x, y, i, d).value =
              [center |-> disks.centers[i], radius |-> disks.radii[i],
               spline |-> [x |-> CutTerm(x, i, d).value, y |-> CutTerm(y, i, d).value]]
<1> DEFINE c == Check(Positive(disks.radii[i]), "BadHeader")
           cx == CutTerm(x, i, d)
           cy == CutTerm(y, i, d)
           res == [radius |-> c, x |-> cx, y |-> cy]
           r == Fields(<<"radius", "x", "y">>, res)
           term(cut) == [center |-> disks.centers[i], radius |-> disks.radii[i],
                         spline |-> [x |-> cut.x, y |-> cut.y]]
<1>1. r.ok /\ LocalTerm(disks, x, y, i, d).value = term(r.value)
  BY DEF LocalTerm, MapOk, AndThen, Good
<1> HIDE DEF c, cx, cy
<1>2. /\ res["radius"] = c /\ res["x"] = cx /\ res["y"] = cy
      /\ [k \in DOMAIN res |-> res[k].value] = [radius |-> c.value, x |-> cx.value, y |-> cy.value]
  OBVIOUS
<1> HIDE DEF res
<1>3. /\ c.ok /\ cx.ok /\ cy.ok
      /\ r = Good([radius |-> c.value, x |-> cx.value, y |-> cy.value])
  BY <1>1, <1>2, ThreeRead
<1> HIDE DEF r
<1>4. r.value.x = cx.value /\ r.value.y = cy.value
  BY <1>3 DEF Good
<1>5. Positive(disks.radii[i])
  BY <1>3 DEF c, Check, Bad
<1> QED BY <1>1, <1>3, <1>4, <1>5 DEF cx, cy

CentersOf(f, key) == MapOk(Doubles(f, key \o <<"Center">>), Pairs)
RadiiOf(f, key) == Doubles(f, key \o <<"Radius">>)
CountOf(f, key) == Len(RadiiOf(f, key).value)
XOf(f, key, d) == Packed(f, key \o <<"X">>, CountOf(f, key), d)
YOf(f, key, d) ==
  YComponent(f, key, XOf(f, key, d).value, Packed(f, key \o <<"Y">>, CountOf(f, key), d))
DisksOf(f, key) == [centers |-> CentersOf(f, key).value, radii |-> RadiiOf(f, key).value]
CutOf(f, key, d) ==
  [i \in 1 .. CountOf(f, key) |->
     LocalTerm(DisksOf(f, key), XOf(f, key, d).value, YOf(f, key, d).value, i, d)]

\* The Local terms, by the arrays they are cut from.
LEMMA LocalTermsAre ==
  ASSUME NEW f, Sound(f), NEW key, IsSequence(key), NEW d, LocalTerms(f, key, d).ok
  PROVE  /\ CentersOf(f, key).ok /\ RadiiOf(f, key).ok /\ CountOf(f, key) \in Nat
         /\ Len(CentersOf(f, key).value) = CountOf(f, key)
         /\ XOf(f, key, d).ok /\ YOf(f, key, d).ok
         /\ \A i \in 1 .. CountOf(f, key) : CutOf(f, key, d)[i].ok
         /\ LocalTerms(f, key, d).value = [i \in 1 .. CountOf(f, key) |-> CutOf(f, key, d)[i].value]
<1> DEFINE cs == CentersOf(f, key)
           rs == RadiiOf(f, key)
           res == [centers |-> cs, radii |-> rs]
           r == Fields(<<"centers", "radii">>, res)
           Cuts(disks, x, y) == Collect([i \in 1 .. Len(disks.radii) |-> LocalTerm(disks, x.value, y.value, i, d)])
           X(disks) == Packed(f, key \o <<"X">>, Len(disks.radii), d)
           Y(disks) == YComponent(f, key, X(disks).value, Packed(f, key \o <<"Y">>, Len(disks.radii), d))
           Under(disks) == IF Len(disks.centers) /= Len(disks.radii) THEN Bad("BadHeader")
                           ELSE IF X(disks).ok
                                THEN IF Y(disks).ok THEN Cuts(disks, X(disks), Y(disks)) ELSE Y(disks)
                                ELSE X(disks)
           disks == DisksOf(f, key)
<1>1. LocalTerms(f, key, d) = IF r.ok THEN Under(r.value) ELSE r
  BY DEF LocalTerms, AndThen, CentersOf, RadiiOf
<1>2. r.ok => cs.ok /\ rs.ok /\ r.value = disks
  <2> HIDE DEF cs, rs
  <2>1. /\ res["centers"] = cs /\ res["radii"] = rs
        /\ [k \in DOMAIN res |-> res[k].value] = [centers |-> cs.value, radii |-> rs.value]
    OBVIOUS
  <2> HIDE DEF res
  <2> SUFFICES ASSUME r.ok PROVE cs.ok /\ rs.ok /\ r.value = disks
    OBVIOUS
  <2>2. cs.ok /\ rs.ok /\ r = Good([centers |-> cs.value, radii |-> rs.value])
    BY <2>1, TwoRead
  <2> QED BY <2>2 DEF Good, DisksOf, cs, rs
<1>3. r.ok
  BY <1>1
<1>4. LocalTerms(f, key, d) = Under(disks)
  BY <1>1, <1>2, <1>3
<1>5. /\ disks.centers = cs.value /\ disks.radii = rs.value /\ Len(disks.radii) = CountOf(f, key)
      /\ X(disks) = XOf(f, key, d) /\ Y(disks) = YOf(f, key, d)
  BY DEF DisksOf, CountOf, XOf, YOf
<1>6. Cuts(disks, X(disks), Y(disks)) = Collect(CutOf(f, key, d))
  BY <1>5 DEF CutOf
<1> HIDE DEF disks, cs, rs, r, X, Y, Cuts
<1>7. /\ Len(disks.centers) = Len(disks.radii) /\ X(disks).ok /\ Y(disks).ok
      /\ LocalTerms(f, key, d) = Cuts(disks, X(disks), Y(disks))
  BY <1>4 DEF Bad
<1>8. LocalTerms(f, key, d) = Collect(CutOf(f, key, d))
  BY <1>6, <1>7
<1> DEFINE cut == CutOf(f, key, d)
           value == [i \in DOMAIN cut |-> cut[i].value]
           n == CountOf(f, key)
<1>9. DOMAIN cut = 1 .. n /\ n \in Nat /\ LocalTerms(f, key, d) = Collect(cut)
  <2>1. RadiiOf(f, key).ok => RadiiOf(f, key).value \in Seq(Number)
    <3>1. "Radius" /= "Center"
      OBVIOUS
    <3> QED BY <3>1, NumbersUnder DEF RadiiOf
  <2>2. RadiiOf(f, key).ok
    BY <1>2, <1>3 DEF rs
  <2>3. n \in Nat
    BY <2>1, <2>2 DEF CountOf
  <2> QED BY <1>8, <2>3 DEF CutOf
<1>10. Try(cut, value).ok
  BY <1>8 DEF Collect
<1>11. Collect(cut) = Try(cut, value)
  BY DEF Collect
<1> HIDE DEF cut, n
<1>12. /\ Try(cut, value) = Good(value) /\ \A i \in 1 .. n : cut[i].ok
  <2>1. DOMAIN cut \subseteq Nat
    BY <1>9
  <2> HIDE DEF value
  <2> QED BY <1>9, <1>10, <2>1, TryHolds
<1>13. LocalTerms(f, key, d).value = [i \in 1 .. n |-> cut[i].value]
  BY <1>9, <1>11, <1>12 DEF Good
<1> QED BY <1>2, <1>3, <1>5, <1>7, <1>9, <1>12, <1>13 DEF cut, n, cs, rs

WholeTerm(t, d) == IsTerm(t) /\ WholePair(t.spline, d)

LEMMA LocalTermsHold ==
  ASSUME NEW f, Sound(f), NEW key, IsSequence(key), NEW d, d.order \in Int,
         LocalTerms(f, key, d).ok
  PROVE  /\ CountOf(f, key) \in Nat
         /\ ArraysOf(XOf(f, key, d).value, CountOf(f, key))
         /\ ArraysOf(YOf(f, key, d).value, CountOf(f, key))
         /\ \E S : LocalTerms(f, key, d).value \in Seq(S) /\ \A t \in S : WholeTerm(t, d)
<1> DEFINE n == CountOf(f, key)
           disks == DisksOf(f, key)
           x == XOf(f, key, d).value
           y == YOf(f, key, d).value
           cut == CutOf(f, key, d)
           S == {cut[i].value : i \in 1 .. n}
<1>1. /\ CentersOf(f, key).ok /\ RadiiOf(f, key).ok /\ n \in Nat
      /\ Len(CentersOf(f, key).value) = n
      /\ XOf(f, key, d).ok /\ YOf(f, key, d).ok
      /\ \A i \in 1 .. n : cut[i].ok
      /\ LocalTerms(f, key, d).value = [i \in 1 .. n |-> cut[i].value]
  BY LocalTermsAre
<1>2. disks.radii \in Seq(Number) /\ Len(disks.radii) = n
  <2>1. "Radius" /= "Center"
    OBVIOUS
  <2>2. RadiiOf(f, key).value \in Seq(Number)
    BY <1>1, <2>1, NumbersUnder DEF RadiiOf
  <2> QED BY <2>2 DEF DisksOf, CountOf
<1>3. disks.centers \in Seq(Int \X Int) /\ Len(disks.centers) = n
  <2> DEFINE c == Doubles(f, key \o <<"Center">>)
  <2>1. c.ok /\ CentersOf(f, key).value = Pairs(c.value)
    BY <1>1 DEF CentersOf, MapOk, AndThen, Good
  <2>2. Last(key \o <<"Center">>) = "Center"
    BY LastOf
  <2>3. c.value \in ValuesUnder("Center")
    BY <2>1, <2>2, DoublesHold
  <2> HIDE DEF c
  <2>4. c.value \in Seq(Int)
    BY <2>3 DEF ValuesUnder
  <2>5. Pairs(c.value) \in Seq(Int \X Int)
    BY <2>4, PairsType
  <2> QED BY <1>1, <2>1, <2>5 DEF DisksOf
<1>4. ArraysOf(x, n)
  <2>1. IsSequence(key \o <<"X">>)
    BY LastOf
  <2> QED BY <1>1, <2>1, PackedHolds DEF XOf
<1>5. ArraysOf(y, n)
  <2> DEFINE own == Packed(f, key \o <<"Y">>, n, d)
             Y == YComponent(f, key, x, own)
  <2>1. IsSequence(key \o <<"Y">>)
    BY LastOf
  <2>2. own.ok => ArraysOf(own.value, n)
    BY <2>1, PackedHolds
  <2>3. Y.ok /\ y = Y.value
    BY <1>1 DEF YOf
  <2>4. \/ own.ok /\ Y = own
        \/ /\ Doubles(f, key \o <<"Y", "Coefficients">>).ok
           /\ Y.value = [x EXCEPT !.coefficients = Doubles(f, key \o <<"Y", "Coefficients">>).value]
    <3> HIDE DEF own, x
    <3> QED BY <2>3, YComponentIs
  <2> HIDE DEF own, Y, x, y
  <2>5. CASE own.ok /\ Y = own
    BY <2>2, <2>3, <2>5
  <2>6. CASE /\ Doubles(f, key \o <<"Y", "Coefficients">>).ok
             /\ Y.value = [x EXCEPT !.coefficients = Doubles(f, key \o <<"Y", "Coefficients">>).value]
    <3> DEFINE list == Doubles(f, key \o <<"Y", "Coefficients">>).value
    <3>1. list \in Seq(Number)
      BY <2>6, YNumbers
    <3>2. y = [x EXCEPT !.coefficients = list]
      BY <2>3, <2>6
    <3> HIDE DEF list
    <3>3. \/ y.coefficients = list
          \/ y.coefficients = x.coefficients
      BY <3>2
    <3>4. /\ y.normalizations = x.normalizations /\ y.nodes = x.nodes /\ y.shapes = x.shapes
          /\ y.offsets = x.offsets
      BY <3>2
    <3> QED BY <1>4, <3>1, <3>3, <3>4 DEF ArraysOf
  <2> QED BY <2>4, <2>5, <2>6
<1>6. ASSUME NEW i \in 1 .. n
      PROVE  WholeTerm(cut[i].value, d)
  <2> DEFINE t == cut[i].value
  <2>1. cut[i] = LocalTerm(disks, x, y, i, d) /\ LocalTerm(disks, x, y, i, d).ok
    BY <1>1 DEF CutOf
  <2>2. /\ Positive(disks.radii[i]) /\ CutTerm(x, i, d).ok /\ CutTerm(y, i, d).ok
        /\ t = [center |-> disks.centers[i], radius |-> disks.radii[i],
                spline |-> [x |-> CutTerm(x, i, d).value, y |-> CutTerm(y, i, d).value]]
    <3> HIDE DEF disks, x, y
    <3> QED BY <2>1, LocalTermHolds
  <2>3. Cut(x, i, d) /\ Cut(y, i, d)
    BY <1>1, <2>2 DEF Cut
  <2> HIDE DEF disks, x, y, t
  <2>4. Whole(CutTerm(x, i, d).value, d) /\ Whole(CutTerm(y, i, d).value, d)
    BY <1>4, <1>5, <2>3, CutTermTyped
  <2>5. disks.centers[i] \in Int \X Int
    BY <1>3
  <2>6. disks.radii[i] \in Nat \ {0}
    BY <2>2 DEF Positive, Finite
  <2>7. IsTerm(t)
    BY <2>2, <2>5, <2>6 DEF IsTerm
  <2>8. WholePair(t.spline, d)
    BY <2>2, <2>4 DEF WholePair, SplinePair, Whole
  <2> QED BY <2>7, <2>8 DEF WholeTerm, t
<1> HIDE DEF cut, n
<1>7. LocalTerms(f, key, d).value \in Seq(S) /\ \A t \in S : WholeTerm(t, d)
  BY <1>1, <1>6
<1> HIDE DEF S
<1> QED BY <1>1, <1>4, <1>5, <1>7 DEF n

-----------------------------------------------------------------------------
LEMMA CheckHolds ==
  ASSUME NEW condition, NEW error, Check(condition, error).ok
  PROVE  condition
BY DEF Check, Bad

LEMMA PresentHolds ==
  ASSUME NEW text, NEW result
  PROVE  LET r == IF text = None THEN Bad("BadHeader") ELSE result
         IN  r.ok => text /= None /\ r = result
BY DEF Bad

LEMMA ParseTermsHolds ==
  ASSUME NEW lines, ParseTerms(lines).ok
  PROVE  ParseTerms(lines).value \subseteq TermKinds
<1> DEFINE a == Check(ToSet(lines) \subseteq TermKinds, "Unsupported")
           b == Check(lines /= <<>>, "BadHeader")
           c == Check("Fallback" \in ToSet(lines) => "Local" \in ToSet(lines), "BadHeader")
<1>1. PICK steps : steps = <<a, b, c>>
  OBVIOUS
<1>2. DOMAIN steps = 1 .. 3 /\ steps[1] = a
  BY <1>1
<1>3. ParseTerms(lines) = Try(steps, ToSet(lines))
  BY <1>1 DEF ParseTerms
<1> HIDE DEF a
<1>4. Try(steps, ToSet(lines)) = Good(ToSet(lines)) /\ \A i \in DOMAIN steps : steps[i].ok
  <2>1. DOMAIN steps \subseteq Nat
    BY <1>2
  <2>2. Try(steps, ToSet(lines)).ok
    BY <1>3
  <2> HIDE DEF b, c
  <2> QED BY <2>1, <2>2, TryHolds
<1>5. a.ok
  BY <1>2, <1>4
<1>6. ToSet(lines) \subseteq TermKinds
  BY <1>5 DEF a, Check, Bad
<1> QED BY <1>3, <1>4, <1>6 DEF Good

\* What is read of a direction before its terms are.
IsDirection(d) ==
  /\ d.order \in Int /\ d.polynomial \in BOOLEAN /\ d.terms \subseteq TermKinds
  /\ DOMAIN d = {"basis", "order", "polynomial", "terms", "global", "local", "fallback"}

LEMMA DirectionHolds ==
  ASSUME NEW f, Sound(f), NEW which, ReadDirection(f, which).ok
  PROVE  IsDirection(ReadDirection(f, which).value)
<1> DEFINE Leaf(leaf) == Text(f, <<"DistortionModel", which, leaf>>)
           polynomial == IF Leaf("Polynomial") = None THEN "true" ELSE Leaf("Polynomial")
           bs == Present(Leaf("BasisFunction"), LAMBDA t : Known(Logarithmic \cup Shaped, t, "Unsupported"))
           os == Present(Leaf("Order"), LAMBDA t : IF t = Word THEN Bad("BadAttribute") ELSE Good(t))
           ps == MapOk(Known({"true", "1", "false", "0"}, polynomial, "BadAttribute"),
                       LAMBDA t : t \in {"true", "1"})
           ts == Present(Leaf("Terms"), ParseTerms)
           res == [basis |-> bs, order |-> os, polynomial |-> ps, terms |-> ts]
           r == Fields(<<"basis", "order", "polynomial", "terms">>, res)
           none == [global |-> None, local |-> <<>>, fallback |-> None]
           Validated(d) == Validate(Joined(none, d))
<1>1. ReadDirection(f, which) = IF r.ok THEN Validated(r.value) ELSE r
  BY DEF ReadDirection, AndThen
<1>2. os.ok => os.value \in Int
  <2> DEFINE key == <<"DistortionModel", which, "Order">>
             t == Text(f, key)
  <2>1. Last(key) = "Order"
    BY DEF Last
  <2>2. t = None \/ IsText("Order", t)
    BY <2>1, TextHolds
  <2>3. os.ok => t /= None /\ t /= Word /\ os.value = t
    BY DEF Present, Good, Bad
  <2> HIDE DEF key, t, os
  <2> QED BY <2>2, <2>3 DEF IsText
<1>3. ps.ok => ps.value \in BOOLEAN
  <2> DEFINE t == Known({"true", "1", "false", "0"}, polynomial, "BadAttribute")
             truth == t.value \in {"true", "1"}
  <2>1. ps = IF t.ok THEN Good(truth) ELSE t
    BY Zenon DEF MapOk, AndThen
  <2>2. truth \in BOOLEAN
    OBVIOUS
  <2> HIDE DEF truth, ps, t
  <2>3. Good(truth).value = truth
    BY DEF Good
  <2> QED BY <2>1, <2>2, <2>3, Zenon
<1>4. ts.ok => ts.value \subseteq TermKinds
  <2>1. ts.ok => ParseTerms(Leaf("Terms")).ok /\ ts = ParseTerms(Leaf("Terms"))
    BY DEF Present, Bad
  <2> HIDE DEF ts
  <2> QED BY <2>1, ParseTermsHolds
<1> HIDE DEF bs, os, ps, ts
<1>5. /\ res["basis"] = bs /\ res["order"] = os /\ res["polynomial"] = ps /\ res["terms"] = ts
      /\ [k \in DOMAIN res |-> res[k].value] =
           [basis |-> bs.value, order |-> os.value, polynomial |-> ps.value, terms |-> ts.value]
  OBVIOUS
<1> HIDE DEF res
<1>6. r.ok
  BY <1>1
<1> DEFINE v == [basis |-> bs.value, order |-> os.value, polynomial |-> ps.value, terms |-> ts.value]
<1>7. bs.ok /\ os.ok /\ ps.ok /\ ts.ok /\ r = Good(v)
  BY <1>5, <1>6, FourRead
<1> DEFINE d == Joined(none, v)
<1>8. ReadDirection(f, which) = Validate(d) /\ Validate(d).ok
  <2> HIDE DEF r, v
  <2> QED BY <1>1, <1>6, <1>7 DEF Good
<1>9. Validate(d).value = d
  <2> HIDE DEF d
  <2>1. Validate(d) = Good(d)
    BY <1>8, TryTwo DEF Validate
  <2> QED BY <2>1 DEF Good
<1>10. /\ d.order = os.value /\ d.polynomial = ps.value /\ d.terms = ts.value
       /\ DOMAIN d = {"basis", "order", "polynomial", "terms", "global", "local", "fallback"}
  BY DEF Joined
<1> HIDE DEF d
<1> QED BY <1>2, <1>3, <1>4, <1>7, <1>8, <1>9, <1>10 DEF IsDirection

-----------------------------------------------------------------------------
\* A direction as it is loaded: every term that is stated and no other.
Loaded(d) ==
  /\ d.order \in Int /\ d.polynomial \in BOOLEAN /\ d.terms \subseteq TermKinds
  /\ "Global" \in d.terms <=> d.global /= None
  /\ "Fallback" \in d.terms <=> d.fallback /= None
  /\ d.local /= <<>> => "Local" \in d.terms
  /\ d.global /= None => WholePair(d.global, d)
  /\ d.fallback /= None => d.fallback.threshold \in Nat \ {0} /\ WholePair(d.fallback.spline, d)
  /\ \E S : d.local \in Seq(S) /\ \A t \in S : WholeTerm(t, d)

FallbackOf(f, key, d) ==
  Fields(<<"threshold", "spline">>,
    [threshold |-> Present(Text(f, key \o <<"Threshold">>), ParseThreshold),
     spline |-> SingleTerm(f, key, d)])

LEMMA FallbackHolds ==
  ASSUME NEW f, Sound(f), NEW key, IsSequence(key), NEW d, FallbackOf(f, key, d).ok
  PROVE  LET v == FallbackOf(f, key, d).value
         IN  /\ v /= None /\ v.threshold \in Nat \ {0} /\ WholePair(v.spline, d)
<1> DEFINE th == Present(Text(f, key \o <<"Threshold">>), ParseThreshold)
           sp == SingleTerm(f, key, d)
           res == [threshold |-> th, spline |-> sp]
           r == Fields(<<"threshold", "spline">>, res)
<1>1. FallbackOf(f, key, d) = r
  BY DEF FallbackOf
<1>2. th.ok => th.value \in Nat \ {0}
  <2> DEFINE t == Text(f, key \o <<"Threshold">>)
  <2>1. th.ok => ParseThreshold(t).ok /\ th = ParseThreshold(t)
    BY DEF Present, Bad
  <2>2. ParseThreshold(t).ok => ParseThreshold(t) = Good(t) /\ Check(Positive(t), "BadHeader").ok
    BY TryTwo DEF ParseThreshold
  <2>3. Check(Positive(t), "BadHeader").ok => t \in Nat \ {0}
    BY DEF Check, Bad, Positive, Finite
  <2> HIDE DEF th, t
  <2> QED BY <2>1, <2>2, <2>3 DEF Good
<1>3. sp.ok => WholePair(sp.value, d)
  BY SingleTermHolds
<1> HIDE DEF th, sp
<1>4. /\ res["threshold"] = th /\ res["spline"] = sp
      /\ [k \in DOMAIN res |-> res[k].value] = [threshold |-> th.value, spline |-> sp.value]
  OBVIOUS
<1> HIDE DEF res
<1> DEFINE v == [threshold |-> th.value, spline |-> sp.value]
<1>5. th.ok /\ sp.ok /\ r = Good(v)
  BY <1>1, <1>4, TwoRead
<1>6. v.threshold \in Nat \ {0} /\ WholePair(v.spline, d)
  BY <1>2, <1>3, <1>5
<1>7. v \in [threshold : Number, spline : SplinePair]
  BY <1>6 DEF Number, WholePair
<1> HIDE DEF v, r
<1>8. v /= None
  BY <1>7, AbsenceAssumption
<1> QED BY <1>1, <1>5, <1>6, <1>8 DEF Good

LEMMA WholePairAlike ==
  ASSUME NEW pair, NEW d, NEW e, d.order = e.order, d.polynomial = e.polynomial, WholePair(pair, d)
  PROVE  WholePair(pair, e)
BY DEF WholePair, Whole, PolynomialTerms

LEMMA LoadHolds ==
  ASSUME NEW f, Sound(f), NEW which, NEW d, IsDirection(d), Load(f, which, d).ok
  PROVE  LET e == Load(f, which, d).value
             key == <<"DistortionModel", which, "Local">>
         IN  /\ Loaded(e) /\ e.order = d.order /\ e.polynomial = d.polynomial /\ e.terms = d.terms
             /\ e.local = (IF "Local" \in d.terms THEN LocalTerms(f, key, d).value ELSE <<>>)
             /\ "Local" \in d.terms => LocalTerms(f, key, d).ok
<1> DEFINE K(kind) == <<"DistortionModel", which, kind>>
           gs == IF "Global" \in d.terms THEN SingleTerm(f, K("Global"), d) ELSE Good(None)
           ls == IF "Local" \in d.terms THEN LocalTerms(f, K("Local"), d) ELSE Good(<<>>)
           fs == IF "Fallback" \in d.terms THEN FallbackOf(f, K("Fallback"), d) ELSE Good(None)
           res == [global |-> gs, local |-> ls, fallback |-> fs]
           r == Fields(<<"global", "local", "fallback">>, res)
           terms == [global |-> gs.value, local |-> ls.value, fallback |-> fs.value]
           e == Joined(terms, d)
<1>1. r.ok /\ Load(f, which, d).value = Joined(r.value, d)
  BY DEF Load, FallbackOf, MapOk, AndThen, Good
<1>2. \A kind : IsSequence(K(kind))
  <2> SUFFICES ASSUME NEW kind PROVE IsSequence(K(kind))
    OBVIOUS
  <2>1. K(kind) \in Seq({"DistortionModel", which, kind})
    OBVIOUS
  <2> QED BY <2>1 DEF IsSequence
<1>3. gs.ok => IF "Global" \in d.terms THEN gs.value /= None /\ WholePair(gs.value, d) ELSE gs.value = None
  <2>1. CASE "Global" \in d.terms
    <3>1. gs.ok => WholePair(gs.value, d)
      BY <1>2, <2>1, SingleTermHolds
    <3> HIDE DEF gs
    <3> QED BY <2>1, <3>1, AbsenceAssumption DEF WholePair
  <2>2. CASE "Global" \notin d.terms
    BY <2>2 DEF Good
  <2> QED BY <2>1, <2>2
<1>4. fs.ok => IF "Fallback" \in d.terms
               THEN fs.value /= None /\ fs.value.threshold \in Nat \ {0} /\ WholePair(fs.value.spline, d)
               ELSE fs.value = None
  <2>1. CASE "Fallback" \in d.terms
    BY <1>2, <2>1, FallbackHolds
  <2>2. CASE "Fallback" \notin d.terms
    BY <2>2 DEF Good
  <2> QED BY <2>1, <2>2
<1>5. ls.ok => IF "Local" \in d.terms THEN \E S : ls.value \in Seq(S) /\ \A t \in S : WholeTerm(t, d)
               ELSE ls.value = <<>>
  <2>1. CASE "Local" \in d.terms
    <3>1. d.order \in Int
      BY DEF IsDirection
    <3> QED BY <1>2, <2>1, <3>1, LocalTermsHold
  <2>2. CASE "Local" \notin d.terms
    BY <2>2 DEF Good
  <2> QED BY <2>1, <2>2
<1>6. "Local" \in d.terms => ls = LocalTerms(f, K("Local"), d)
  OBVIOUS
<1> HIDE DEF gs, ls, fs
<1>7. /\ res["global"] = gs /\ res["local"] = ls /\ res["fallback"] = fs
      /\ [k \in DOMAIN res |-> res[k].value] = terms
  OBVIOUS
<1> HIDE DEF res, terms
<1>8. gs.ok /\ ls.ok /\ fs.ok /\ r = Good(terms)
  BY <1>1, <1>7, ThreeRead
<1> HIDE DEF r
<1>9. Load(f, which, d).value = e
  BY <1>1, <1>8 DEF Good
<1>10. /\ e.order = d.order /\ e.polynomial = d.polynomial /\ e.terms = d.terms
       /\ e.global = gs.value /\ e.local = ls.value /\ e.fallback = fs.value
  BY DEF terms, Joined, IsDirection
<1> HIDE DEF e, K
<1>11. \E S : e.local \in Seq(S) /\ \A t \in S : WholeTerm(t, e)
  <2>1. CASE "Local" \in d.terms
    <3>1. PICK S : ls.value \in Seq(S) /\ \A t \in S : WholeTerm(t, d)
      BY <1>5, <1>8, <2>1
    <3>2. \A t \in S : WholeTerm(t, e)
      BY <1>10, <3>1, WholePairAlike DEF WholeTerm
    <3> QED BY <1>10, <3>1, <3>2
  <2>2. CASE "Local" \notin d.terms
    <3>1. e.local = <<>>
      BY <1>5, <1>8, <1>10, <2>2
    <3>2. e.local \in Seq({}) /\ \A t \in {} : WholeTerm(t, e)
      BY <3>1
    <3> QED BY <3>2
  <2> QED BY <2>1, <2>2
<1>12. e.global /= None => WholePair(e.global, e)
  BY <1>3, <1>8, <1>10, WholePairAlike
<1>13. e.fallback /= None => e.fallback.threshold \in Nat \ {0} /\ WholePair(e.fallback.spline, e)
  BY <1>4, <1>8, <1>10, WholePairAlike
<1>14. /\ e.order \in Int /\ e.polynomial \in BOOLEAN /\ e.terms \subseteq TermKinds
       /\ "Global" \in e.terms <=> e.global /= None
       /\ "Fallback" \in e.terms <=> e.fallback /= None
       /\ e.local /= <<>> => "Local" \in e.terms
  BY <1>3, <1>4, <1>5, <1>8, <1>10 DEF IsDirection
<1>15. Loaded(e)
  BY <1>11, <1>12, <1>13, <1>14 DEF Loaded
<1>16. e.local = IF "Local" \in d.terms THEN ls.value ELSE <<>>
  BY <1>5, <1>8, <1>10
<1> QED BY <1>6, <1>8, <1>9, <1>10, <1>15, <1>16 DEF K

\* Both directions.
LEMMA DistortionHolds ==
  ASSUME NEW f, Sound(f), Distortion(f).ok, NEW which \in Directions
  PROVE  LET d == ReadDirection(f, which)
         IN  /\ d.ok /\ IsDirection(d.value) /\ Load(f, which, d.value).ok
             /\ Distortion(f).value[which] = Load(f, which, d.value).value
             /\ Loaded(Distortion(f).value[which])
<1> DEFINE Loading(w) == IF ReadDirection(f, w).ok THEN Load(f, w, ReadDirection(f, w).value)
                      ELSE ReadDirection(f, w)
           res == [w \in Directions |-> Loading(w)]
           a == "ImageToProjection"
           b == "ProjectionToImage"
<1>1. Distortion(f) = Fields(<<a, b>>, res)
  BY DEF Distortion, BothDirections, AndThen
<1>2. DOMAIN res = Directions /\ \A w \in Directions : res[w] = Loading(w)
  OBVIOUS
<1>3. which = a \/ which = b
  BY DEF Directions
<1> HIDE DEF Loading, res
<1>4. /\ res[a].ok /\ res[b].ok
      /\ Distortion(f) = Good([k \in DOMAIN res |-> res[k].value])
  BY <1>1, TwoRead
<1>5. res[which].ok /\ Distortion(f).value[which] = res[which].value
  BY <1>2, <1>3, <1>4 DEF Good
<1>6. Loading(which).ok /\ res[which] = Loading(which)
  BY <1>2, <1>5
<1>7. /\ ReadDirection(f, which).ok
      /\ Loading(which) = Load(f, which, ReadDirection(f, which).value)
  BY <1>6 DEF Loading
<1>8. IsDirection(ReadDirection(f, which).value)
  BY <1>7, DirectionHolds
<1>9. Load(f, which, ReadDirection(f, which).value).ok
  BY <1>6, <1>7
<1>10. Loaded(Load(f, which, ReadDirection(f, which).value).value)
  BY <1>8, <1>9, LoadHolds
<1> QED BY <1>5, <1>6, <1>7, <1>8, <1>9, <1>10

-----------------------------------------------------------------------------
LEMMA TryOne ==
  ASSUME NEW a, NEW value
  PROVE  /\ Try(<<a>>, value).ok => Try(<<a>>, value) = Good(value) /\ a.ok
         /\ a.ok => Try(<<a>>, value) = Good(value)
<1>1. PICK s : s = <<a>>
  OBVIOUS
<1>2. DOMAIN s = 1 .. 1 /\ s[1] = a /\ 1 \in 1 .. 1 /\ \A i \in 1 .. 1 : i = 1
  BY <1>1
<1>3. \/ Try(s, value) = Good(value) /\ \A i \in DOMAIN s : s[i].ok
      \/ \E i \in DOMAIN s : Try(s, value) = s[i] /\ ~s[i].ok
  BY <1>2, TryHolds
<1>4. /\ Try(s, value).ok => Try(s, value) = Good(value) /\ a.ok
      /\ a.ok => Try(s, value) = Good(value)
  BY <1>2, <1>3
<1> QED BY <1>1, <1>4

LEMMA TwoAreRead ==
  ASSUME NEW a, NEW b, NEW results, results[a].ok, results[b].ok
  PROVE  Fields(<<a, b>>, results) = Good([k \in DOMAIN results |-> results[k].value])
<1>1. PICK order : order = <<a, b>>
  OBVIOUS
<1>2. DOMAIN order = 1 .. 2 /\ order[1] = a /\ order[2] = b /\ \A i \in 1 .. 2 : i = 1 \/ i = 2
  BY <1>1
<1>3. DOMAIN order \subseteq Nat /\ \A i \in DOMAIN order : results[order[i]].ok
  BY <1>2
<1>4. \/ /\ Fields(order, results) = Good([k \in DOMAIN results |-> results[k].value])
         /\ \A i \in DOMAIN order : results[order[i]].ok
      \/ \E i \in DOMAIN order : Fields(order, results) = results[order[i]] /\ ~results[order[i]].ok
  BY <1>3, FieldsHold
<1>5. Fields(order, results) = Good([k \in DOMAIN results |-> results[k].value])
  BY <1>3, <1>4
<1> QED BY <1>1, <1>5

-----------------------------------------------------------------------------
VersionOf(f) ==
  Present(Text(f, <<"Version">>), LAMBDA t :
    AndThen(ParseVersion(t), LAMBDA parsed : Check(Supports(t), "Unsupported")))

Empty(f) == DOMAIN f.scalars = {} /\ DOMAIN f.blocks = {}

LayersOf(f) ==
  Fields(<<"projection", "projective">>,
         [projection |-> ReadProjection(f), projective |-> ReadProjective(f)])

\* A solution of its layers.
SolutionOf(f, lower, third) ==
  Joined([version |-> Text(f, <<"Version">>), creator |-> Text(f, <<"CreatorApplication">>)],
         Joined(lower, third))

ReadIn(f) ==
  LET third == ThirdLayer(f, LayersOf(f).value.projective)
  IN  IF Empty(f) THEN Good(None)
      ELSE IF ~VersionOf(f).ok THEN VersionOf(f)
      ELSE IF ~LayersOf(f).ok THEN LayersOf(f)
      ELSE IF ~third.ok THEN third
      ELSE Good(SolutionOf(f, LayersOf(f).value, third.value))

LEMMA ReadSolutionIs ==
  ASSUME NEW properties
  PROVE  ReadSolution(properties) = ReadIn(Gather(properties))
BY DEF ReadSolution, ReadIn, Empty, VersionOf, LayersOf, SolutionOf, AndThen, MapOk

LEMMA LayersHold ==
  ASSUME NEW f
  PROVE  /\ LayersOf(f).ok => ReadProjection(f).ok /\ ReadProjective(f).ok
         /\ ReadProjection(f).ok /\ ReadProjective(f).ok =>
              LayersOf(f) = Good([projection |-> ReadProjection(f).value,
                                  projective |-> ReadProjective(f).value])
<1> DEFINE a == ReadProjection(f)
           b == ReadProjective(f)
           res == [projection |-> a, projective |-> b]
           r == Fields(<<"projection", "projective">>, res)
<1>1. LayersOf(f) = r
  BY DEF LayersOf
<1> HIDE DEF a, b
<1>2. /\ res["projection"] = a /\ res["projective"] = b
      /\ [k \in DOMAIN res |-> res[k].value] = [projection |-> a.value, projective |-> b.value]
  OBVIOUS
<1> HIDE DEF res
<1>3. r.ok => a.ok /\ b.ok
  BY <1>2, TwoRead
<1>4. a.ok /\ b.ok => r = Good([projection |-> a.value, projective |-> b.value])
  BY <1>2, TwoAreRead
<1> QED BY <1>1, <1>3, <1>4 DEF a, b

\* The third layer costs the solution only where it is whole and has nothing below it.
LEMMA ThirdLayerHolds ==
  ASSUME NEW f, NEW projective
  PROVE  LET r == ThirdLayer(f, projective)
         IN  /\ r.ok =>
                  /\ DOMAIN r.value = {"distortion", "usable"}
                  /\ r.value.usable \in {4, IF projective = None THEN 1 ELSE 2}
                  /\ r.value.usable < 4 => r.value.distortion = None
                  /\ r.value.distortion /= None =>
                       /\ Distortion(f).ok /\ r.value.distortion = Distortion(f).value
                       /\ projective /= None
             /\ r.ok /\ r.value.usable = 4 =>
                  r.value.distortion = IF Mentions(f) THEN Distortion(f).value ELSE None
             /\ ~r.ok => projective = None /\ Mentions(f) /\ Distortion(f).ok
<1> DEFINE D == Distortion(f)
           third(x, u) == [distortion |-> x, usable |-> u]
           t == Try(<<Check(projective /= None, "BadHeader")>>, third(D.value, 4))
           least == IF projective = None THEN 1 ELSE 2
           r == ThirdLayer(f, projective)
<1>1. r = IF Mentions(f) THEN IF ~D.ok THEN Good(third(None, least)) ELSE t ELSE Good(third(None, 4))
  BY DEF ThirdLayer
<1>2. t.ok => t = Good(third(D.value, 4)) /\ projective /= None
  BY TryOne DEF Check, Bad
<1>3. projective /= None => t = Good(third(D.value, 4))
  BY TryOne DEF Check, Good
<1> HIDE DEF t, D, r
<1>4. \A x, u : /\ Good(third(x, u)).ok /\ Good(third(x, u)).value.distortion = x
                /\ Good(third(x, u)).value.usable = u
                /\ DOMAIN Good(third(x, u)).value = {"distortion", "usable"}
  BY DEF Good
<1> HIDE DEF third
<1>5. least \in {1, 2}
  OBVIOUS
<1>6. r.ok => \/ r = Good(third(None, least)) \/ r = Good(third(None, 4))
              \/ D.ok /\ projective /= None /\ r = Good(third(D.value, 4))
  BY <1>1, <1>2
<1>7. ~r.ok => projective = None /\ Mentions(f) /\ D.ok
  BY <1>1, <1>3, <1>4
<1>9. r.ok /\ r.value.usable = 4 => r.value.distortion = IF Mentions(f) THEN D.value ELSE None
  BY <1>1, <1>2, <1>4, <1>5
<1> HIDE DEF least
<1>8. r.ok => /\ DOMAIN r.value = {"distortion", "usable"}
              /\ r.value.usable \in {4, least}
              /\ r.value.usable < 4 => r.value.distortion = None
              /\ r.value.distortion /= None =>
                   D.ok /\ r.value.distortion = D.value /\ projective /= None
  BY <1>4, <1>5, <1>6
<1> QED BY <1>7, <1>8, <1>9 DEF r, D, least

\* A solution that was read, by its layers.
LEMMA SolutionHolds ==
  ASSUME NEW f, ReadIn(f).ok, ~Empty(f) \/ ReadIn(f).value /= None
  PROVE  LET s == ReadIn(f).value
         IN  /\ ~Empty(f) /\ VersionOf(f).ok /\ ReadProjection(f).ok /\ ReadProjective(f).ok
             /\ s.projection = ReadProjection(f).value /\ s.projective = ReadProjective(f).value
             /\ ThirdLayer(f, s.projective).ok
             /\ s.distortion = ThirdLayer(f, s.projective).value.distortion
             /\ s.usable = ThirdLayer(f, s.projective).value.usable
<1> DEFINE lower == [projection |-> ReadProjection(f).value, projective |-> ReadProjective(f).value]
           T == ThirdLayer(f, LayersOf(f).value.projective)
           third == T.value
           s == SolutionOf(f, LayersOf(f).value, third)
<1>1. ReadIn(f) = IF Empty(f) THEN Good(None)
                  ELSE IF ~VersionOf(f).ok THEN VersionOf(f)
                  ELSE IF ~LayersOf(f).ok THEN LayersOf(f)
                  ELSE IF ~T.ok THEN T ELSE Good(s)
  BY DEF ReadIn
<1> HIDE DEF T, s
<1>2. ~Empty(f) /\ VersionOf(f).ok /\ LayersOf(f).ok /\ T.ok /\ ReadIn(f).value = s
  BY <1>1 DEF Good
<1>3. ReadProjection(f).ok /\ ReadProjective(f).ok /\ LayersOf(f).value = lower
  BY <1>2, LayersHold DEF Good
<1>4. DOMAIN third = {"distortion", "usable"}
  BY <1>2, ThirdLayerHolds DEF T
<1>5. s = Joined([version |-> Text(f, <<"Version">>), creator |-> Text(f, <<"CreatorApplication">>)],
                 Joined(lower, third))
  BY <1>3 DEF SolutionOf, s
<1> HIDE DEF third
<1>6. DOMAIN lower = {"projection", "projective"}
  OBVIOUS
<1> HIDE DEF lower
<1>7. /\ Joined(lower, third).projection = lower.projection
      /\ Joined(lower, third).projective = lower.projective
      /\ Joined(lower, third).distortion = third.distortion
      /\ Joined(lower, third).usable = third.usable
      /\ DOMAIN Joined(lower, third) = {"projection", "projective", "distortion", "usable"}
  BY <1>4, <1>6 DEF Joined
<1> DEFINE j == Joined(lower, third)
           h == [version |-> Text(f, <<"Version">>), creator |-> Text(f, <<"CreatorApplication">>)]
<1>8. DOMAIN h = {"version", "creator"}
  OBVIOUS
<1> HIDE DEF j, h
<1>9. /\ Joined(h, j).projection = j.projection /\ Joined(h, j).projective = j.projective
      /\ Joined(h, j).distortion = j.distortion /\ Joined(h, j).usable = j.usable
  BY <1>7, <1>8 DEF Joined, j
<1>10. /\ s.projection = lower.projection /\ s.projective = lower.projective
       /\ s.distortion = third.distortion /\ s.usable = third.usable
  BY <1>5, <1>7, <1>9 DEF j, h
<1>11. lower.projection = ReadProjection(f).value /\ lower.projective = ReadProjective(f).value
  BY DEF lower
<1>12. T = ThirdLayer(f, s.projective)
  BY <1>3, <1>10 DEF T
<1> QED BY <1>2, <1>3, <1>10, <1>11, <1>12 DEF third

-----------------------------------------------------------------------------
\* Of the positions up to some number there is a last.
LEMMA GreatestNatural ==
  ASSUME NEW n \in Nat, NEW T, T \subseteq 1 .. n, T /= {}
  PROVE  Max(T) \in T /\ \A m \in T : m <= Max(T)
<1> DEFINE R == {n - m : m \in T}
<1>1. R \subseteq Nat /\ R /= {}
  <2>1. \A m \in T : n - m \in Nat
    OBVIOUS
  <2>2. PICK m \in T : TRUE
    OBVIOUS
  <2>3. n - m \in R
    OBVIOUS
  <2> QED BY <2>1, <2>3
<1>2. PICK r \in R : \A q \in R : r <= q
  <2> HIDE DEF R
  <2> QED BY <1>1, LeastNatural
<1>3. PICK g \in T : r = n - g
  OBVIOUS
<1>4. \A m \in T : m <= g
  <2> SUFFICES ASSUME NEW m \in T PROVE m <= g
    OBVIOUS
  <2>1. n - m \in R
    OBVIOUS
  <2>2. n - g <= n - m
    BY <1>2, <1>3, <2>1
  <2> QED BY <2>2
<1>5. Max(T) \in T /\ \A m \in T : Max(T) >= m
  BY <1>4 DEF Max
<1> QED BY <1>5

\* The last of the properties of a set that a file has.
LastIn(s, M, p) == \E i \in 1 .. Len(s) : s[i] = p /\ p \in M /\ \A j \in 1 .. Len(s) : s[j] \in M => j <= i

LEMMA LastIsOne ==
  ASSUME NEW S, NEW s \in Seq(S), NEW M
  PROVE  /\ (\E i \in 1 .. Len(s) : s[i] \in M) <=> (\E p \in S : LastIn(s, M, p))
         /\ \A p \in S : LastIn(s, M, p) =>
              LET at == {i \in 1 .. Len(s) : s[i] \in M}
              IN  at /= {} /\ s[Max(at)] = p
<1> DEFINE at == {i \in 1 .. Len(s) : s[i] \in M}
<1>1. Len(s) \in Nat /\ at \subseteq 1 .. Len(s)
  OBVIOUS
<1>2. at /= {} => Max(at) \in at /\ \A m \in at : m <= Max(at)
  <2> HIDE DEF at
  <2> QED BY <1>1, GreatestNatural
<1>3. ASSUME at /= {} PROVE \E p \in S : LastIn(s, M, p)
  <2>1. PICK m : m = Max(at)
    OBVIOUS
  <2>2. m \in 1 .. Len(s) /\ s[m] \in M /\ \A j \in 1 .. Len(s) : s[j] \in M => j <= m
    BY <1>2, <1>3, <2>1
  <2>3. s[m] \in S
    BY <2>2
  <2> QED BY <2>2, <2>3 DEF LastIn
<1>4. ASSUME NEW p \in S, LastIn(s, M, p) PROVE at /= {} /\ s[Max(at)] = p
  <2>1. PICK i \in 1 .. Len(s) : s[i] = p /\ p \in M /\ \A j \in 1 .. Len(s) : s[j] \in M => j <= i
    BY <1>4 DEF LastIn
  <2>2. i \in at /\ at /= {}
    BY <2>1
  <2>3. PICK m : m = Max(at)
    OBVIOUS
  <2>4. m \in at /\ i <= m
    BY <1>2, <2>2, <2>3
  <2>5. m <= i /\ m \in 1 .. Len(s)
    BY <2>1, <2>4
  <2>6. m = i
    BY <2>4, <2>5
  <2> QED BY <2>1, <2>2, <2>3, <2>6
<1>5. (\E i \in 1 .. Len(s) : s[i] \in M) <=> at /= {}
  OBVIOUS
<1>6. ASSUME NEW p \in S, LastIn(s, M, p) PROVE \E i \in 1 .. Len(s) : s[i] \in M
  BY <1>6 DEF LastIn
<1> QED BY <1>3, <1>4, <1>5, <1>6

\* What is done to a property that is not of the set leaves its last as it was.
LEMMA LastKeptRemoving ==
  ASSUME NEW S, NEW s \in Seq(S), NEW i \in 1 .. Len(s), NEW M, s[i] \notin M
  PROVE  /\ RemoveAt(s, i) \in Seq(S)
         /\ \A p : LastIn(s, M, p) <=> LastIn(RemoveAt(s, i), M, p)
<1> DEFINE t == RemoveAt(s, i)
           n == Len(s)
<1>1. n \in Nat /\ n >= 1
  OBVIOUS
<1>2. t \in Seq(S) /\ Len(t) = n - 1 /\ \A j \in 1 .. n - 1 : t[j] = IF j < i THEN s[j] ELSE s[j + 1]
  <2> DEFINE a == SubSeq(s, 1, i - 1)
             b == SubSeq(s, i + 1, n)
  <2>1. a \in Seq(S) /\ Len(a) = i - 1 /\ \A j \in 1 .. i - 1 : a[j] = s[j]
    OBVIOUS
  <2>2. b \in Seq(S) /\ Len(b) = n - i /\ \A j \in 1 .. n - i : b[j] = s[i + j]
    OBVIOUS
  <2>3. t = a \o b
    BY DEF RemoveAt
  <2> HIDE DEF a, b, t, n
  <2>4. /\ a \o b \in Seq(S) /\ Len(a \o b) = Len(a) + Len(b)
        /\ \A j \in 1 .. Len(a) + Len(b) : (a \o b)[j] = IF j <= Len(a) THEN a[j] ELSE b[j - Len(a)]
    BY <2>1, <2>2, ConcatProperties
  <2>5. Len(a) + Len(b) = n - 1 /\ i \in 1 .. n
    BY <1>1, <2>1, <2>2 DEF n
  <2>6. ASSUME NEW j \in 1 .. n - 1 PROVE t[j] = IF j < i THEN s[j] ELSE s[j + 1]
    <3>1. CASE j < i
      <4>1. j \in 1 .. i - 1 /\ j <= Len(a)
        BY <2>1, <2>5, <3>1
      <4> QED BY <2>1, <2>3, <2>4, <2>5, <3>1, <4>1
    <3>2. CASE ~(j < i)
      <4>1. j - (i - 1) \in 1 .. n - i /\ ~(j <= Len(a)) /\ i + (j - (i - 1)) = j + 1
        BY <1>1, <2>1, <2>5, <3>2
      <4>2. t[j] = b[j - (i - 1)]
        BY <2>1, <2>3, <2>4, <2>5, <4>1
      <4> QED BY <2>2, <3>2, <4>1, <4>2
    <3> QED BY <3>1, <3>2
  <2> QED BY <2>3, <2>4, <2>5, <2>6
<1> HIDE DEF t
<1>3. ASSUME NEW p, LastIn(s, M, p) PROVE LastIn(t, M, p)
  <2>1. PICK k \in 1 .. n : s[k] = p /\ p \in M /\ \A j \in 1 .. n : s[j] \in M => j <= k
    BY <1>3 DEF LastIn
  <2>2. k /= i
    BY <2>1
  <2> DEFINE m == IF k < i THEN k ELSE k - 1
  <2>3. m \in 1 .. n - 1 /\ t[m] = p
    <3>1. CASE k < i
      BY <1>1, <1>2, <2>1, <3>1
    <3>2. CASE ~(k < i)
      <4>1. k - 1 \in 1 .. n - 1 /\ ~(k - 1 < i) /\ (k - 1) + 1 = k
        BY <1>1, <2>2, <3>2
      <4> QED BY <1>2, <2>1, <3>2, <4>1
    <3> QED BY <3>1, <3>2
  <2>4. ASSUME NEW j \in 1 .. n - 1, t[j] \in M PROVE j <= m
    <3>1. CASE j < i
      <4>1. j <= k
        BY <1>1, <1>2, <2>1, <2>4, <3>1
      <4> QED BY <2>2, <3>1, <4>1
    <3>2. CASE ~(j < i)
      <4>1. j + 1 \in 1 .. n /\ s[j + 1] \in M
        BY <1>1, <1>2, <2>4, <3>2
      <4>2. j + 1 <= k
        BY <2>1, <4>1
      <4> QED BY <3>2, <4>2
    <3> QED BY <3>1, <3>2
  <2> HIDE DEF m, n
  <2> QED BY <1>2, <2>1, <2>3, <2>4 DEF LastIn
<1>4. ASSUME NEW p, LastIn(t, M, p) PROVE LastIn(s, M, p)
  <2>1. PICK m \in 1 .. n - 1 : t[m] = p /\ p \in M /\ \A j \in 1 .. n - 1 : t[j] \in M => j <= m
    BY <1>2, <1>4 DEF LastIn
  <2> DEFINE k == IF m < i THEN m ELSE m + 1
  <2>2. k \in 1 .. n /\ s[k] = p
    BY <1>1, <1>2, <2>1
  <2>3. ASSUME NEW j \in 1 .. n, s[j] \in M PROVE j <= k
    <3>1. j /= i
      BY <2>3
    <3>2. CASE j < i
      <4>1. j \in 1 .. n - 1 /\ t[j] \in M
        BY <1>1, <1>2, <2>3, <3>2
      <4>2. j <= m
        BY <2>1, <4>1
      <4> QED BY <4>2
    <3>3. CASE ~(j < i)
      <4>1. j - 1 \in 1 .. n - 1 /\ ~(j - 1 < i) /\ (j - 1) + 1 = j
        BY <1>1, <3>1, <3>3
      <4>2. t[j - 1] \in M
        BY <1>2, <2>3, <4>1
      <4>3. j - 1 <= m
        BY <2>1, <4>1, <4>2
      <4> QED BY <3>1, <3>3, <4>3
    <3> QED BY <3>2, <3>3
  <2> HIDE DEF k
  <2> QED BY <2>1, <2>2, <2>3 DEF LastIn
<1> QED BY <1>2, <1>3, <1>4 DEF t

LEMMA LastKeptReplacing ==
  ASSUME NEW S, NEW s \in Seq(S), NEW i \in 1 .. Len(s), NEW q \in S, NEW M, s[i] \notin M, q \notin M
  PROVE  /\ ReplaceAt(s, i, q) \in Seq(S)
         /\ \A p : LastIn(s, M, p) <=> LastIn(ReplaceAt(s, i, q), M, p)
<1> DEFINE t == ReplaceAt(s, i, q)
<1>1. t \in Seq(S) /\ Len(t) = Len(s) /\ \A j \in 1 .. Len(s) : t[j] = IF j = i THEN q ELSE s[j]
  BY DEF ReplaceAt
<1> HIDE DEF t
<1>2. ASSUME NEW p PROVE LastIn(s, M, p) <=> LastIn(t, M, p)
  <2>1. \A j \in 1 .. Len(s) : (t[j] \in M <=> s[j] \in M) /\ (s[j] \in M => t[j] = s[j])
    BY <1>1
  <2>2. ASSUME LastIn(s, M, p) PROVE LastIn(t, M, p)
    BY <1>1, <2>1, <2>2 DEF LastIn
  <2>3. ASSUME LastIn(t, M, p) PROVE LastIn(s, M, p)
    BY <1>1, <2>1, <2>3 DEF LastIn
  <2> QED BY <2>2, <2>3
<1> QED BY <1>1, <1>2 DEF t

LEMMA LastKeptAppending ==
  ASSUME NEW S, NEW s \in Seq(S), NEW q \in S, NEW M, q \notin M
  PROVE  /\ Append(s, q) \in Seq(S)
         /\ \A p : LastIn(s, M, p) <=> LastIn(Append(s, q), M, p)
<1> DEFINE t == Append(s, q)
           n == Len(s)
<1>1. n \in Nat /\ t \in Seq(S) /\ Len(t) = n + 1 /\ t[n + 1] = q /\ \A j \in 1 .. n : t[j] = s[j]
  OBVIOUS
<1> HIDE DEF t
<1>2. \A j \in 1 .. n + 1 : j \in 1 .. n \/ j = n + 1
  BY <1>1
<1>3. \A j \in 1 .. n : j \in 1 .. n + 1
  BY <1>1
<1> HIDE DEF n
<1>4. ASSUME NEW p PROVE LastIn(s, M, p) <=> LastIn(t, M, p)
  <2>1. ASSUME LastIn(s, M, p) PROVE LastIn(t, M, p)
    <3>1. PICK k \in 1 .. n : s[k] = p /\ p \in M /\ \A j \in 1 .. n : s[j] \in M => j <= k
      BY <2>1 DEF LastIn, n
    <3>2. \A j \in 1 .. n + 1 : t[j] \in M => j <= k
      BY <1>1, <1>2, <3>1
    <3> QED BY <1>1, <1>3, <3>1, <3>2 DEF LastIn
  <2>2. ASSUME LastIn(t, M, p) PROVE LastIn(s, M, p)
    <3>1. PICK k \in 1 .. n + 1 : t[k] = p /\ p \in M /\ \A j \in 1 .. n + 1 : t[j] \in M => j <= k
      BY <1>1, <2>2 DEF LastIn
    <3>2. k \in 1 .. n
      BY <1>1, <1>2, <3>1
    <3>3. \A j \in 1 .. n : s[j] \in M => j <= k
      BY <1>1, <1>3, <3>1
    <3> QED BY <1>1, <3>1, <3>2, <3>3 DEF LastIn, n
  <2> QED BY <2>1, <2>2
<1> QED BY <1>1, <1>4 DEF t

-----------------------------------------------------------------------------
BlocksAt(S, key) == {p \in S : p.located /\ p.key = key}
SaidAt(S, key) == {p \in S : ~p.located /\ Stated(p) /= None /\ p.key = key}

\* What is gathered under a key is the last that the file has of it.
LEMMA GatherIs ==
  ASSUME NEW S, NEW s \in Seq(S), NEW key
  PROVE  /\ key \in DOMAIN Gather(s).blocks <=> \E p \in S : LastIn(s, BlocksAt(S, key), p)
         /\ \A p \in S : LastIn(s, BlocksAt(S, key), p) => Gather(s).blocks[key] = p
         /\ key \in DOMAIN Gather(s).scalars <=> \E p \in S : LastIn(s, SaidAt(S, key), p)
         /\ \A p \in S : LastIn(s, SaidAt(S, key), p) => Gather(s).scalars[key] = Stated(p)
<1> DEFINE located == {i \in DOMAIN s : s[i].located}
           said == {i \in DOMAIN s : ~s[i].located /\ Stated(s[i]) /= None}
           Keys(entries) == {s[i].key : i \in entries}
           At(entries, k) == {i \in entries : s[i].key = k}
           BlockAt == {i \in 1 .. Len(s) : s[i] \in BlocksAt(S, key)}
           TextAt == {i \in 1 .. Len(s) : s[i] \in SaidAt(S, key)}
<1>1. DOMAIN s = 1 .. Len(s) /\ \A i \in 1 .. Len(s) : s[i] \in S
  OBVIOUS
<1>2. At(located, key) = BlockAt
  BY <1>1 DEF BlocksAt
<1>3. At(said, key) = TextAt
  BY <1>1 DEF SaidAt
<1>4. /\ Gather(s).blocks = [k \in Keys(located) |-> s[Max(At(located, k))]]
      /\ Gather(s).scalars = [k \in Keys(said) |-> Stated(s[Max(At(said, k))])]
  BY DEF Gather
<1>5. /\ key \in Keys(located) <=> At(located, key) /= {}
      /\ key \in Keys(said) <=> At(said, key) /= {}
  OBVIOUS
<1> HIDE DEF located, said, At
<1>6. /\ key \in DOMAIN Gather(s).blocks <=> BlockAt /= {}
      /\ BlockAt /= {} => Gather(s).blocks[key] = s[Max(BlockAt)]
      /\ key \in DOMAIN Gather(s).scalars <=> TextAt /= {}
      /\ TextAt /= {} => Gather(s).scalars[key] = Stated(s[Max(TextAt)])
  <2> HIDE DEF Keys, BlockAt, TextAt
  <2> QED BY <1>2, <1>3, <1>4, <1>5
<1> DEFINE B == BlocksAt(S, key)
           T == SaidAt(S, key)
<1>7. /\ (\E i \in 1 .. Len(s) : s[i] \in B) <=> (\E p \in S : LastIn(s, B, p))
      /\ \A p \in S : LastIn(s, B, p) => BlockAt /= {} /\ s[Max(BlockAt)] = p
  <2> HIDE DEF B
  <2> QED BY LastIsOne DEF B
<1>8. /\ (\E i \in 1 .. Len(s) : s[i] \in T) <=> (\E p \in S : LastIn(s, T, p))
      /\ \A p \in S : LastIn(s, T, p) => TextAt /= {} /\ s[Max(TextAt)] = p
  <2> HIDE DEF T
  <2> QED BY LastIsOne DEF T
<1>9. /\ BlockAt /= {} <=> \E i \in 1 .. Len(s) : s[i] \in B
      /\ TextAt /= {} <=> \E i \in 1 .. Len(s) : s[i] \in T
  OBVIOUS
<1> HIDE DEF BlockAt, TextAt, B, T
<1>10. /\ key \in DOMAIN Gather(s).blocks <=> \E p \in S : LastIn(s, B, p)
       /\ \A p \in S : LastIn(s, B, p) => Gather(s).blocks[key] = p
       /\ key \in DOMAIN Gather(s).scalars <=> \E p \in S : LastIn(s, T, p)
       /\ \A p \in S : LastIn(s, T, p) => Gather(s).scalars[key] = Stated(p)
  BY <1>6, <1>7, <1>8, <1>9
<1> QED BY <1>10 DEF B, T

\* Two gatherings have the same under a key.
Same(f, g, key) ==
  /\ key \in DOMAIN f.blocks <=> key \in DOMAIN g.blocks
  /\ key \in DOMAIN f.blocks => f.blocks[key] = g.blocks[key]
  /\ key \in DOMAIN f.scalars <=> key \in DOMAIN g.scalars
  /\ key \in DOMAIN f.scalars => f.scalars[key] = g.scalars[key]

LEMMA SameGathered ==
  ASSUME NEW S, NEW s \in Seq(S), NEW t \in Seq(S), NEW key,
         \A p : LastIn(s, BlocksAt(S, key), p) <=> LastIn(t, BlocksAt(S, key), p),
         \A p : LastIn(s, SaidAt(S, key), p) <=> LastIn(t, SaidAt(S, key), p)
  PROVE  Same(Gather(s), Gather(t), key)
<1> DEFINE f == Gather(s)
           g == Gather(t)
           B == BlocksAt(S, key)
           T == SaidAt(S, key)
<1>1. /\ key \in DOMAIN f.blocks <=> \E p \in S : LastIn(s, B, p)
      /\ \A p \in S : LastIn(s, B, p) => f.blocks[key] = p
      /\ key \in DOMAIN f.scalars <=> \E p \in S : LastIn(s, T, p)
      /\ \A p \in S : LastIn(s, T, p) => f.scalars[key] = Stated(p)
  BY GatherIs
<1>2. /\ key \in DOMAIN g.blocks <=> \E p \in S : LastIn(t, B, p)
      /\ \A p \in S : LastIn(t, B, p) => g.blocks[key] = p
      /\ key \in DOMAIN g.scalars <=> \E p \in S : LastIn(t, T, p)
      /\ \A p \in S : LastIn(t, T, p) => g.scalars[key] = Stated(p)
  BY GatherIs
<1>3. /\ \A p : LastIn(s, B, p) <=> LastIn(t, B, p)
      /\ \A p : LastIn(s, T, p) <=> LastIn(t, T, p)
  OBVIOUS
<1> HIDE DEF f, g, B, T
<1>4. Same(f, g, key)
  BY <1>1, <1>2, <1>3 DEF Same
<1> QED BY <1>4 DEF f, g

\* What is gathered from a file of properties is stored under its own key.
LEMMA SoundGathered ==
  ASSUME NEW s, s \in Seq(ToSet(s)), \A p \in ToSet(s) : IsProperty(p)
  PROVE  Sound(Gather(s))
<1> DEFINE S == ToSet(s)
           f == Gather(s)
<1>1. ASSUME NEW key \in DOMAIN f.blocks
      PROVE  IsStored(f.blocks[key]) /\ f.blocks[key].key = key
  <2>1. PICK p \in S : LastIn(s, BlocksAt(S, key), p)
    <3> HIDE DEF S
    <3> QED BY <1>1, GatherIs DEF S
  <2>2. f.blocks[key] = p
    <3> HIDE DEF S
    <3> QED BY <2>1, GatherIs DEF S
  <2>3. p.located /\ p.key = key
    BY <2>1 DEF LastIn, BlocksAt
  <2> QED BY <2>2, <2>3 DEF IsProperty
<1>2. ASSUME NEW key \in DOMAIN f.scalars
      PROVE  IsText(Last(key), f.scalars[key])
  <2>1. PICK p \in S : LastIn(s, SaidAt(S, key), p)
    <3> HIDE DEF S
    <3> QED BY <1>2, GatherIs DEF S
  <2>2. f.scalars[key] = Stated(p)
    <3> HIDE DEF S
    <3> QED BY <2>1, GatherIs DEF S
  <2>3. ~p.located /\ p.key = key
    BY <2>1 DEF LastIn, SaidAt
  <2>4. IsText(Last(key), p.e.value) /\ IsText(Last(key), p.e.text)
    BY <2>3 DEF IsProperty, Key
  <2>5. Stated(p) = p.e.value \/ Stated(p) = p.e.text
    BY DEF Stated
  <2> QED BY <2>2, <2>4, <2>5
<1> HIDE DEF f
<1> QED BY <1>1, <1>2 DEF Sound, f

-----------------------------------------------------------------------------
LEMMA ToSetHolds ==
  ASSUME NEW S, NEW s \in Seq(S)
  PROVE  s \in Seq(ToSet(s)) /\ ToSet(s) \subseteq S
BY DEF ToSet

\* What an encoder wrote of a property that is altered.
Encoded(p) ==
  /\ IsProperty(p)
  /\ p.located => p.values /= None /\ (p.e.length = None => p.e.columns \in Nat)
  /\ ~p.located => Key(p) \in DOMAIN Texts

LEMMA CutShort ==
  ASSUME NEW V, NEW s \in Seq(V), NEW n \in Nat
  PROVE  SubSeq(s, 1, Len(s) - n) \in Seq(V)
<1>1. CASE Len(s) - n >= 0
  BY <1>1
<1>2. CASE ~(Len(s) - n >= 0)
  <2>1. Len(s) - n < 0
    BY <1>2
  <2>2. 1 .. Len(s) - n = {}
    BY <2>1
  <2>3. SubSeq(s, 1, Len(s) - n) = <<>>
    BY <2>1, <2>2
  <2> QED BY <2>3
<1> QED BY <1>1, <1>2

LEMMA AlteredHolds ==
  ASSUME NEW p, Encoded(p), NEW q \in Altered(p), p.values /= <<>>
  PROVE  IsProperty(q) /\ q.key = p.key /\ (p.located <=> q.located)
<1> DEFINE V == ValuesUnder(Key(p))
           S == IF Key(p) = "Center" THEN Int ELSE Number
<1>0. V = Seq(S)
  BY DEF ValuesUnder
<1>1. CASE p.located
  <2>1. p.values \in Seq(S) /\ p.written \in Scalars \ {"Boolean"}
    BY <1>0, <1>1 DEF Encoded, IsProperty, IsStored
  <2>2. Front(p.values) \in Seq(S)
    <3>1. SubSeq(p.values, 1, Len(p.values) - 1) \in Seq(S)
      BY <2>1, CutShort
    <3> QED BY <3>1 DEF Front
  <2>3. p.e.length = None => SubSeq(p.values, 1, Len(p.values) - p.e.columns) \in Seq(S)
    BY <1>1, <2>1, CutShort DEF Encoded
  <2>4. p.values \o p.values \in Seq(S)
    BY <2>1, ConcatProperties
  <2> DEFINE names == {"key", "located", "e", "written", "values"}
  <2>10. DOMAIN p = names
    BY DEF Encoded, IsProperty
  <2> DEFINE Alike == /\ DOMAIN q = names /\ q.key = p.key /\ q.located = p.located
                      /\ q.written = p.written \/ q.written = "Float32"
                      /\ \/ q.values = p.values \/ q.values = None \/ q.values \in Seq(S)
  <2>5. Alike
    <3> HIDE DEF S, names
    <3>1. CASE q = [p EXCEPT !.values = None]
      BY <2>10, <3>1 DEF names
    <3>2. CASE q = [p EXCEPT !.values = Front(@)]
      <4>1. PICK v \in Seq(S) : v = Front(p.values)
        BY <2>2
      <4>2. q = [p EXCEPT !.values = v]
        BY <3>2, <4>1
      <4> QED BY <2>10, <4>1, <4>2 DEF names
    <3>3. CASE q = Shortened(p)
      <4>1. CASE p.e.length /= None
        <5>1. PICK v \in Seq(S) : v = Front(p.values)
          BY <2>2, <4>1
        <5>2. PICK e : e = [p.e EXCEPT !.length = @ - 1]
          OBVIOUS
        <5>3. q = [p EXCEPT !.e = e, !.values = v]
          BY <3>3, <4>1, <5>1, <5>2 DEF Shortened
        <5> QED BY <2>10, <5>1, <5>3 DEF names
      <4>2. CASE p.e.length = None
        <5>1. PICK v \in Seq(S) : v = SubSeq(p.values, 1, Len(p.values) - p.e.columns)
          BY <2>3, <4>2
        <5>2. PICK e : e = [p.e EXCEPT !.rows = @ - 1]
          OBVIOUS
        <5>3. q = [p EXCEPT !.e = e, !.values = v]
          BY <3>3, <4>2, <5>1, <5>2 DEF Shortened
        <5> QED BY <2>10, <5>1, <5>3 DEF names
      <4> QED BY <4>1, <4>2
    <3>4. CASE q = Halved(p)
      <4>1. PICK v \in Seq(S) : v = p.values \o p.values
        BY <2>4
      <4>2. DOMAIN q = DOMAIN p /\ q.key = p.key /\ q.located = p.located
            /\ q.written = "Float32" /\ q.values = v
        BY <2>10, <3>4, <4>1 DEF Halved, names
      <4> QED BY <2>10, <4>1, <4>2
    <3>5. CASE Key(p) \in DOMAIN Lists /\ \E v \in Lists[Key(p)] : q = [p EXCEPT !.values = v]
      <4>1. PICK v \in Lists[Key(p)] : q = [p EXCEPT !.values = v]
        BY <3>5
      <4>2. v \in Seq(S)
        BY <1>0, <3>5, AlterationsAssumption
      <4> QED BY <2>10, <4>1, <4>2 DEF names
    <3> QED BY <1>1, <3>1, <3>2, <3>3, <3>4, <3>5 DEF Altered
  <2>6. "Float32" \in Scalars \ {"Boolean"}
    BY DEF Scalars, Floats
  <2>7. Key(q) = Key(p)
    BY <2>5 DEF Key
  <2>8. IsStored(q)
    BY <1>0, <2>1, <2>5, <2>6, <2>7 DEF IsStored
  <2> QED BY <1>1, <2>5, <2>8 DEF IsProperty
<1>2. CASE ~p.located
  <2>1. PICK t \in Texts[Key(p)] : q = [p EXCEPT !.e.value = t]
    BY <1>2 DEF Altered
  <2>2. IsText(Key(p), t)
    BY <1>2, AlterationsAssumption DEF Encoded
  <2> DEFINE names == {"key", "located", "e", "written", "values"}
  <2>3. /\ q.key = p.key /\ q.located = p.located
        /\ q.e.value = t /\ q.e.text = p.e.text
        /\ DOMAIN q = names /\ {"value", "text"} \subseteq DOMAIN q.e
    <3>1. DOMAIN p = names /\ {"value", "text"} \subseteq DOMAIN p.e
      BY <1>2 DEF Encoded, IsProperty
    <3>2. /\ q.key = p.key /\ q.located = p.located /\ q.e = [p.e EXCEPT !.value = t]
          /\ DOMAIN q = names
      BY <2>1, <3>1
    <3>3. [p.e EXCEPT !.value = t].value = t /\ [p.e EXCEPT !.value = t].text = p.e.text
          /\ DOMAIN [p.e EXCEPT !.value = t] = DOMAIN p.e
      BY <3>1
    <3> QED BY <3>1, <3>2, <3>3
  <2>4. Key(q) = Key(p)
    BY <2>3 DEF Key
  <2>5. IsText(Key(p), p.e.value) /\ IsText(Key(p), p.e.text)
    BY <1>2 DEF Encoded, IsProperty
  <2> QED BY <1>2, <2>2, <2>3, <2>4, <2>5 DEF IsProperty
<1> QED BY <1>1, <1>2

-----------------------------------------------------------------------------
\* A property that nobody altered is the encoder's; one that is of its key and no less a text.
IsKnown(p) ==
  /\ IsProperty(p)
  /\ p.key \notin touched => p \in ToSet(original)
  /\ \E q \in ToSet(original) : q.key = p.key /\ (~p.located => ~q.located)

FileInv ==
  /\ original \in Originals
  /\ file \in Seq(ToSet(file))
  /\ \A p \in ToSet(file) : IsKnown(p)
  /\ \A key : key \notin touched => Same(Gather(original), Gather(file), key)
  /\ touched = {} => file = original

LEMMA SameTransitive ==
  ASSUME NEW f, NEW g, NEW h, NEW key, Same(f, g, key), Same(g, h, key)
  PROVE  Same(f, h, key)
BY DEF Same

LEMMA FileStarts == Init => FileInv
<1> SUFFICES ASSUME Init PROVE FileInv
  OBVIOUS
<1>1. original \in Originals /\ file = original /\ touched = {}
  BY DEF Init
<1>2. file \in Seq(ToSet(file)) /\ \A p \in ToSet(file) : IsProperty(p)
  BY <1>1, OriginalsAssumption
<1>3. \A p \in ToSet(file) : IsKnown(p)
  BY <1>1, <1>2 DEF IsKnown
<1>4. \A key : Same(Gather(original), Gather(file), key)
  BY <1>1 DEF Same
<1> QED BY <1>1, <1>2, <1>3, <1>4 DEF FileInv

\* What an altered file has under the keys that were not altered.
LEMMA FileChanged ==
  ASSUME NEW S, NEW s \in Seq(S), NEW i \in 1 .. Len(s), NEW t,
         \/ t = RemoveAt(s, i)
         \/ \E q \in S : q.key = s[i].key /\ t \in {ReplaceAt(s, i, q), Append(s, q)}
  PROVE  t \in Seq(S) /\ \A key : key /= s[i].key => Same(Gather(s), Gather(t), key)
<1>1. t \in Seq(S)
  <2>1. CASE t = RemoveAt(s, i)
    <3>1. s[i] \notin {}
      OBVIOUS
    <3> QED BY <2>1, <3>1, LastKeptRemoving
  <2>2. ASSUME NEW q \in S, t = ReplaceAt(s, i, q) PROVE t \in Seq(S)
    BY <2>2, LastKeptReplacing
  <2>3. ASSUME NEW q \in S, t = Append(s, q) PROVE t \in Seq(S)
    BY <2>3
  <2> QED BY <2>1, <2>2, <2>3
<1>2. ASSUME NEW key, key /= s[i].key PROVE Same(Gather(s), Gather(t), key)
  <2>1. ASSUME NEW M, \A p \in M : p.key = key
        PROVE  \A p : LastIn(s, M, p) <=> LastIn(t, M, p)
    <3>1. s[i] \notin M
      BY <1>2, <2>1
    <3>2. CASE t = RemoveAt(s, i)
      BY <3>1, <3>2, LastKeptRemoving
    <3>3. ASSUME NEW q \in S, q.key = s[i].key, t = ReplaceAt(s, i, q)
          PROVE  \A p : LastIn(s, M, p) <=> LastIn(t, M, p)
      <4>1. q \notin M
        BY <1>2, <2>1, <3>3
      <4> QED BY <3>1, <3>3, <4>1, LastKeptReplacing
    <3>4. ASSUME NEW q \in S, q.key = s[i].key, t = Append(s, q)
          PROVE  \A p : LastIn(s, M, p) <=> LastIn(t, M, p)
      <4>1. q \notin M
        BY <1>2, <2>1, <3>4
      <4> QED BY <3>4, <4>1, LastKeptAppending
    <3> QED BY <3>2, <3>3, <3>4
  <2>2. \A p \in BlocksAt(S, key) : p.key = key
    BY DEF BlocksAt
  <2>3. \A p \in SaidAt(S, key) : p.key = key
    BY DEF SaidAt
  <2>4. \A p : LastIn(s, BlocksAt(S, key), p) <=> LastIn(t, BlocksAt(S, key), p)
    BY <2>1, <2>2
  <2>5. \A p : LastIn(s, SaidAt(S, key), p) <=> LastIn(t, SaidAt(S, key), p)
    BY <2>1, <2>3
  <2> QED BY <1>1, <2>4, <2>5, SameGathered
<1> QED BY <1>1, <1>2

LEMMA FileAltered ==
  ASSUME FileInv, Alter
  PROVE  FileInv'
<1>1. PICK i \in DOMAIN file :
        /\ file[i].key \notin touched
        /\ file[i].values /= <<>>
        /\ \/ file' = RemoveAt(file, i)
           \/ \E p \in Altered(file[i]) : file' \in {ReplaceAt(file, i, p), Append(file, p)}
        /\ touched' = touched \cup {file[i].key}
  BY DEF Alter
<1> DEFINE old == file[i]
           A == ToSet(file)
<1>2. original' = original
  BY DEF Alter
<1>3. file \in Seq(A) /\ i \in 1 .. Len(file) /\ old \in A
  BY DEF FileInv, ToSet
<1>4. IsKnown(old) /\ old \in ToSet(original)
  BY <1>1, <1>3 DEF FileInv, IsKnown
<1>5. Encoded(old)
  BY <1>4, OriginalsAssumption DEF Encoded, FileInv
<1>6. PICK q : \/ file' = RemoveAt(file, i) /\ q = old
               \/ q \in Altered(old) /\ file' \in {ReplaceAt(file, i, q), Append(file, q)}
  BY <1>1
<1>7. IsProperty(q) /\ q.key = old.key /\ (old.located <=> q.located)
  BY <1>1, <1>5, <1>6, AlteredHolds DEF Encoded
<1> DEFINE S == A \cup {q}
<1>8. file \in Seq(S) /\ q \in S
  BY <1>3
<1>9. file' \in Seq(S) /\ \A key : key /= old.key => Same(Gather(file), Gather(file'), key)
  <2> HIDE DEF S, A
  <2>1. \/ file' = RemoveAt(file, i)
        \/ \E p \in S : p.key = file[i].key /\ file' \in {ReplaceAt(file, i, p), Append(file, p)}
    BY <1>6, <1>7, <1>8
  <2> QED BY <1>3, <1>8, <2>1, FileChanged
<1>10. file' \in Seq(ToSet(file')) /\ ToSet(file') \subseteq S
  BY <1>9, ToSetHolds
<1> HIDE DEF old
<1>11. touched' = touched \cup {old.key}
  BY <1>1 DEF old
<1>12. ASSUME NEW p \in ToSet(file') PROVE IsKnown(p)'
  <2>1. CASE p \in A
    BY <1>2, <1>11, <2>1 DEF IsKnown, FileInv
  <2>2. CASE p = q
    <3>1. p.key \in touched'
      BY <1>7, <1>11, <2>2
    <3>2. old.key = p.key /\ (~p.located => ~old.located)
      BY <1>7, <2>2
    <3> QED BY <1>2, <1>4, <1>7, <2>2, <3>1, <3>2 DEF IsKnown
  <2> QED BY <1>10, <2>1, <2>2
<1>13. ASSUME NEW key, key \notin touched' PROVE Same(Gather(original), Gather(file'), key)
  <2>1. key \notin touched /\ key /= old.key
    BY <1>11, <1>13
  <2>2. Same(Gather(original), Gather(file), key)
    BY <2>1 DEF FileInv
  <2> QED BY <1>9, <2>1, <2>2, SameTransitive
<1>14. touched' /= {}
  BY <1>11
<1> HIDE DEF S, A
<1>15. (\A p \in ToSet(file) : IsKnown(p))'
  BY <1>12
<1>16. (\A key : key \notin touched => Same(Gather(original), Gather(file), key))'
  BY <1>2, <1>13
<1> QED BY <1>2, <1>10, <1>14, <1>15, <1>16 DEF FileInv

-----------------------------------------------------------------------------
\* What was read, and where it was evaluated.
ReadInv == solution /= None => solution = ReadSolution(file)

PlaceInv ==
  place /= None =>
    /\ solution /= None /\ solution.ok /\ solution.value /= None
    /\ place.which \in Directions /\ place.at \in Points
    /\ place.step = ImagePlaneStep(solution.value, place.which, place.at)

Inv == FileInv /\ ReadInv /\ PlaceInv

LEMMA InvStarts == Init => Inv
BY FileStarts DEF Init, Inv, ReadInv, PlaceInv

LEMMA FileKept ==
  ASSUME FileInv, original' = original, file' = file, touched' = touched
  PROVE  FileInv'
BY DEF FileInv, IsKnown

LEMMA InvKept ==
  ASSUME Inv, [Next]_vars
  PROVE  Inv'
<1>1. CASE Alter
  <2>1. solution = None /\ solution' = solution /\ place' = place
    BY <1>1 DEF Alter
  <2>2. FileInv'
    BY <1>1, FileAltered DEF Inv
  <2> QED BY <2>1, <2>2 DEF Inv, ReadInv, PlaceInv
<1>2. CASE Read
  <2>1. /\ solution = None /\ solution' = ReadSolution(file)
        /\ original' = original /\ file' = file /\ touched' = touched /\ place' = place
    BY <1>2 DEF Read
  <2>2. FileInv'
    BY <2>1, FileKept DEF Inv
  <2>3. place = None
    BY <2>1 DEF Inv, PlaceInv
  <2>4. ReadInv'
    BY <2>1 DEF ReadInv
  <2> QED BY <2>1, <2>2, <2>3, <2>4 DEF Inv, PlaceInv
<1>3. CASE Evaluate
  <2>1. /\ solution /= None /\ place = None /\ solution.ok /\ solution.value /= None
        /\ original' = original /\ file' = file /\ touched' = touched /\ solution' = solution
    BY <1>3 DEF Evaluate
  <2>2. PICK which \in Directions, p \in Points :
          place' = [which |-> which, at |-> p, step |-> ImagePlaneStep(solution.value, which, p)]
    BY <1>3 DEF Evaluate
  <2>3. FileInv'
    BY <2>1, FileKept DEF Inv
  <2>4. ReadInv'
    BY <2>1 DEF Inv, ReadInv
  <2>5. place'.which = which /\ place'.at = p /\ place'.step = ImagePlaneStep(solution.value, which, p)
    BY <2>2
  <2>6. PlaceInv'
    BY <2>1, <2>5 DEF PlaceInv
  <2> QED BY <2>3, <2>4, <2>6 DEF Inv
<1>4. CASE UNCHANGED vars
  <2>1. /\ original' = original /\ file' = file /\ touched' = touched /\ solution' = solution
        /\ place' = place
    BY <1>4 DEF vars
  <2>2. FileInv'
    BY <2>1, FileKept DEF Inv
  <2> QED BY <2>1, <2>2 DEF Inv, ReadInv, PlaceInv
<1> QED BY <1>1, <1>2, <1>3, <1>4 DEF Next

\* A solution is what was read of the file there is, which has what the encoder wrote under
\* every key that nobody altered (mod.rs:643-700).
THEOREM SolutionIsOfItsFile == Spec => []Inv
<1>1. Init => Inv
  BY InvStarts
<1>2. Inv /\ [Next]_vars => Inv'
  BY InvKept
<1> QED BY <1>1, <1>2, PTL DEF Spec

-----------------------------------------------------------------------------
\* A distortion model that was read is whole.
LEMMA FoundHolds ==
  ASSUME Inv, Found
  PROVE  LET s == solution.value
             f == Gather(file)
         IN  /\ ReadIn(f).ok /\ s = ReadIn(f).value /\ s /= None /\ Sound(f)
             /\ s.projection = ReadProjection(f).value /\ s.projective = ReadProjective(f).value
             /\ s.usable \in {4, IF s.projective = None THEN 1 ELSE 2}
             /\ s.usable < 4 => s.distortion = None
             /\ s.usable = 4 => s.distortion = IF Mentions(f) THEN Distortion(f).value ELSE None
             /\ s.distortion /= None =>
                  /\ s.projective /= None /\ Distortion(f).ok /\ s.distortion = Distortion(f).value
                  /\ \A w \in Directions : Loaded(s.distortion[w])
<1> DEFINE s == solution.value
           f == Gather(file)
<1>1. solution = ReadIn(f) /\ ReadIn(f).ok /\ s = ReadIn(f).value /\ s /= None
  BY ReadSolutionIs DEF Inv, ReadInv, Found
<1>2. Sound(f)
  BY SoundGathered DEF Inv, FileInv, IsKnown
<1> DEFINE T == ThirdLayer(f, s.projective)
<1>3. /\ s.projection = ReadProjection(f).value /\ s.projective = ReadProjective(f).value
      /\ T.ok /\ s.distortion = T.value.distortion /\ s.usable = T.value.usable
  BY <1>1, SolutionHolds
<1>4. /\ T.value.usable \in {4, IF s.projective = None THEN 1 ELSE 2}
      /\ T.value.usable < 4 => T.value.distortion = None
      /\ T.value.usable = 4 => T.value.distortion = IF Mentions(f) THEN Distortion(f).value ELSE None
      /\ T.value.distortion /= None =>
           Distortion(f).ok /\ T.value.distortion = Distortion(f).value /\ s.projective /= None
  BY <1>3, ThirdLayerHolds
<1>5. s.distortion /= None => \A w \in Directions : Loaded(s.distortion[w])
  BY <1>2, <1>3, <1>4, DistortionHolds
<1> HIDE DEF T, s, f
<1> QED BY <1>1, <1>2, <1>3, <1>4, <1>5 DEF s, f

LEMMA LoadedLocal ==
  ASSUME NEW d, Loaded(d)
  PROVE  Local(d)
BY DEF Loaded, Local, WholeTerm

LEMMA FieldIsCovered ==
  ASSUME Inv
  PROVE  FallbackCoversTheField
<1> SUFFICES ASSUME place /= None, solution.value.distortion /= None, place.step.base /= None
             PROVE  LET d == solution.value.distortion[place.which]
                        r == place.step.residual
                    IN  /\ r.nearest /= None =>
                             /\ d.fallback = None /\ d.global = None
                             /\ \A i \in DOMAIN d.local : Distance(d.local[i], place.at) >= d.local[i].radius
                        /\ (r.weighed = {} /\ r.nearest = None) => d.terms \subseteq {"Local"} /\ d.local = <<>>
  BY DEF FallbackCoversTheField
<1> DEFINE s == solution.value
           d == s.distortion[place.which]
           r == place.step.residual
<1>1. /\ solution /= None /\ solution.ok /\ s /= None /\ place.which \in Directions /\ place.at \in Int \X Int
      /\ place.step = ImagePlaneStep(s, place.which, place.at)
  BY AlterationsAssumption DEF Inv, PlaceInv
<1>2. s.projective /= None /\ Loaded(d)
  BY <1>1, FoundHolds DEF Found
<1>3. r = Residual(d, place.at)
  <2> DEFINE b == IF s.projective /= None THEN Projective(s.projective[place.which], place.at)
                  ELSE IF place.which = "ImageToProjection" THEN Linear(s.projection, place.at)
                  ELSE LinearInverse(s.projection, place.at)
  <2>1. place.step = IF s.distortion = None THEN [base |-> b, residual |-> NoResidual]
                     ELSE IF s.projective = None \/ b = None THEN [base |-> None, residual |-> NoResidual]
                     ELSE [base |-> b, residual |-> Residual(d, place.at)]
    BY <1>1 DEF ImagePlaneStep
  <2> HIDE DEF b
  <2>2. b /= None
    BY <1>2, <2>1
  <2> HIDE DEF s, d
  <2>3. place.step = [base |-> b, residual |-> Residual(d, place.at)]
    BY <1>2, <2>1, <2>2 DEF s
  <2> QED BY <2>3
<1>4. None \notin Nat
  BY AbsenceAssumption
<1> HIDE DEF d, r
<1>5. Local(d) /\ (d.fallback /= None => d.fallback.threshold \in Nat \ {0})
  BY <1>2, LoadedLocal DEF Loaded
<1>6. /\ r.nearest /= None =>
           /\ d.fallback = None /\ d.global = None
           /\ \A i \in DOMAIN d.local : Distance(d.local[i], place.at) >= d.local[i].radius
      /\ r.weighed = {} /\ r.nearest = None => d.fallback = None /\ d.global = None /\ d.local = <<>>
  BY <1>1, <1>3, <1>4, <1>5, ResidualHolds
<1>7. d.fallback = None /\ d.global = None => d.terms \subseteq {"Local"}
  BY <1>2 DEF Loaded, TermKinds
<1> QED BY <1>6, <1>7 DEF d, r

\* With a Fallback term no point is left to the nearest Local term alone, however far it is
\* from all of them; without one only points outside of every Local term are; and where there
\* are terms there is a value (eval.rs:81-103, load.rs:106-122).
THEOREM FieldCovered == Spec => []FallbackCoversTheField
<1>1. Inv => FallbackCoversTheField
  BY FieldIsCovered
<1> QED BY <1>1, SolutionIsOfItsFile, PTL

-----------------------------------------------------------------------------
\* What is the same is read alike.
LEMMA ReadAlike ==
  ASSUME NEW f, NEW g, NEW key, Same(f, g, key)
  PROVE  /\ Text(f, key) = Text(g, key)
         /\ \A scalar, shapes : Words(f, key, scalar, shapes) = Words(g, key, scalar, shapes)
<1>1. Text(f, key) = Text(g, key)
  BY DEF Same, Text
<1>2. ASSUME NEW scalar, NEW shapes PROVE Words(f, key, scalar, shapes) = Words(g, key, scalar, shapes)
  BY DEF Same, Words, AndThen
<1> QED BY <1>1, <1>2

\* The keys of the lower two layers, and the version.
LowerKeys ==
  {<<"Version">>, <<"CelestialReferenceSystem">>, <<"ProjectionSystem">>, <<"LinearTransformationMatrix">>,
   <<"ReferenceCelestialCoordinates">>, <<"ReferenceImageCoordinates">>,
   <<"ReferenceNativeCoordinates">>, <<"CelestialPoleNativeCoordinates">>}
    \cup {<<"ProjectiveTransformation", w>> : w \in Directions}

LEMMA LowerKeysLie ==
  ASSUME NEW key \in LowerKeys
  PROVE  LayerOf(key) < 3
<1>1. CASE \E w : key = <<"ProjectiveTransformation", w>>
  <2>1. key[1] = "ProjectiveTransformation"
    BY <1>1
  <2>2. LayerOf(key) = 2
    BY <2>1 DEF LayerOf
  <2> QED BY <2>2
<1>2. CASE \E a \in {"Version", "CelestialReferenceSystem", "ProjectionSystem", "LinearTransformationMatrix",
                     "ReferenceCelestialCoordinates", "ReferenceImageCoordinates",
                     "ReferenceNativeCoordinates", "CelestialPoleNativeCoordinates"} : key = <<a>>
  <2>1. /\ key[1] /= "ProjectiveTransformation" /\ key[1] /= "DistortionModel"
        /\ key[1] /= "CreatorApplication"
    BY <1>2
  <2>2. LayerOf(key) = 1
    BY <2>1 DEF LayerOf
  <2> QED BY <2>2
<1> QED BY <1>1, <1>2 DEF LowerKeys

LEMMA LowerAlike ==
  ASSUME NEW f, NEW g, \A key \in LowerKeys : Same(f, g, key)
  PROVE  /\ VersionOf(f) = VersionOf(g) /\ ReadProjection(f) = ReadProjection(g)
         /\ ReadProjective(f) = ReadProjective(g)
<1> DEFINE Alike(key) == /\ Text(f, key) = Text(g, key)
                         /\ \A scalar, shapes : Words(f, key, scalar, shapes) = Words(g, key, scalar, shapes)
<1>1. \A key \in LowerKeys : Alike(key)
  BY ReadAlike
<1>2. VersionOf(f) = VersionOf(g)
  <2>1. Text(f, <<"Version">>) = Text(g, <<"Version">>)
    BY <1>1 DEF LowerKeys
  <2> QED BY <2>1 DEF VersionOf, Present, AndThen
<1>3. /\ Text(f, <<"CelestialReferenceSystem">>) = Text(g, <<"CelestialReferenceSystem">>)
      /\ Text(f, <<"ProjectionSystem">>) = Text(g, <<"ProjectionSystem">>)
  BY <1>1 DEF LowerKeys
<1>4. ASSUME NEW key \in LowerKeys
      PROVE  /\ \A n : RequiredNumbers(f, key, n) = RequiredNumbers(g, key, n)
             /\ OptionalPair(f, key) = OptionalPair(g, key)
             /\ Numbers(f, key) = Numbers(g, key)
  <2>1. Numbers(f, key) = Numbers(g, key)
    BY <1>1 DEF Numbers
  <2>2. OptionalPair(f, key) = OptionalPair(g, key)
    BY <2>1 DEF OptionalPair, AndThen
  <2>3. ASSUME NEW n PROVE RequiredNumbers(f, key, n) = RequiredNumbers(g, key, n)
    BY <2>1 DEF RequiredNumbers, AndThen
  <2> QED BY <2>1, <2>2, <2>3
<1> HIDE DEF Alike
<1>5. ReadProjection(f) = ReadProjection(g)
  <2>1. /\ RequiredNumbers(f, <<"LinearTransformationMatrix">>, 4) =
             RequiredNumbers(g, <<"LinearTransformationMatrix">>, 4)
        /\ RequiredNumbers(f, <<"ReferenceCelestialCoordinates">>, 2) =
             RequiredNumbers(g, <<"ReferenceCelestialCoordinates">>, 2)
        /\ RequiredNumbers(f, <<"ReferenceImageCoordinates">>, 2) =
             RequiredNumbers(g, <<"ReferenceImageCoordinates">>, 2)
    BY <1>4 DEF LowerKeys
  <2>2. /\ OptionalPair(f, <<"ReferenceNativeCoordinates">>) = OptionalPair(g, <<"ReferenceNativeCoordinates">>)
        /\ OptionalPair(f, <<"CelestialPoleNativeCoordinates">>) =
             OptionalPair(g, <<"CelestialPoleNativeCoordinates">>)
    BY <1>4 DEF LowerKeys
  <2> QED BY <1>3, <2>1, <2>2 DEF ReadProjection
<1>6. ReadProjective(f) = ReadProjective(g)
  <2>1. \A w \in Directions : Numbers(f, <<"ProjectiveTransformation", w>>) =
                                Numbers(g, <<"ProjectiveTransformation", w>>)
    BY <1>4 DEF LowerKeys
  <2>2. [w \in Directions |-> Numbers(f, <<"ProjectiveTransformation", w>>)] =
          [w \in Directions |-> Numbers(g, <<"ProjectiveTransformation", w>>)]
    BY <2>1
  <2> QED BY <2>2 DEF ReadProjective
<1> QED BY <1>2, <1>5, <1>6

LEMMA LowerStands ==
  ASSUME Inv
  PROVE  LowerLayersStand
<1> DEFINE was == ReadSolution(original)
           g == Gather(original)
           f == Gather(file)
           Stands(s) ==
             IF solution.ok
             THEN /\ solution.value.projection = s.projection
                  /\ solution.value.projective = s.projective
                  /\ solution.value.usable \in {4, IF s.projective = None THEN 1 ELSE 2}
             ELSE s.projective = None /\ Mentions(f) /\ Distortion(f).ok
<1>1. ASSUME solution /= None, \A key \in touched : LayerOf(key) >= 3
      PROVE  /\ touched = {} => solution = was
             /\ (IF was.ok THEN was.value /= None ELSE FALSE) => Stands(was.value)
  <2>1. touched = {} => solution = was
    BY <1>1 DEF Inv, FileInv, ReadInv
  <2>2. was = ReadIn(g) /\ solution = ReadIn(f)
    BY <1>1, ReadSolutionIs DEF Inv, ReadInv
  <2>3. ASSUME was.ok, was.value /= None
        PROVE  Stands(was.value)
    <3> DEFINE P == ReadProjection(g).value
               J == ReadProjective(g).value
               T == ThirdLayer(f, J)
    <3>1. /\ ~Empty(g) /\ VersionOf(g).ok /\ ReadProjection(g).ok /\ ReadProjective(g).ok
          /\ was.value.projection = P /\ was.value.projective = J
      BY <2>2, <2>3, SolutionHolds
    <3>2. \A key \in LowerKeys : Same(f, g, key)
      <4> SUFFICES ASSUME NEW key \in LowerKeys PROVE Same(f, g, key)
        OBVIOUS
      <4>1. LayerOf(key) < 3
        BY LowerKeysLie
      <4>2. key \notin touched
        <5>1. CASE LayerOf(key) \in Int
          BY <1>1, <4>1, <5>1
        <5>2. LayerOf(key) \in Int
          BY DEF LayerOf
        <5> QED BY <5>1, <5>2
      <4>3. Same(g, f, key)
        BY <4>2 DEF Inv, FileInv
      <4> QED BY <4>3 DEF Same
    <3>3. /\ VersionOf(f) = VersionOf(g) /\ ReadProjection(f) = ReadProjection(g)
          /\ ReadProjective(f) = ReadProjective(g)
      BY <3>2, LowerAlike
    <3>4. ~Empty(f)
      <4>1. Text(g, <<"Version">>) /= None
        BY <3>1 DEF VersionOf, Present, Bad
      <4>2. Text(f, <<"Version">>) /= None
        BY <3>2, <4>1, ReadAlike DEF LowerKeys
      <4>3. <<"Version">> \in DOMAIN f.scalars
        BY <4>2 DEF Text
      <4> QED BY <4>3 DEF Empty
    <3> HIDE DEF P, J, f, g
    <3>5. LayersOf(f) = Good([projection |-> P, projective |-> J])
      <4>1. ReadProjection(f).ok /\ ReadProjective(f).ok
        BY <3>1, <3>3
      <4> QED BY <3>3, <4>1, LayersHold DEF P, J
    <3>6. LayersOf(f).ok /\ LayersOf(f).value.projective = J /\ VersionOf(f).ok
      BY <3>1, <3>3, <3>5 DEF Good
    <3>7. T = ThirdLayer(f, LayersOf(f).value.projective)
      BY <3>6
    <3> HIDE DEF T
    <3>8. CASE T.ok
      <4>1. T.value.usable \in {4, IF J = None THEN 1 ELSE 2}
        BY <3>8, ThirdLayerHolds DEF T
      <4>2. solution = Good(SolutionOf(f, LayersOf(f).value, T.value))
        BY <2>2, <3>4, <3>6, <3>7, <3>8 DEF ReadIn, f
      <4>3. ReadIn(f).ok /\ ReadIn(f) = solution
        BY <2>2, <4>2 DEF Good, f
      <4>4. /\ solution.value.projection = P /\ solution.value.projective = J
            /\ solution.value.usable = T.value.usable
        BY <3>3, <3>4, <4>3, SolutionHolds DEF P, J, T
      <4> QED BY <3>1, <4>1, <4>3, <4>4
    <3>9. CASE ~T.ok
      <4>1. J = None /\ Mentions(f) /\ Distortion(f).ok
        BY <3>9, ThirdLayerHolds DEF T
      <4>2. ReadIn(f) = T
        BY <3>4, <3>6, <3>7, <3>9 DEF ReadIn
      <4>3. ~solution.ok
        BY <2>2, <3>9, <4>2 DEF f
      <4> QED BY <3>1, <4>1, <4>3
    <3> QED BY <3>8, <3>9
  <2> QED BY <2>1, <2>3
<1>2. ASSUME Found
      PROVE  LET s == solution.value
             IN  /\ s.usable < 4 => s.distortion = None
                 /\ s.usable = 1 => s.projective = None
                 /\ s.usable = 4 => s.distortion = IF Mentions(f) THEN Distortion(f).value ELSE None
                 /\ s.distortion /= None =>
                      /\ s.projective /= None
                      /\ \A w \in Directions :
                           LET d == s.distortion[w]
                           IN  /\ ("Global" \in d.terms) <=> (d.global /= None)
                               /\ ("Fallback" \in d.terms) <=> (d.fallback /= None)
                               /\ d.local /= <<>> => "Local" \in d.terms
  <2> DEFINE s == solution.value
  <2>1. /\ s.usable \in {4, IF s.projective = None THEN 1 ELSE 2}
        /\ s.usable < 4 => s.distortion = None
        /\ s.usable = 4 => s.distortion = IF Mentions(f) THEN Distortion(f).value ELSE None
        /\ s.distortion /= None => s.projective /= None /\ \A w \in Directions : Loaded(s.distortion[w])
    BY <1>2, FoundHolds
  <2> HIDE DEF s, f
  <2>2. s.usable = 1 => s.projective = None
    BY <2>1
  <2>3. ASSUME NEW d, Loaded(d)
        PROVE  /\ ("Global" \in d.terms) <=> (d.global /= None)
               /\ ("Fallback" \in d.terms) <=> (d.fallback /= None)
               /\ d.local /= <<>> => "Local" \in d.terms
    BY <2>3 DEF Loaded
  <2> QED BY <2>1, <2>2, <2>3 DEF s
<1> HIDE DEF was, f
<1> QED BY <1>1, <1>2 DEF LowerLayersStand, was, f

\* Whatever becomes of the properties of the distortion model, the two layers below it are read
\* as the encoder wrote them, unless the model is whole and has no projective transformation
\* below it; and a distortion model is used whole or not at all, only with the transformation it
\* is a residual of, and is the one of the file where a solution says it is complete
\* (mod.rs:640-648, 788-820).
THEOREM LowerLayersHold == Spec => []LowerLayersStand
<1>1. Inv => LowerLayersStand
  BY LowerStands
<1> QED BY <1>1, SolutionIsOfItsFile, PTL

-----------------------------------------------------------------------------
\* A spline that has a coefficient for each node and each monomial is used whole.
LEMMA WholeIsUsed ==
  ASSUME NEW s, NEW d, Whole(s, d), d.order \in Int
  PROVE  LET used == SplineTerms(s, d)
         IN  /\ Len(used.radial) = Len(s.nodes)
             /\ Len(used.polynomial) = Len(Monomials(d.order)) \/ ~d.polynomial
             /\ Len(used.radial) + Len(used.polynomial) = Len(s.coefficients)
<1> DEFINE used == SplineTerms(s, d)
           n == Len(s.nodes)
           c == Len(s.coefficients)
           q == PolynomialTerms(d)
           m == IF n < c THEN n ELSE c
           rest == c - m
           last == m + (IF q < rest THEN q ELSE rest)
<1>1. /\ n \in Nat /\ c = n + q /\ c \in Nat /\ s.coefficients \in Seq(Number)
  BY DEF Whole, Spline
<1>2. q \in Nat
  BY PolynomialTermsType
<1>3. used = [radial |-> [k \in 1 .. m |-> <<s.nodes[k], s.coefficients[k]>>],
              polynomial |-> SubSeq(s.coefficients, m + 1, last)]
  BY DEF SplineTerms
<1> HIDE DEF q, n, c
<1>4. m = n /\ last = c
  BY <1>1, <1>2
<1>5. used = [radial |-> [k \in 1 .. n |-> <<s.nodes[k], s.coefficients[k]>>],
              polynomial |-> Slice(s.coefficients, n, c)]
  BY <1>3, <1>4 DEF Slice
<1>6. Len(used.radial) = n
  BY <1>1, <1>5
<1>7. Len(used.polynomial) = q
  <2>1. n <= c /\ c <= Len(s.coefficients)
    BY <1>1, <1>2 DEF c
  <2>2. Len(Slice(s.coefficients, n, c)) = c - n
    BY <1>1, <2>1, SliceProperties
  <2> QED BY <1>1, <1>2, <1>5, <2>2
<1>8. d.polynomial => Len(Monomials(d.order)) = q
  BY MonomialsAreCounted DEF PolynomialTerms, q
<1> QED BY <1>1, <1>2, <1>6, <1>7, <1>8 DEF n, c

LEMMA SplinesAreWhole ==
  ASSUME NEW d, Loaded(d), NEW s \in Splines(d)
  PROVE  Whole(s, d)
<1> DEFINE locals == ToSet([i \in DOMAIN d.local |-> d.local[i].spline])
           globals == IF d.global = None THEN {} ELSE {d.global}
           fallbacks == IF d.fallback = None THEN {} ELSE {d.fallback.spline}
           pairs == locals \cup globals \cup fallbacks
<1>1. PICK pair \in pairs : s = pair.x \/ s = pair.y
  BY DEF Splines
<1>2. WholePair(pair, d)
  <2>1. CASE pair \in globals
    BY <2>1 DEF Loaded
  <2>2. CASE pair \in fallbacks
    BY <2>2 DEF Loaded
  <2>3. CASE pair \in locals
    <3>1. PICK i \in DOMAIN d.local : pair = d.local[i].spline
      BY <2>3 DEF ToSet
    <3>2. PICK S : d.local \in Seq(S) /\ \A t \in S : WholeTerm(t, d)
      BY DEF Loaded
    <3>3. d.local[i] \in S
      BY <3>1, <3>2
    <3> QED BY <3>1, <3>2, <3>3 DEF WholeTerm
  <2> QED BY <1>1, <2>1, <2>2, <2>3
<1> QED BY <1>1, <1>2 DEF WholePair

-----------------------------------------------------------------------------
\* An element of a slice is one of the sequence.
LEMMA SliceElement ==
  ASSUME NEW S, NEW s \in Seq(S), NEW a \in Nat, NEW b \in Nat, a <= b, b <= Len(s),
         NEW k \in DOMAIN Slice(s, a, b)
  PROVE  /\ a + k \in 1 .. Len(s) /\ a + k > a /\ a + k <= b
         /\ Slice(s, a, b)[k] = s[a + k]
<1>1. PICK t : t = Slice(s, a, b)
  OBVIOUS
<1>2. t \in Seq(S) /\ Len(t) = b - a /\ \A j \in 1 .. b - a : t[j] = s[a + j]
  BY <1>1, SliceProperties
<1>3. k \in 1 .. b - a
  BY <1>1, <1>2
<1> QED BY <1>1, <1>2, <1>3

\* What is cut of arrays that are packed in the order of the terms is the term's own.
LEMMA CutInOrder ==
  ASSUME NEW p, NEW count \in Nat, ArraysOf(p, count), NEW d, InOrder(p, d), NEW i \in 1 .. count, Cut(p, i, d)
  PROVE  LET term == CutTerm(p, i, d).value
         IN  /\ \A k \in DOMAIN term.nodes : Of(term.nodes[k][1]) = i
             /\ \A k \in DOMAIN term.coefficients : Of(term.coefficients[k]) = i
<1> DEFINE term == CutTerm(p, i, d).value
           start == p.offsets[i]
           end == NodesTo(p, i)
           first == CoefficientsFrom(p, i, d)
           last == CoefficientsTo(p, i, d)
           q == PolynomialTerms(d)
<1>1. /\ p.nodes \in Seq(Number \X Number) /\ p.coefficients \in Seq(Number)
      /\ p.offsets \in Seq(Number) /\ Len(p.offsets) = count /\ DOMAIN p.offsets = 1 .. count
  BY DEF ArraysOf
<1>2. /\ start \in Nat /\ end \in Nat /\ start <= end /\ end <= Len(p.nodes) /\ last <= Len(p.coefficients)
      /\ term.nodes = Slice(p.nodes, start, end) /\ term.coefficients = Slice(p.coefficients, first, last)
  BY CutTermHolds
<1>3. first \in Nat /\ last \in Nat /\ first <= last
  BY CutTermLies
<1>4. /\ \A j \in 1 .. Len(p.nodes) :
           /\ Of(p.nodes[j][1]) \in 1 .. count
           /\ \A n \in 1 .. count : Of(p.nodes[j][1]) < n <=> j <= p.offsets[n]
      /\ \A j \in 1 .. Len(p.coefficients) :
           /\ Of(p.coefficients[j]) \in 1 .. count
           /\ \A n \in 1 .. count : Of(p.coefficients[j]) < n <=> j <= p.offsets[n] + (n - 1) * q
  <2>1. DOMAIN p.nodes = 1 .. Len(p.nodes) /\ DOMAIN p.coefficients = 1 .. Len(p.coefficients)
    BY <1>1
  <2> HIDE DEF q
  <2>2. \A j \in 1 .. Len(p.nodes) :
          /\ Of(p.nodes[j][1]) \in 1 .. count
          /\ \A n \in 1 .. count : Of(p.nodes[j][1]) < n <=> j <= p.offsets[n]
    BY <1>1, <2>1 DEF InOrder
  <2>3. \A j \in 1 .. Len(p.coefficients) :
          /\ Of(p.coefficients[j]) \in 1 .. count
          /\ \A n \in 1 .. count : Of(p.coefficients[j]) < n <=> j <= p.offsets[n] + (n - 1) * q
    BY <1>1, <2>1 DEF InOrder, q
  <2> QED BY <2>2, <2>3
<1>5. /\ start = p.offsets[i] /\ first = p.offsets[i] + (i - 1) * q
      /\ i < count => end = p.offsets[i + 1] /\ last = p.offsets[i + 1] + i * q
  BY <1>1 DEF NodesTo, CoefficientsFrom, CoefficientsTo
<1>6. (i + 1) - 1 = i
  OBVIOUS
<1> HIDE DEF start, end, first, last, q, term
<1>7. ASSUME NEW k \in DOMAIN term.nodes PROVE Of(term.nodes[k][1]) = i
  <2>1. PICK N : N = p.nodes
    OBVIOUS
  <2>2. N \in Seq(Number \X Number) /\ end <= Len(N) /\ k \in DOMAIN Slice(N, start, end)
    BY <1>1, <1>2, <1>7, <2>1
  <2>3. PICK m : m = start + k
    OBVIOUS
  <2>4. m \in 1 .. Len(p.nodes) /\ m > start /\ m <= end /\ term.nodes[k] = p.nodes[m]
    BY <1>2, <2>1, <2>2, <2>3, SliceElement
  <2>5. PICK o : o = Of(p.nodes[m][1])
    OBVIOUS
  <2>6. o \in 1 .. count /\ \A n \in 1 .. count : o < n <=> m <= p.offsets[n]
    BY <1>4, <2>4, <2>5
  <2>7. ~(o < i)
    BY <1>2, <1>5, <2>4, <2>6
  <2>8. i < count => o < i + 1
    <3> SUFFICES ASSUME i < count PROVE o < i + 1
      OBVIOUS
    <3>1. i + 1 \in 1 .. count
      OBVIOUS
    <3> QED BY <1>5, <2>4, <2>6, <3>1
  <2> QED BY <2>4, <2>5, <2>6, <2>7, <2>8
<1>8. ASSUME NEW k \in DOMAIN term.coefficients PROVE Of(term.coefficients[k]) = i
  <2>1. PICK C : C = p.coefficients
    OBVIOUS
  <2>2. C \in Seq(Number) /\ last <= Len(C) /\ k \in DOMAIN Slice(C, first, last)
    BY <1>1, <1>2, <1>8, <2>1
  <2>3. PICK m : m = first + k
    OBVIOUS
  <2>4. m \in 1 .. Len(p.coefficients) /\ m > first /\ m <= last /\ term.coefficients[k] = p.coefficients[m]
    BY <1>2, <1>3, <2>1, <2>2, <2>3, SliceElement
  <2>5. PICK o : o = Of(p.coefficients[m])
    OBVIOUS
  <2>6. o \in 1 .. count /\ \A n \in 1 .. count : o < n <=> m <= p.offsets[n] + (n - 1) * q
    BY <1>4, <2>4, <2>5
  <2>7. ~(o < i)
    BY <1>3, <1>5, <2>4, <2>6
  <2>8. i < count => o < i + 1
    <3> SUFFICES ASSUME i < count PROVE o < i + 1
      OBVIOUS
    <3>1. i + 1 \in 1 .. count
      OBVIOUS
    <3>2. m <= p.offsets[i + 1] + ((i + 1) - 1) * q
      BY <1>5, <1>6, <2>4
    <3> QED BY <2>6, <3>1, <3>2
  <2> QED BY <2>4, <2>5, <2>6, <2>7, <2>8
<1> QED BY <1>7, <1>8 DEF term

-----------------------------------------------------------------------------
\* The keys of the distortion model in a direction.
InDirection(w, key) == IsPrefix(<<"DistortionModel", w>>, key)

LEMMA FirstTwo ==
  ASSUME NEW S, NEW s \in Seq(S), Len(s) >= 2
  PROVE  SubSeq(s, 1, 2) = <<s[1], s[2]>>
<1>1. PICK t : t = SubSeq(s, 1, 2)
  OBVIOUS
<1>2. \A i \in 1 .. 2 : s[i] \in S
  OBVIOUS
<1>3. t \in Seq(S) /\ Len(t) = 2 /\ \A i \in 1 .. 2 : t[i] = s[i]
  BY <1>1, <1>2, SubSeqProperties
<1>4. PICK u : u = <<s[1], s[2]>>
  OBVIOUS
<1>5. u \in Seq(S) /\ Len(u) = 2 /\ u[1] = s[1] /\ u[2] = s[2]
  BY <1>2, <1>4
<1>6. \A i \in 1 .. 2 : t[i] = u[i]
  BY <1>3, <1>5
<1>7. t = u
  BY <1>3, <1>5, <1>6, SeqEqual
<1> QED BY <1>1, <1>4, <1>7

LEMMA LongerIn ==
  ASSUME NEW w, NEW key, IsSequence(key), Len(key) >= 2, key[1] = "DistortionModel", key[2] = w
  PROVE  InDirection(w, key)
<1> DEFINE pre == <<"DistortionModel", w>>
<1>1. PICK S : key \in Seq(S)
  BY DEF IsSequence
<1>2. Len(pre) = 2 /\ Len(key) \in Nat
  BY <1>1
<1>3. SubSeq(key, 1, 2) = <<key[1], key[2]>>
  BY <1>1, FirstTwo
<1>4. PICK A : pre \in Seq(A) /\ pre[1] = "DistortionModel" /\ pre[2] = w
  <2>1. pre \in Seq({"DistortionModel", w})
    OBVIOUS
  <2> QED BY <2>1
<1> HIDE DEF pre
<1>5. SubSeq(pre, 1, 2) = <<pre[1], pre[2]>>
  BY <1>2, <1>4, FirstTwo
<1>6. IsPrefix(pre, key)
  BY <1>2, <1>3, <1>4, <1>5 DEF IsPrefix
<1> QED BY <1>6 DEF InDirection, pre

LEMMA Lengthened ==
  ASSUME NEW key, IsSequence(key), Len(key) >= 2, NEW a
  PROVE  /\ IsSequence(key \o <<a>>) /\ Len(key \o <<a>>) >= 2
         /\ (key \o <<a>>)[1] = key[1] /\ (key \o <<a>>)[2] = key[2]
<1> DEFINE tail == <<a>>
<1>1. PICK S : key \in Seq(S)
  BY DEF IsSequence
<1>2. key \in Seq(S \cup {a}) /\ Len(key) \in Nat
  BY <1>1
<1>3. tail \in Seq(S \cup {a}) /\ Len(tail) = 1
  OBVIOUS
<1> HIDE DEF tail
<1>4. /\ key \o tail \in Seq(S \cup {a}) /\ Len(key \o tail) = Len(key) + Len(tail)
      /\ \A i \in 1 .. Len(key) + Len(tail) :
           (key \o tail)[i] = IF i <= Len(key) THEN key[i] ELSE tail[i - Len(key)]
  BY <1>2, <1>3, ConcatProperties
<1>5. 1 \in 1 .. Len(key) + Len(tail) /\ 2 \in 1 .. Len(key) + Len(tail) /\ 1 <= Len(key)
  BY <1>2, <1>3
<1> QED BY <1>2, <1>3, <1>4, <1>5 DEF IsSequence, tail

\* A direction that has nothing altered is read as it was written.
LEMMA DirectionAlike ==
  ASSUME NEW f, NEW g, NEW w, \A key : InDirection(w, key) => Same(f, g, key)
  PROVE  LET K == <<"DistortionModel", w, "Local">>
         IN  /\ ReadDirection(f, w) = ReadDirection(g, w)
             /\ CountOf(f, K) = CountOf(g, K)
             /\ \A d : XOf(f, K, d) = XOf(g, K, d) /\ YOf(f, K, d) = YOf(g, K, d)
<1> DEFINE K == <<"DistortionModel", w, "Local">>
           Within(key) == IsSequence(key) /\ Len(key) >= 2 /\ key[1] = "DistortionModel" /\ key[2] = w
<1>1. ASSUME NEW key, Within(key)
      PROVE  /\ Text(f, key) = Text(g, key)
             /\ \A scalar, shapes : Words(f, key, scalar, shapes) = Words(g, key, scalar, shapes)
             /\ key \in DOMAIN f.blocks <=> key \in DOMAIN g.blocks
  <2>1. Same(f, g, key)
    BY <1>1, LongerIn
  <2> QED BY <2>1, ReadAlike DEF Same
<1>2. ASSUME NEW leaf PROVE Within(<<"DistortionModel", w, leaf>>)
  <2>1. PICK key : key = <<"DistortionModel", w, leaf>>
    OBVIOUS
  <2>2. key \in Seq({"DistortionModel", w, leaf})
    BY <2>1
  <2>3. Len(key) = 3 /\ key[1] = "DistortionModel" /\ key[2] = w
    BY <2>1
  <2>4. IsSequence(key)
    BY <2>2 DEF IsSequence
  <2> QED BY <2>1, <2>3, <2>4
<1>3. ASSUME NEW key, Within(key), NEW a PROVE Within(key \o <<a>>)
  BY <1>3, Lengthened
<1>4. ReadDirection(f, w) = ReadDirection(g, w)
  <2>1. \A leaf : Text(f, <<"DistortionModel", w, leaf>>) = Text(g, <<"DistortionModel", w, leaf>>)
    BY <1>1, <1>2
  <2> QED BY <2>1 DEF ReadDirection, Present
<1>5. ASSUME NEW key, Within(key), NEW name
      PROVE  Doubles(f, key \o <<name>>) = Doubles(g, key \o <<name>>)
  <2>1. Within(key \o <<name>>)
    BY <1>3, <1>5
  <2> QED BY <1>1, <2>1 DEF Doubles
<1> HIDE DEF Within
<1>6. Within(K) /\ Within(K \o <<"X">>) /\ Within(K \o <<"Y">>)
  BY <1>2, <1>3
<1> HIDE DEF K
<1>7. CountOf(f, K) = CountOf(g, K)
  BY <1>5, <1>6 DEF CountOf, RadiiOf
<1>8. ASSUME NEW key, Within(key), NEW count, NEW d
      PROVE  Packed(f, key, count, d) = Packed(g, key, count, d)
  <2>1. /\ Doubles(f, key \o <<"Normalization">>) = Doubles(g, key \o <<"Normalization">>)
        /\ Doubles(f, key \o <<"Nodes">>) = Doubles(g, key \o <<"Nodes">>)
        /\ Doubles(f, key \o <<"Coefficients">>) = Doubles(g, key \o <<"Coefficients">>)
    BY <1>5, <1>8
  <2>2. OffsetsOf(f, key, count) = OffsetsOf(g, key, count)
    <3>1. Within(key \o <<"NodeOffsets">>)
      BY <1>3, <1>8
    <3>2. Words(f, key \o <<"NodeOffsets">>, "Int32", AnyShape) = Words(g, key \o <<"NodeOffsets">>, "Int32", AnyShape)
      BY <1>1, <3>1
    <3> QED BY <3>2 DEF OffsetsOf
  <2>3. ShapesOf(f, key) = ShapesOf(g, key)
    <3>1. Within(key \o <<"ShapeParameter">>)
      BY <1>3, <1>8
    <3>2. Words(f, key \o <<"ShapeParameter">>, "Float64", AnyShape) =
            Words(g, key \o <<"ShapeParameter">>, "Float64", AnyShape)
      BY <1>1, <3>1
    <3> QED BY <3>2 DEF ShapesOf
  <2> QED BY <2>1, <2>2, <2>3 DEF Packed, OffsetsOf, ShapesOf
<1>9. ASSUME NEW d PROVE XOf(f, K, d) = XOf(g, K, d) /\ YOf(f, K, d) = YOf(g, K, d)
  <2>1. XOf(f, K, d) = XOf(g, K, d)
    BY <1>6, <1>7, <1>8 DEF XOf
  <2>2. Packed(f, K \o <<"Y">>, CountOf(f, K), d) = Packed(g, K \o <<"Y">>, CountOf(g, K), d)
    BY <1>6, <1>7, <1>8
  <2>3. /\ Doubles(f, K \o <<"Y", "Coefficients">>) = Doubles(g, K \o <<"Y", "Coefficients">>)
        /\ K \o <<"Y", "Nodes">> \in DOMAIN f.blocks <=> K \o <<"Y", "Nodes">> \in DOMAIN g.blocks
    <3>1. ASSUME NEW a PROVE Within(K \o <<"Y", a>>)
      <4>1. Within((K \o <<"Y">>) \o <<a>>)
        BY <1>3, <1>6
      <4>2. (K \o <<"Y">>) \o <<a>> = K \o <<"Y", a>>
        BY DEF K
      <4> QED BY <4>1, <4>2
    <3>2. Within(K \o <<"Y", "Coefficients">>) /\ Within(K \o <<"Y", "Nodes">>)
      BY <3>1
    <3> QED BY <1>1, <3>2 DEF Doubles
  <2>4. YOf(f, K, d) = YOf(g, K, d)
    BY <2>1, <2>2, <2>3 DEF YOf, YComponent
  <2> QED BY <2>1, <2>4
<1> QED BY <1>4, <1>7, <1>9 DEF K

LEMMA TermsStand ==
  ASSUME Inv
  PROVE  TermsAreWhole
<1> SUFFICES ASSUME Found, solution.value.distortion /= None, NEW w \in Directions
             PROVE  LET d == solution.value.distortion[w]
                    IN  /\ \A s \in Splines(d) :
                             LET used == SplineTerms(s, d)
                             IN  /\ Len(used.radial) = Len(s.nodes)
                                 /\ Len(used.polynomial) = Len(Monomials(d.order)) \/ ~d.polynomial
                                 /\ Len(used.radial) + Len(used.polynomial) = Len(s.coefficients)
                        /\ (\A key \in touched : ~IsPrefix(<<"DistortionModel", w>>, key)) =>
                             \A i \in DOMAIN d.local : \A s \in {d.local[i].spline.x, d.local[i].spline.y} :
                               /\ \A k \in DOMAIN s.nodes : Of(s.nodes[k][1]) = i
                               /\ \A k \in DOMAIN s.coefficients : Of(s.coefficients[k]) = i
  BY DEF TermsAreWhole
<1> DEFINE d == solution.value.distortion[w]
           f == Gather(file)
           g == Gather(original)
           K == <<"DistortionModel", w, "Local">>
           R == ReadDirection(f, w)
           r == R.value
<1>1. Loaded(d) /\ Sound(f) /\ Distortion(f).ok /\ d = Distortion(f).value[w]
  BY FoundHolds
<1>2. ASSUME NEW s \in Splines(d)
      PROVE  LET used == SplineTerms(s, d)
             IN  /\ Len(used.radial) = Len(s.nodes)
                 /\ Len(used.polynomial) = Len(Monomials(d.order)) \/ ~d.polynomial
                 /\ Len(used.radial) + Len(used.polynomial) = Len(s.coefficients)
  <2> HIDE DEF d
  <2>1. Whole(s, d)
    BY <1>1, <1>2, SplinesAreWhole
  <2>2. d.order \in Int
    BY <1>1 DEF Loaded
  <2> QED BY <2>1, <2>2, WholeIsUsed
<1>3. ASSUME \A key \in touched : ~IsPrefix(<<"DistortionModel", w>>, key),
             NEW i \in DOMAIN d.local
      PROVE  LET t == d.local[i].spline
             IN  /\ \A k \in DOMAIN t.x.nodes : Of(t.x.nodes[k][1]) = i
                 /\ \A k \in DOMAIN t.x.coefficients : Of(t.x.coefficients[k]) = i
                 /\ \A k \in DOMAIN t.y.nodes : Of(t.y.nodes[k][1]) = i
                 /\ \A k \in DOMAIN t.y.coefficients : Of(t.y.coefficients[k]) = i
  <2> DEFINE n == CountOf(f, K)
             x == XOf(f, K, r).value
             y == YOf(f, K, r).value
  <2>1. R.ok /\ IsDirection(r) /\ Load(f, w, r).ok /\ d = Load(f, w, r).value
    <3> HIDE DEF d
    <3> QED BY <1>1, DistortionHolds
  <2>2. /\ d.local = (IF "Local" \in r.terms THEN LocalTerms(f, K, r).value ELSE <<>>)
        /\ "Local" \in r.terms => LocalTerms(f, K, r).ok
    <3> HIDE DEF d, r
    <3> QED BY <1>1, <2>1, LoadHolds
  <2> HIDE DEF d
  <2>3. "Local" \in r.terms /\ LocalTerms(f, K, r).ok /\ d.local = LocalTerms(f, K, r).value
    <3>1. DOMAIN <<>> = {}
      OBVIOUS
    <3> QED BY <1>3, <2>2, <3>1
  <2>4. IsSequence(K)
    <3>1. K \in Seq({"DistortionModel", w, "Local"})
      OBVIOUS
    <3> QED BY <3>1 DEF IsSequence
  <2>5. r.order \in Int
    BY <2>1 DEF IsDirection
  <2> HIDE DEF K, r
  <2>6. /\ n \in Nat /\ XOf(f, K, r).ok /\ YOf(f, K, r).ok
        /\ \A j \in 1 .. n : CutOf(f, K, r)[j].ok
        /\ d.local = [j \in 1 .. n |-> CutOf(f, K, r)[j].value]
    <3> HIDE DEF f
    <3> QED BY <1>1, <2>3, <2>4, LocalTermsAre DEF n
  <2>7. ArraysOf(x, n) /\ ArraysOf(y, n)
    <3> HIDE DEF f
    <3> QED BY <1>1, <2>3, <2>4, <2>5, LocalTermsHold DEF n
  <2>8. /\ ReadDirection(g, w) = R /\ CountOf(g, K) = n
        /\ XOf(g, K, r) = XOf(f, K, r) /\ YOf(g, K, r) = YOf(f, K, r)
    <3>1. ASSUME NEW key, InDirection(w, key) PROVE Same(f, g, key)
      <4>1. key \notin touched
        BY <1>3, <3>1 DEF InDirection
      <4>2. Same(g, f, key)
        BY <4>1 DEF Inv, FileInv
      <4> QED BY <4>2 DEF Same
    <3> HIDE DEF f, g
    <3> QED BY <3>1, DirectionAlike DEF K
  <2>9. InOrder(x, r) /\ InOrder(y, r)
    <3>1. original \in Originals
      BY DEF Inv, FileInv
    <3>2. /\ ReadDirection(g, w).ok /\ ReadDirection(g, w).value = r
          /\ XOf(g, K, r).ok /\ YOf(g, K, r).ok /\ XOf(g, K, r).value = x /\ YOf(g, K, r).value = y
      BY <2>1, <2>6, <2>8 DEF r
    <3>3. /\ XOf(g, K, r).ok => InOrder(XOf(g, K, r).value, r)
          /\ (IF XOf(g, K, r).ok THEN YOf(g, K, r).ok ELSE FALSE) => InOrder(YOf(g, K, r).value, r)
      <4> HIDE DEF f, x, y
      <4> QED BY <2>3, <3>1, <3>2, PackingAssumption DEF XOf, YOf, CountOf, RadiiOf, K, g
    <3> QED BY <3>2, <3>3
  <2> HIDE DEF f, R
  <2> DEFINE disks == DisksOf(f, K)
             cut == LocalTerm(disks, x, y, i, r)
  <2>10. i \in 1 .. n
    BY <1>3, <2>6
  <2>11. CutOf(f, K, r)[i] = cut
    <3> HIDE DEF x, y, disks
    <3> QED BY <2>10 DEF CutOf, n, x, y, disks
  <2>12. cut.ok /\ d.local[i] = cut.value
    <3> HIDE DEF cut, n
    <3> QED BY <2>6, <2>10, <2>11
  <2> HIDE DEF disks, x, y, n
  <2>13. /\ CutTerm(x, i, r).ok /\ CutTerm(y, i, r).ok
         /\ cut.value.spline = [x |-> CutTerm(x, i, r).value, y |-> CutTerm(y, i, r).value]
    <3>1. LocalTerm(disks, x, y, i, r).ok
      BY <2>12
    <3>2. /\ CutTerm(x, i, r).ok /\ CutTerm(y, i, r).ok
          /\ LocalTerm(disks, x, y, i, r).value =
               [center |-> disks.centers[i], radius |-> disks.radii[i],
                spline |-> [x |-> CutTerm(x, i, r).value, y |-> CutTerm(y, i, r).value]]
      BY <3>1, LocalTermHolds
    <3> QED BY <3>2
  <2>14. Cut(x, i, r) /\ Cut(y, i, r)
    BY <2>5, <2>6, <2>10, <2>13 DEF Cut
  <2>15. /\ \A k \in DOMAIN CutTerm(x, i, r).value.nodes : Of(CutTerm(x, i, r).value.nodes[k][1]) = i
         /\ \A k \in DOMAIN CutTerm(x, i, r).value.coefficients : Of(CutTerm(x, i, r).value.coefficients[k]) = i
    BY <2>6, <2>7, <2>9, <2>10, <2>14, CutInOrder
  <2>16. /\ \A k \in DOMAIN CutTerm(y, i, r).value.nodes : Of(CutTerm(y, i, r).value.nodes[k][1]) = i
         /\ \A k \in DOMAIN CutTerm(y, i, r).value.coefficients : Of(CutTerm(y, i, r).value.coefficients[k]) = i
    BY <2>6, <2>7, <2>9, <2>10, <2>14, CutInOrder
  <2>17. d.local[i].spline.x = CutTerm(x, i, r).value /\ d.local[i].spline.y = CutTerm(y, i, r).value
    <3> HIDE DEF cut
    <3> QED BY <2>12, <2>13
  <2> QED BY <2>15, <2>16, <2>17
<1> HIDE DEF d
<1>4. ASSUME \A key \in touched : ~IsPrefix(<<"DistortionModel", w>>, key),
             NEW i \in DOMAIN d.local, NEW s \in {d.local[i].spline.x, d.local[i].spline.y}
      PROVE  /\ \A k \in DOMAIN s.nodes : Of(s.nodes[k][1]) = i
             /\ \A k \in DOMAIN s.coefficients : Of(s.coefficients[k]) = i
  BY <1>3, <1>4
<1> QED BY <1>2, <1>4 DEF d

\* A spline that was loaded has one coefficient for each of its nodes and one for each
\* monomial, whatever the arrays and the offsets hold, and where nobody altered the direction
\* each Local term has the nodes and the coefficients that were packed for it
\* (load.rs:193-343).
THEOREM TermsHold == Spec => []TermsAreWhole
<1>1. Inv => TermsAreWhole
  BY TermsStand
<1> QED BY <1>1, SolutionIsOfItsFile, PTL
=============================================================================
