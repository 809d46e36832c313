--------------------------- MODULE AcceptanceProofs ---------------------------
(***************************************************************************)
(* What is given to a writer is found again, and what was read can be      *)
(* written again, for every description, table, property and change of the *)
(* declared types.                                                         *)
(***************************************************************************)
EXTENDS Acceptance, SequenceTheorems, FiniteSetTheorems, WellFoundedInduction, TLAPS

-----------------------------------------------------------------------------
(* Induction up to a number, by the set of the numbers for which it holds. *)

LEMMA LeastNatural ==
  ASSUME NEW T, T \subseteq Nat, T # {}
  PROVE  \E m \in T : \A n \in T : m <= n
<1> DEFINE Segments == {0 .. m : m \in T}
           R == StrictSubsetOrdering(Nat)
<1>1. Segments \subseteq FiniteSubsetsOf(Nat) /\ Segments # {}
  <2>1. ASSUME NEW m \in T
        PROVE  0 .. m \in FiniteSubsetsOf(Nat)
    <3>1. IsFiniteSet(0 .. m)
      BY FS_Interval
    <3> QED BY <3>1 DEF FiniteSubsetsOf
  <2> QED BY <2>1
<1>2. PICK s \in Segments : \A t \in Segments : <<t, s>> \notin R
  <2>1. IsWellFoundedOn(R, FiniteSubsetsOf(Nat))
    BY FS_StrictSubsetOrderingWellFounded
  <2> HIDE DEF Segments, R
  <2> QED BY <1>1, <2>1, WFMin, Zenon
<1>3. PICK m \in T : s = 0 .. m
  OBVIOUS
<1>4. ASSUME NEW n \in T, n < m
      PROVE  FALSE
  <2>1. 0 .. n \subseteq 0 .. m /\ m \in 0 .. m /\ m \notin 0 .. n
    BY <1>4
  <2>2. <<0 .. n, s>> \in R
    BY <1>3, <2>1 DEF StrictSubsetOrdering
  <2> QED BY <1>2, <2>2
<1>5. \A n \in T : ~(n < m)
  BY <1>4
<1> QED BY <1>5

LEMMA Upward ==
  ASSUME NEW n \in Nat, NEW H, 0 \in H, \A i \in 1 .. n : i - 1 \in H => i \in H
  PROVE  \A i \in 0 .. n : i \in H
<1> DEFINE T == {i \in 0 .. n : i \notin H}
<1> SUFFICES ASSUME T # {} PROVE FALSE
  OBVIOUS
<1>1. PICK m \in T : \A k \in T : m <= k
  <2>1. T \subseteq Nat
    OBVIOUS
  <2> HIDE DEF T
  <2> QED BY <2>1, LeastNatural
<1>2. m \in 1 .. n /\ m - 1 \in 0 .. n /\ ~(m <= m - 1)
  OBVIOUS
<1>3. m - 1 \in H
  BY <1>1, <1>2
<1> QED BY <1>2, <1>3

-----------------------------------------------------------------------------
(* What a filter keeps.                                                    *)

\* kept[i] is what is kept of the first i elements, if those at the indices `keep` are.
Keeps(kept, s, n, keep) ==
  kept = [i \in 0 .. n |-> IF i = 0 THEN <<>>
                           ELSE IF i \in keep THEN Append(kept[i - 1], s[i]) ELSE kept[i - 1]]

\* The same, element by element.
Grows(kept, s, n, keep) ==
  /\ kept[0] = <<>>
  /\ \A i \in 1 .. n : kept[i] = IF i \in keep THEN Append(kept[i - 1], s[i]) ELSE kept[i - 1]

LEMMA KeepsGrows ==
  ASSUME NEW s, NEW keep, NEW n \in Nat, NEW kept, Keeps(kept, s, n, keep)
  PROVE  Grows(kept, s, n, keep)
<1> DEFINE f == [i \in 0 .. n |-> IF i = 0 THEN <<>>
                                 ELSE IF i \in keep THEN Append(kept[i - 1], s[i]) ELSE kept[i - 1]]
<1>1. f[0] = <<>>
  OBVIOUS
<1>2. \A i \in 1 .. n : f[i] = IF i \in keep THEN Append(kept[i - 1], s[i]) ELSE kept[i - 1]
  OBVIOUS
<1>3. kept = f
  BY DEF Keeps
<1> HIDE DEF f
<1> QED BY <1>1, <1>2, <1>3 DEF Grows

LEMMA KeepsExists ==
  ASSUME NEW s, NEW keep, NEW n \in Nat
  PROVE  \E kept : Keeps(kept, s, n, keep)
<1> DEFINE H == {m \in Nat : \E kept : Keeps(kept, s, m, keep)}
<1>1. 0 \in H
  <2> DEFINE f == [i \in 0 .. 0 |-> <<>>]
  <2>1. Keeps(f, s, 0, keep)
    BY DEF Keeps
  <2> QED BY <2>1
<1>2. ASSUME NEW m \in 1 .. n, m - 1 \in H
      PROVE  m \in H
  <2>1. PICK g : Keeps(g, s, m - 1, keep)
    BY <1>2
  <2>2. m \in Nat \ {0} /\ m - 1 \in Nat
    OBVIOUS
  <2> DEFINE f == [i \in 0 .. m |->
                     IF i < m THEN g[i] ELSE IF m \in keep THEN Append(g[m - 1], s[m]) ELSE g[m - 1]]
  <2>3. /\ g[0] = <<>>
        /\ \A i \in 1 .. m - 1 : g[i] = IF i \in keep THEN Append(g[i - 1], s[i]) ELSE g[i - 1]
    BY <2>1, <2>2, KeepsGrows DEF Grows
  <2>4. \A i \in 0 .. m - 1 : f[i] = g[i]
    BY <2>2
  <2>5. f[m] = IF m \in keep THEN Append(g[m - 1], s[m]) ELSE g[m - 1]
    BY <2>2
  <2>6. f = [i \in 0 .. m |-> f[i]]
    OBVIOUS
  <2> HIDE DEF f
  <2>7. ASSUME NEW i \in 0 .. m
        PROVE  f[i] = IF i = 0 THEN <<>>
                      ELSE IF i \in keep THEN Append(f[i - 1], s[i]) ELSE f[i - 1]
    <3>1. CASE i = 0
      BY <2>2, <2>3, <2>4, <3>1
    <3>2. CASE i = m
      <4>1. f[m - 1] = g[m - 1]
        BY <2>2, <2>4
      <4> QED BY <2>2, <2>5, <3>2, <4>1
    <3>3. CASE i # 0 /\ i # m
      <4>1. i \in 1 .. m - 1 /\ i - 1 \in 0 .. m - 1 /\ i \in 0 .. m - 1
        BY <2>2, <3>3
      <4>2. f[i] = g[i] /\ f[i - 1] = g[i - 1]
        BY <2>4, <4>1
      <4> QED BY <2>3, <3>3, <4>1, <4>2
    <3> QED BY <3>1, <3>2, <3>3
  <2>8. Keeps(f, s, m, keep)
    BY <2>6, <2>7 DEF Keeps
  <2> QED BY <2>2, <2>8
<1>3. \A i \in 0 .. n : i \in H
  <2> HIDE DEF H
  <2> QED BY <1>1, <1>2, Upward
<1> QED BY <1>3

LEMMA KeptIs ==
  ASSUME NEW s, Len(s) \in Nat, NEW keep
  PROVE  \E kept : Grows(kept, s, Len(s), keep) /\ Kept(s, keep) = kept[Len(s)]
<1> DEFINE Def(f) == f = [i \in 0 .. Len(s) |->
                            IF i = 0 THEN <<>>
                            ELSE IF i \in keep THEN Append(f[i - 1], s[i]) ELSE f[i - 1]]
           kept == CHOOSE f : Def(f)
<1>1. Kept(s, keep) = kept[Len(s)]
  BY DEF Kept
<1>2. \A f : Def(f) <=> Keeps(f, s, Len(s), keep)
  BY DEF Keeps
<1> HIDE DEF Def
<1>3. Def(kept)
  BY <1>2, KeepsExists
<1> HIDE DEF kept
<1> QED BY <1>1, <1>2, <1>3, KeepsGrows

\* Of two sequences, elements at the same indices, which are of `keep`.
Paired(a, b, s, t, keep) ==
  /\ Len(a) = Len(b)
  /\ \A j \in 1 .. Len(a) : \E i \in 1 .. Len(s) : i \in keep /\ a[j] = s[i] /\ b[j] = t[i]

LEMMA PairedFurther ==
  ASSUME NEW S, NEW a \in Seq(S), NEW T, NEW b \in Seq(T), NEW s, NEW t, NEW keep,
         NEW i \in 1 .. Len(s), s[i] \in S, t[i] \in T, i \in keep, Paired(a, b, s, t, keep)
  PROVE  Paired(Append(a, s[i]), Append(b, t[i]), s, t, keep)
<1>1. PICK c, d : c = Append(a, s[i]) /\ d = Append(b, t[i])
  OBVIOUS
<1>2. /\ c \in Seq(S) /\ d \in Seq(T) /\ Len(c) = Len(a) + 1 /\ Len(d) = Len(b) + 1
      /\ c[Len(a) + 1] = s[i] /\ d[Len(b) + 1] = t[i]
      /\ (\A j \in 1 .. Len(a) : c[j] = a[j]) /\ \A j \in 1 .. Len(b) : d[j] = b[j]
  BY <1>1
<1>3. Len(a) = Len(b) /\ Len(a) \in Nat
  BY DEF Paired
<1>4. ASSUME NEW j \in 1 .. Len(c)
      PROVE  \E k \in 1 .. Len(s) : k \in keep /\ c[j] = s[k] /\ d[j] = t[k]
  <2>1. CASE j = Len(a) + 1
    <3>1. c[j] = s[i] /\ d[j] = t[i]
      BY <1>2, <1>3, <2>1
    <3> QED BY <3>1
  <2>2. CASE j # Len(a) + 1
    <3>1. j \in 1 .. Len(a) /\ j \in 1 .. Len(b)
      BY <1>2, <1>3, <2>2
    <3>2. c[j] = a[j] /\ d[j] = b[j]
      BY <1>2, <3>1
    <3> QED BY <3>1, <3>2 DEF Paired
  <2> QED BY <2>1, <2>2
<1>5. Paired(c, d, s, t, keep)
  BY <1>2, <1>3, <1>4 DEF Paired
<1> QED BY <1>1, <1>5

\* Two sequences are kept at the same indices.
LEMMA KeptTogether ==
  ASSUME NEW S, NEW s \in Seq(S), NEW T, NEW t \in Seq(T), Len(s) = Len(t), NEW keep
  PROVE  /\ Kept(s, keep) \in Seq(S) /\ Kept(t, keep) \in Seq(T)
         /\ Len(Kept(s, keep)) <= Len(s)
         /\ Paired(Kept(s, keep), Kept(t, keep), s, t, keep)
<1>1. PICK f : Grows(f, s, Len(s), keep) /\ Kept(s, keep) = f[Len(s)]
  BY KeptIs
<1>2. PICK g : Grows(g, t, Len(t), keep) /\ Kept(t, keep) = g[Len(t)]
  BY KeptIs
<1> DEFINE n == Len(s)
           Holds(m) == /\ f[m] \in Seq(S) /\ g[m] \in Seq(T) /\ Len(f[m]) <= m
                       /\ Paired(f[m], g[m], s, t, keep)
           H == {m \in 0 .. n : Holds(m)}
<1>3. n \in Nat /\ n = Len(t)
  OBVIOUS
<1>4. 0 \in H
  <2>1. f[0] = <<>> /\ g[0] = <<>> /\ 0 \in 0 .. n
    BY <1>1, <1>2, <1>3 DEF Grows
  <2>2. Paired(<<>>, <<>>, s, t, keep)
    BY DEF Paired
  <2>3. Holds(0)
    BY <2>1, <2>2
  <2> QED BY <2>1, <2>3
<1>5. ASSUME NEW m \in 1 .. n, m - 1 \in H
      PROVE  m \in H
  <2>1. Holds(m - 1)
    BY <1>5
  <2>2. PICK a \in Seq(S), b \in Seq(T) : a = f[m - 1] /\ b = g[m - 1]
    BY <2>1
  <2>3. Len(a) <= m - 1 /\ Paired(a, b, s, t, keep)
    BY <2>1, <2>2
  <2>4. /\ f[m] = IF m \in keep THEN Append(a, s[m]) ELSE a
        /\ g[m] = IF m \in keep THEN Append(b, t[m]) ELSE b
    BY <1>1, <1>2, <1>3, <2>2 DEF Grows
  <2>5. s[m] \in S /\ t[m] \in T /\ m \in 1 .. Len(s)
    BY <1>3
  <2>6. m \in keep => Paired(Append(a, s[m]), Append(b, t[m]), s, t, keep)
    BY <2>3, <2>5, PairedFurther
  <2>7. CASE m \notin keep
    BY <2>2, <2>3, <2>4, <2>7
  <2>8. CASE m \in keep
    <3>1. /\ Append(a, s[m]) \in Seq(S) /\ Append(b, t[m]) \in Seq(T)
          /\ Len(Append(a, s[m])) = Len(a) + 1
      BY <2>5
    <3>2. Holds(m)
      BY <2>3, <2>4, <2>6, <2>8, <3>1
    <3> QED BY <3>2
  <2> QED BY <2>7, <2>8
<1>6. \A i \in 0 .. n : i \in H
  <2> HIDE DEF H, n
  <2> QED BY <1>3, <1>4, <1>5, Upward
<1>7. n \in 0 .. n
  BY <1>3
<1>8. Holds(n)
  <2> HIDE DEF Holds
  <2> QED BY <1>6, <1>7
<1> QED BY <1>1, <1>2, <1>3, <1>8

\* All of a sequence.
LEMMA KeptAll ==
  ASSUME NEW S, NEW s \in Seq(S), NEW keep, 1 .. Len(s) \subseteq keep
  PROVE  Kept(s, keep) = s
<1>1. PICK f : Grows(f, s, Len(s), keep) /\ Kept(s, keep) = f[Len(s)]
  BY KeptIs
<1> DEFINE n == Len(s)
           Holds(m) == f[m] \in Seq(S) /\ Len(f[m]) = m /\ \A j \in 1 .. m : f[m][j] = s[j]
           H == {m \in 0 .. n : Holds(m)}
<1>2. n \in Nat
  OBVIOUS
<1>3. 0 \in H
  <2>1. f[0] = <<>> /\ 0 \in 0 .. n
    BY <1>1, <1>2 DEF Grows
  <2>2. Holds(0)
    BY <2>1
  <2> QED BY <2>1, <2>2
<1>4. ASSUME NEW m \in 1 .. n, m - 1 \in H
      PROVE  m \in H
  <2>1. Holds(m - 1)
    BY <1>4
  <2>2. PICK a \in Seq(S) : a = f[m - 1] /\ Len(a) = m - 1 /\ \A j \in 1 .. m - 1 : a[j] = s[j]
    BY <2>1
  <2>3. PICK x \in S : x = s[m]
    OBVIOUS
  <2>4. m \in keep /\ f[m] = IF m \in keep THEN Append(a, x) ELSE a
    BY <1>1, <2>2, <2>3 DEF Grows
  <2>5. /\ Append(a, x) \in Seq(S) /\ Len(Append(a, x)) = m
        /\ \A j \in 1 .. m : Append(a, x)[j] = s[j]
    BY <2>2, <2>3
  <2>6. Holds(m)
    BY <2>4, <2>5
  <2> QED BY <2>6
<1>5. \A i \in 0 .. n : i \in H
  <2> HIDE DEF H, n
  <2> QED BY <1>2, <1>3, <1>4, Upward
<1>6. n \in 0 .. n
  BY <1>2
<1>7. Holds(n)
  <2> HIDE DEF Holds
  <2> QED BY <1>5, <1>6
<1> QED BY <1>1, <1>7

IsBehind(x, a, b) == x = a \o b

LEMMA BehindFurther ==
  ASSUME NEW S, NEW a \in Seq(S), NEW b \in Seq(S), NEW c \in S, NEW x, IsBehind(x, a, b)
  PROVE  Append(b, c) \in Seq(S) /\ IsBehind(Append(x, c), a, Append(b, c))
<1>1. a \o b \in Seq(S) /\ Append(b, c) \in Seq(S)
      /\ Len(a \o b) = Len(a) + Len(b) /\ Len(Append(b, c)) = Len(b) + 1
  OBVIOUS
<1>2. PICK p, q : p = Append(a \o b, c) /\ q = a \o Append(b, c)
  OBVIOUS
<1>3. p \in Seq(S) /\ q \in Seq(S) /\ Len(p) = Len(q)
  BY <1>1, <1>2
<1>4. \A i \in 1 .. Len(p) : p[i] = q[i]
  BY <1>1, <1>2
<1>5. p = q
  BY <1>3, <1>4, SeqEqual
<1> QED BY <1>1, <1>2, <1>5 DEF IsBehind

\* Of one sequence behind another.
IsFront(front, s, keep) == \A i \in 1 .. Len(s) : i \in front <=> i \in keep

IsBack(back, s, t, keep) == \A i \in 1 .. Len(t) : i \in back <=> i + Len(s) \in keep

LEMMA KeptBehind ==
  ASSUME NEW S, NEW s \in Seq(S), NEW t \in Seq(S), NEW keep, NEW front, IsFront(front, s, keep),
         NEW back, IsBack(back, s, t, keep), NEW u, IsBehind(u, s, t)
  PROVE  IsBehind(Kept(u, keep), Kept(s, front), Kept(t, back))
<1> DEFINE n == Len(s)
           k == Len(t)
<1>1. u = s \o t
  BY DEF IsBehind
<1>2. u \in Seq(S) /\ Len(u) = n + k /\ n \in Nat /\ k \in Nat
      /\ (\A i \in 1 .. n : u[i] = s[i]) /\ \A i \in 1 .. k : u[n + i] = t[i]
  BY <1>1
<1>3. PICK f : Grows(f, s, n, front) /\ Kept(s, front) = f[n]
  BY <1>2, KeptIs
<1>4. PICK g : Grows(g, t, k, back) /\ Kept(t, back) = g[k]
  BY <1>2, KeptIs
<1>5. PICK h : Grows(h, u, n + k, keep) /\ Kept(u, keep) = h[n + k]
  <2>1. Len(u) \in Nat
    BY <1>2
  <2>2. PICK h : Grows(h, u, Len(u), keep) /\ Kept(u, keep) = h[Len(u)]
    BY <2>1, KeptIs
  <2> QED BY <1>2, <2>2
<1> DEFINE AtFront(m) == h[m] = f[m] /\ f[m] \in Seq(S)
           AtBack(m) == IsBehind(h[n + m], f[n], g[m]) /\ g[m] \in Seq(S)
           H == {m \in 0 .. n : AtFront(m)}
           G == {m \in 0 .. k : AtBack(m)}
<1>6. 0 \in H
  <2>1. h[0] = <<>> /\ f[0] = <<>> /\ 0 \in 0 .. n
    BY <1>2, <1>3, <1>5 DEF Grows
  <2>2. AtFront(0)
    BY <2>1
  <2> QED BY <2>1, <2>2
<1>7. ASSUME NEW m \in 1 .. n, m - 1 \in H
      PROVE  m \in H
  <2>1. m \in front <=> m \in keep
    BY DEF IsFront
  <2>2. m \in 1 .. n + k /\ u[m] = s[m] /\ s[m] \in S
    BY <1>2
  <2>3. h[m] = (IF m \in keep THEN Append(h[m - 1], u[m]) ELSE h[m - 1])
    BY <1>5, <2>2 DEF Grows
  <2>4. f[m] = (IF m \in front THEN Append(f[m - 1], s[m]) ELSE f[m - 1])
    BY <1>3 DEF Grows
  <2>5. h[m - 1] = f[m - 1] /\ f[m - 1] \in Seq(S)
    BY <1>7
  <2>6. AtFront(m)
    <3> QED BY <2>1, <2>2, <2>3, <2>4, <2>5
  <2> QED BY <2>6
<1>8. \A i \in 0 .. n : i \in H
  <2> HIDE DEF H, n
  <2> QED BY <1>2, <1>6, <1>7, Upward
<1>9. h[n] = f[n] /\ f[n] \in Seq(S)
  <2>1. n \in 0 .. n
    BY <1>2
  <2>2. n \in H
    BY <1>8, <2>1
  <2> QED BY <2>2
<1>10. 0 \in G
  <2>1. g[0] = <<>> /\ n + 0 = n /\ 0 \in 0 .. k
    BY <1>2, <1>4 DEF Grows
  <2>2. f[n] \o <<>> = f[n] /\ <<>> \in Seq(S)
    BY <1>9
  <2>3. AtBack(0)
    BY <1>9, <2>1, <2>2 DEF IsBehind
  <2> QED BY <2>1, <2>3
<1>11. ASSUME NEW m \in 1 .. k, m - 1 \in G
       PROVE  m \in G
  <2>1. m \in back <=> n + m \in keep
    BY <1>2 DEF IsBack
  <2>2. n + m \in 1 .. n + k /\ u[n + m] = t[m] /\ t[m] \in S /\ n + m - 1 = n + (m - 1)
    BY <1>2
  <2>3. h[n + m] = (IF n + m \in keep THEN Append(h[n + (m - 1)], t[m]) ELSE h[n + (m - 1)])
    BY <1>5, <2>2 DEF Grows
  <2>4. g[m] = (IF m \in back THEN Append(g[m - 1], t[m]) ELSE g[m - 1])
    BY <1>4 DEF Grows
  <2>5. AtBack(m - 1)
    BY <1>11
  <2>6. PICK a, b, c, x : a = f[n] /\ b = g[m - 1] /\ c = t[m] /\ x = h[n + (m - 1)]
    OBVIOUS
  <2>7. a \in Seq(S) /\ b \in Seq(S) /\ c \in S /\ IsBehind(x, a, b)
    BY <1>9, <2>2, <2>5, <2>6
  <2>8. Append(b, c) \in Seq(S) /\ IsBehind(Append(x, c), a, Append(b, c))
    BY <2>7, BehindFurther
  <2>9. AtBack(m)
    <3> HIDE DEF n
    <3> QED BY <2>1, <2>3, <2>4, <2>6, <2>7, <2>8
  <2>10. m \in 0 .. k
    OBVIOUS
  <2> HIDE DEF AtBack
  <2> QED BY <2>9, <2>10
<1>12. \A i \in 0 .. k : i \in G
  <2> HIDE DEF G, k
  <2> QED BY <1>2, <1>10, <1>11, Upward
<1>13. h[n + k] = f[n] \o g[k]
  <2>1. k \in 0 .. k
    BY <1>2
  <2>2. k \in G
    BY <1>12, <2>1
  <2> QED BY <2>2 DEF IsBehind
<1> QED BY <1>3, <1>4, <1>5, <1>13 DEF IsBehind

-----------------------------------------------------------------------------
(* Steps that end in `?`.                                                  *)

AllOk(steps) == \A i \in DOMAIN steps : steps[i].ok

LEMMA TryHolds ==
  ASSUME NEW steps, DOMAIN steps \subseteq Nat, NEW value
  PROVE  /\ Try(steps, value).ok => AllOk(steps)
         /\ AllOk(steps) => Try(steps, value) = Good(value)
<1> DEFINE failed == {i \in DOMAIN steps : ~steps[i].ok}
<1>1. CASE failed = {}
  BY <1>1 DEF Try, AllOk
<1>2. CASE failed /= {}
  <2>1. Min(failed) \in failed
    <3>1. failed \subseteq Nat
      OBVIOUS
    <3> HIDE DEF failed
    <3>2. \E n \in failed : \A m \in failed : n <= m
      BY <1>2, <3>1, LeastNatural
    <3> QED BY <3>2 DEF Min
  <2>2. Try(steps, value) = steps[Min(failed)]
    BY <1>2 DEF Try
  <2> QED BY <2>1, <2>2 DEF AllOk
<1> QED BY <1>1, <1>2

\* Of a few steps, and of steps behind others.
LEMMA AllOkOf ==
  /\ \A a : AllOk(<<a>>) <=> a.ok
  /\ \A a, b : AllOk(<<a, b>>) <=> a.ok /\ b.ok
  /\ \A a, b, c : AllOk(<<a, b, c>>) <=> a.ok /\ b.ok /\ c.ok
  /\ \A a, b, c, d : AllOk(<<a, b, c, d>>) <=> a.ok /\ b.ok /\ c.ok /\ d.ok
  /\ \A a, b, c, d, e : AllOk(<<a, b, c, d, e>>) <=> a.ok /\ b.ok /\ c.ok /\ d.ok /\ e.ok
BY DEF AllOk

LEMMA AllOkBehind ==
  ASSUME NEW S, NEW s \in Seq(S), NEW T, NEW t \in Seq(T)
  PROVE  /\ DOMAIN (s \o t) \subseteq Nat
         /\ AllOk(s \o t) <=> AllOk(s) /\ AllOk(t)
<1>1. PICK u : u = s \o t
  OBVIOUS
<1>2. s \in Seq(S \cup T) /\ t \in Seq(S \cup T)
  OBVIOUS
<1>3. /\ Len(u) = Len(s) + Len(t) /\ Len(s) \in Nat /\ Len(t) \in Nat
      /\ DOMAIN u = 1 .. Len(u) /\ DOMAIN s = 1 .. Len(s) /\ DOMAIN t = 1 .. Len(t)
      /\ (\A i \in 1 .. Len(s) : u[i] = s[i])
      /\ (\A i \in 1 .. Len(t) : u[Len(s) + i] = t[i])
  BY <1>1, <1>2
<1>4. ASSUME AllOk(u)
      PROVE  AllOk(s) /\ AllOk(t)
  <2>1. \A i \in DOMAIN s : i \in DOMAIN u
    BY <1>3
  <2>2. \A i \in DOMAIN t : Len(s) + i \in DOMAIN u
    BY <1>3
  <2> QED BY <1>3, <1>4, <2>1, <2>2 DEF AllOk
<1>5. ASSUME AllOk(s), AllOk(t), NEW i \in DOMAIN u
      PROVE  u[i].ok
  <2>1. CASE i \in 1 .. Len(s)
    BY <1>3, <1>5, <2>1 DEF AllOk
  <2>2. CASE i \notin 1 .. Len(s)
    <3>1. i - Len(s) \in 1 .. Len(t) /\ Len(s) + (i - Len(s)) = i
      BY <1>3, <2>2
    <3>2. u[i] = t[i - Len(s)]
      BY <1>3, <3>1
    <3> QED BY <1>3, <1>5, <3>1, <3>2 DEF AllOk
  <2> QED BY <2>1, <2>2
<1>6. AllOk(u) <=> AllOk(s) /\ AllOk(t)
  BY <1>4, <1>5 DEF AllOk
<1> QED BY <1>1, <1>3, <1>6

-----------------------------------------------------------------------------
(* The attributes of an image.                                             *)

LEMMA GeometryIs ==
  ASSUME NEW d \in Seq(Lengths), NEW c \in Lengths
  PROVE  LET g == ParseGeometry(Append(d, c))
         IN  /\ g.ok => d /= <<>> /\ c > 0 /\ \A k \in DOMAIN d : d[k] > 0
             /\ d /= <<>> /\ c > 0 /\ (\A k \in DOMAIN d : d[k] > 0) =>
                  g = Good([dimensions |-> d, channels |-> c])
<1>1. PICK f : f = Append(d, c)
  OBVIOUS
<1>2. /\ f \in Seq(Lengths) /\ Len(f) = Len(d) + 1 /\ Len(d) \in Nat /\ DOMAIN f = 1 .. Len(f)
      /\ f[Len(f)] = c /\ \A i \in 1 .. Len(d) : f[i] = d[i]
  BY <1>1
<1> DEFINE each == [i \in DOMAIN f |-> ParseU64(f[i])]
           rest == <<Check(Len(f) >= 2, "BadAttribute"),
                     Check(\A i \in DOMAIN f : f[i] /= 0, "BadAttribute")>>
           value == [dimensions |-> Front(f), channels |-> Last(f)]
<1>3. ParseGeometry(f) = Try(each \o rest, value)
  BY DEF ParseGeometry
<1>4. AllOk(each)
  BY <1>2, BoundAssumption DEF AllOk, ParseU64, Good, Lengths
<1>5. each \in Seq({each[i] : i \in DOMAIN f}) /\ rest \in Seq({rest[1], rest[2]})
  BY <1>2
<1>6. Front(f) = d /\ Last(f) = c
  BY <1>1, <1>2 DEF Front, Last
<1>7. AllOk(rest) <=> Len(f) >= 2 /\ \A i \in DOMAIN f : f[i] /= 0
  BY AllOkOf DEF Check, Good, Bad
<1> HIDE DEF each, rest
<1>8. AllOk(each \o rest) <=> AllOk(rest)
  BY <1>4, <1>5, AllOkBehind
<1>9. /\ Try(each \o rest, value).ok => AllOk(rest)
      /\ AllOk(rest) => Try(each \o rest, value) = Good(value)
  BY <1>5, <1>8, AllOkBehind, TryHolds
<1>10. (Len(f) >= 2 /\ \A i \in DOMAIN f : f[i] /= 0)
         <=> d /= <<>> /\ c > 0 /\ \A k \in DOMAIN d : d[k] > 0
  <2>1. d /= <<>> <=> Len(f) >= 2
    BY <1>2
  <2>2. \A n \in Lengths : n /= 0 <=> n > 0
    BY BoundAssumption DEF Lengths
  <2>3. c > 0 <=> f[Len(f)] /= 0
    BY <1>2, <2>2
  <2>4. DOMAIN d = 1 .. Len(d) /\ \A k \in DOMAIN d : d[k] > 0 <=> f[k] /= 0
    BY <1>2, <2>2
  <2>5. \A i \in DOMAIN f : i = Len(f) \/ i \in DOMAIN d
    BY <1>2
  <2>6. Len(f) \in DOMAIN f /\ \A k \in DOMAIN d : k \in DOMAIN f
    BY <1>2, <2>4
  <2> QED BY <2>1, <2>3, <2>4, <2>5, <2>6
<1> QED BY <1>1, <1>3, <1>6, <1>7, <1>9, <1>10

LEMMA BoundsAre ==
  ASSUME NEW b \in [low : Number, high : Number]
  PROVE  LET r == ParseBounds(<<b.low, b.high>>)
             good == Finite(b.low) /\ Finite(b.high) /\ b.low < b.high
         IN  (r.ok => good) /\ (good => r = Good(b))
<1>1. PICK t : t = <<b.low, b.high>>
  OBVIOUS
<1>2. Len(t) = 2 /\ DOMAIN t = 1 .. 2 /\ DOMAIN t = {1, 2} /\ t[1] = b.low /\ t[2] = b.high
  BY <1>1
<1> DEFINE first == <<Check(Len(t) = 2, "BadAttribute")>>
           each == [i \in DOMAIN t |-> ParseFinite(t[i])]
           last == <<Check(Len(t) = 2 /\ (\A i \in DOMAIN t : Finite(t[i])) /\ t[1] < t[2], "BadAttribute")>>
           value == [low |-> t[1], high |-> t[2]]
           good == Finite(b.low) /\ Finite(b.high) /\ b.low < b.high
<1>3. ParseBounds(t) = Try(first \o each \o last, value)
  BY DEF ParseBounds
<1>4. first \in Seq({first[1]}) /\ last \in Seq({last[1]}) /\ each \in Seq({each[i] : i \in DOMAIN t})
  <2>1. first \in Seq({first[1]}) /\ last \in Seq({last[1]})
    OBVIOUS
  <2>2. DOMAIN each = 1 .. 2
    BY <1>2
  <2>3. each \in Seq({each[i] : i \in DOMAIN t})
    BY <1>2, <2>2
  <2> QED BY <2>1, <2>3
<1>5. AllOk(first)
  BY <1>2, AllOkOf DEF Check, Good
<1>6. AllOk(each) <=> Finite(b.low) /\ Finite(b.high)
  BY <1>2 DEF AllOk, ParseFinite, Check, Good, Bad
<1>7. AllOk(last) <=> good
  <2>1. AllOk(last) <=> Len(t) = 2 /\ (\A i \in DOMAIN t : Finite(t[i])) /\ t[1] < t[2]
    BY AllOkOf DEF Check, Good, Bad
  <2> QED BY <1>2, <2>1
<1>8. value = b
  BY <1>2
<1> HIDE DEF first, each, last, value
<1>9. first \o each \in Seq({first[1]} \cup {each[i] : i \in DOMAIN t})
  BY <1>4
<1>10. AllOk(first \o each \o last) <=> good
  <2>1. AllOk(first \o each) <=> AllOk(each)
    BY <1>4, <1>5, AllOkBehind
  <2>2. AllOk(first \o each \o last) <=> AllOk(first \o each) /\ AllOk(last)
    BY <1>4, <1>9, AllOkBehind
  <2> QED BY <1>6, <1>7, <2>1, <2>2
<1>11. DOMAIN (first \o each \o last) \subseteq Nat
  BY <1>4, <1>9, AllOkBehind
<1> QED BY <1>1, <1>3, <1>8, <1>10, <1>11, TryHolds

LEMMA OffsetIs ==
  ASSUME NEW o \in Number
  PROVE  LET r == ParseOffset(o)
             good == Finite(o) /\ o >= 0
         IN  (r.ok => good) /\ (good => r = Good(o))
<1>1. PICK s : s = <<ParseFinite(o), Check(Finite(o) /\ o >= 0, "BadAttribute")>>
  OBVIOUS
<1>2. AllOk(s) <=> Finite(o) /\ o >= 0
  BY <1>1, AllOkOf DEF ParseFinite, Check, Good, Bad
<1>3. DOMAIN s \subseteq Nat /\ ParseOffset(o) = Try(s, o)
  BY <1>1 DEF ParseOffset
<1> QED BY <1>2, <1>3, TryHolds

Rotations == {0, 90, 180, -90}

LEMMA OrientationIs ==
  ASSUME NEW o \in [rotation : Int, flip : BOOLEAN]
  PROVE  LET r == ParseOrientation(ToAttribute(o))
         IN  (r.ok => o.rotation \in Rotations) /\ (o.rotation \in Rotations => r = Good(o))
<1>1. PICK a : a = ToAttribute(o)
  OBVIOUS
<1>2. None \notin Int
  BY AbsenceAssumption DEF Number
<1>3. /\ a.flip = o.flip /\ (IF a.rotation = None THEN 0 ELSE a.rotation) = o.rotation
      /\ a.rotation = None => a.flip
  BY <1>1, <1>2 DEF ToAttribute
<1>4. PICK s : s = <<Check(o.rotation \in Rotations, "BadAttribute"),
                     Check(a.rotation = None => a.flip, "BadAttribute")>>
  OBVIOUS
<1>5. AllOk(s) <=> o.rotation \in Rotations
  BY <1>3, <1>4, AllOkOf DEF Check, Good, Bad
<1>6. ParseOrientation(a) = Try(s, o)
  <2>1. [rotation |-> o.rotation, flip |-> a.flip] = o
    BY <1>3
  <2> QED BY <1>3, <1>4, <2>1 DEF ParseOrientation, Rotations
<1>7. DOMAIN s \subseteq Nat
  BY <1>4
<1> QED BY <1>1, <1>5, <1>6, <1>7, TryHolds

\* The attributes that a described image has, by their names.
LEMMA NamesAre ==
  ASSUME NEW i \in Image
  PROVE  /\ Known(Formats, i.format, "Unsupported") = Good(i.format)
         /\ i.space /= None /\ Known(ColorSpaces, i.space, "Unsupported") = Good(i.space)
         /\ i.storage /= None /\ Known(Storages, i.storage, "Unsupported") = Good(i.storage)
         /\ i.format /= None
<1>1. i.format \in Formats /\ i.space \in ColorSpaces /\ i.storage \in Storages
  BY DEF Image
<1> QED BY <1>1, AbsenceAssumption DEF Known

\* The steps that parse the attributes of an element, and the image they make.
ImageSteps(e) ==
  <<Present(e.geometry, ParseGeometry),
    Present(e.sampleFormat, LAMBDA t : Known(Formats, t, "Unsupported")),
    IF e.colorSpace = None THEN Good("Gray") ELSE Known(ColorSpaces, e.colorSpace, "Unsupported"),
    IF e.pixelStorage = None THEN Good("Planar") ELSE Known(Storages, e.pixelStorage, "Unsupported"),
    Optional(e.bounds, ParseBounds), Optional(e.offset, ParseOffset),
    Optional(e.orientation, ParseOrientation)>>

LEMMA ImageIsParsed ==
  ASSUME NEW e
  PROVE  LET s == ImageSteps(e)
             good == \A k \in 1 .. 7 : s[k].ok
         IN  /\ ParseImage(e).ok => good
             /\ good => ParseImage(e) =
                  Good([dimensions |-> s[1].value.dimensions, channels |-> s[1].value.channels,
                        format |-> s[2].value, space |-> s[3].value, storage |-> s[4].value,
                        bounds |-> s[5].value, id |-> e.id, uuid |-> e.uuid,
                        type |-> IF e.imageType = None THEN None ELSE ParseImageType(e.imageType),
                        offset |-> s[6].value, orientation |-> s[7].value])
<1>1. PICK a, b, c, d, x, y, z :
        /\ a = Present(e.geometry, ParseGeometry)
        /\ b = Present(e.sampleFormat, LAMBDA t : Known(Formats, t, "Unsupported"))
        /\ c = (IF e.colorSpace = None THEN Good("Gray")
                ELSE Known(ColorSpaces, e.colorSpace, "Unsupported"))
        /\ d = (IF e.pixelStorage = None THEN Good("Planar")
                ELSE Known(Storages, e.pixelStorage, "Unsupported"))
        /\ x = Optional(e.bounds, ParseBounds) /\ y = Optional(e.offset, ParseOffset)
        /\ z = Optional(e.orientation, ParseOrientation)
  OBVIOUS
<1>2. PICK s : s = <<a, b, c, d, x, y, z>>
  OBVIOUS
<1>3. PICK v : v = [dimensions |-> a.value.dimensions, channels |-> a.value.channels,
                    format |-> b.value, space |-> c.value, storage |-> d.value,
                    bounds |-> x.value, id |-> e.id, uuid |-> e.uuid,
                    type |-> IF e.imageType = None THEN None ELSE ParseImageType(e.imageType),
                    offset |-> y.value, orientation |-> z.value]
  OBVIOUS
<1>4. ImageSteps(e) = s
  BY <1>1, <1>2 DEF ImageSteps
<1>5. ParseImage(e) = Try(s, v)
  BY <1>1, <1>2, <1>3 DEF ParseImage
<1>6. /\ DOMAIN s = 1 .. 7 /\ s[1] = a /\ s[2] = b /\ s[3] = c /\ s[4] = d /\ s[5] = x
      /\ s[6] = y /\ s[7] = z
  BY <1>2
<1>7. /\ Try(s, v).ok => AllOk(s)
      /\ AllOk(s) => Try(s, v) = Good(v)
  BY <1>6, TryHolds
<1>8. AllOk(s) <=> \A k \in 1 .. 7 : s[k].ok
  BY <1>6 DEF AllOk
<1> QED BY <1>3, <1>4, <1>5, <1>6, <1>7, <1>8

\* An image is described by its element if it can be described at all.
LEMMA ImageIsDescribed ==
  ASSUME NEW i \in Image
  PROVE  LET r == ParseImage(ImageElement(i))
         IN  (r.ok => Describable(i)) /\ (Describable(i) => r = Good(AsTyped(i)))
<1>1. PICK e : e = ImageElement(i)
  OBVIOUS
<1>2. PICK s : s = ImageSteps(e)
  OBVIOUS
<1>3. /\ i.dimensions \in Seq(Lengths) /\ i.channels \in Lengths
      /\ i.bounds \in Opt([low : Number, high : Number]) /\ i.offset \in Opt(Number)
      /\ i.orientation \in Opt([rotation : Int, flip : BOOLEAN])
      /\ i.type \in Opt([standard : BOOLEAN, name : STRING])
  BY DEF Image
<1>4. /\ s[1] = Present(e.geometry, ParseGeometry)
      /\ s[2] = Present(e.sampleFormat, LAMBDA t : Known(Formats, t, "Unsupported"))
      /\ s[3] = IF e.colorSpace = None THEN Good("Gray") ELSE Known(ColorSpaces, e.colorSpace, "Unsupported")
      /\ s[4] = IF e.pixelStorage = None THEN Good("Planar") ELSE Known(Storages, e.pixelStorage, "Unsupported")
      /\ s[5] = Optional(e.bounds, ParseBounds) /\ s[6] = Optional(e.offset, ParseOffset)
      /\ s[7] = Optional(e.orientation, ParseOrientation)
  BY <1>2 DEF ImageSteps
<1>5. /\ e.geometry = Append(i.dimensions, i.channels) /\ e.sampleFormat = i.format
      /\ e.colorSpace = i.space /\ e.pixelStorage = i.storage
      /\ e.bounds = (IF i.bounds = None THEN None ELSE <<i.bounds.low, i.bounds.high>>)
      /\ e.id = i.id /\ e.uuid = i.uuid
      /\ e.imageType = (IF i.type = None THEN None ELSE i.type.name)
      /\ e.offset = i.offset
      /\ e.orientation = (IF i.orientation = None THEN None ELSE ToAttribute(i.orientation))
  BY <1>1 DEF ImageElement
<1> DEFINE shaped == /\ i.dimensions /= <<>> /\ i.channels > 0
                     /\ \A k \in DOMAIN i.dimensions : i.dimensions[k] > 0
           bounded == i.bounds /= None => Finite(i.bounds.low) /\ Finite(i.bounds.high)
                                          /\ i.bounds.low < i.bounds.high
           offset == i.offset /= None => Finite(i.offset) /\ i.offset >= 0
           oriented == i.orientation /= None => i.orientation.rotation \in Rotations
<1>6. /\ s[1].ok => shaped
      /\ shaped => s[1] = Good([dimensions |-> i.dimensions, channels |-> i.channels])
  <2>1. e.geometry /= None
    <3>1. e.geometry \in Seq(Int \cup {Word})
      BY <1>3, <1>5, BoundAssumption DEF Lengths
    <3> QED BY <3>1, AbsenceAssumption
  <2>2. s[1] = ParseGeometry(Append(i.dimensions, i.channels))
    BY <1>4, <1>5, <2>1 DEF Present
  <2> QED BY <1>3, <2>2, GeometryIs
<1>7. s[2] = Good(i.format) /\ s[3] = Good(i.space) /\ s[4] = Good(i.storage)
  BY <1>4, <1>5, NamesAre DEF Present
<1>8. (s[5].ok => bounded) /\ (bounded => s[5] = Good(i.bounds))
  <2>1. CASE i.bounds = None
    BY <1>4, <1>5, <2>1 DEF Optional
  <2>2. CASE i.bounds /= None
    <3>1. i.bounds \in [low : Number, high : Number]
      BY <1>3, <2>2 DEF Opt
    <3>2. e.bounds = <<i.bounds.low, i.bounds.high>> /\ e.bounds \in Seq(Number \cup {Word})
      BY <1>5, <2>2, <3>1
    <3>3. e.bounds /= None
      BY <3>2, AbsenceAssumption
    <3>4. s[5] = ParseBounds(<<i.bounds.low, i.bounds.high>>)
      BY <1>4, <3>2, <3>3 DEF Optional
    <3> QED BY <2>2, <3>1, <3>4, BoundsAre
  <2> QED BY <2>1, <2>2
<1>9. (s[6].ok => offset) /\ (offset => s[6] = Good(i.offset))
  <2>1. CASE i.offset = None
    BY <1>4, <1>5, <2>1 DEF Optional
  <2>2. CASE i.offset /= None
    <3>1. i.offset \in Number
      BY <1>3, <2>2 DEF Opt
    <3>2. s[6] = ParseOffset(i.offset)
      BY <1>4, <1>5, <2>2 DEF Optional
    <3> QED BY <2>2, <3>1, <3>2, OffsetIs
  <2> QED BY <2>1, <2>2
<1>10. (s[7].ok => oriented) /\ (oriented => s[7] = Good(i.orientation))
  <2>1. CASE i.orientation = None
    BY <1>4, <1>5, <2>1 DEF Optional
  <2>2. CASE i.orientation /= None
    <3>1. i.orientation \in [rotation : Int, flip : BOOLEAN]
      BY <1>3, <2>2 DEF Opt
    <3>2. ToAttribute(i.orientation) \in [rotation : Opt(Int), flip : BOOLEAN]
      BY <3>1 DEF ToAttribute, Opt
    <3>3. s[7] = ParseOrientation(ToAttribute(i.orientation))
      BY <1>4, <1>5, <2>2, <3>2, AbsenceAssumption DEF Optional
    <3> QED BY <2>2, <3>1, <3>3, OrientationIs
  <2> QED BY <2>1, <2>2
<1>11. Describable(i) <=> shaped /\ bounded /\ offset /\ oriented
  BY DEF Describable, Rotations
<1> HIDE DEF shaped, bounded, offset, oriented
<1>12. ParseImage(e).ok => \A k \in 1 .. 7 : s[k].ok
  BY <1>2, ImageIsParsed
<1>13. ASSUME Describable(i)
       PROVE  ParseImage(e) = Good(AsTyped(i))
  <2>1. /\ s[1] = Good([dimensions |-> i.dimensions, channels |-> i.channels])
        /\ s[2] = Good(i.format) /\ s[3] = Good(i.space) /\ s[4] = Good(i.storage)
        /\ s[5] = Good(i.bounds) /\ s[6] = Good(i.offset) /\ s[7] = Good(i.orientation)
    BY <1>6, <1>7, <1>8, <1>9, <1>10, <1>11, <1>13
  <2>2. \A k \in 1 .. 7 : s[k].ok
    <3>1. \A k \in 1 .. 7 : k = 1 \/ k = 2 \/ k = 3 \/ k = 4 \/ k = 5 \/ k = 6 \/ k = 7
      OBVIOUS
    <3> QED BY <2>1, <3>1 DEF Good
  <2>3. PICK t : t = IF e.imageType = None THEN None ELSE ParseImageType(e.imageType)
    OBVIOUS
  <2>4. ParseImage(e) =
          Good([dimensions |-> i.dimensions, channels |-> i.channels, format |-> i.format,
                space |-> i.space, storage |-> i.storage, bounds |-> i.bounds, id |-> i.id,
                uuid |-> i.uuid, type |-> t, offset |-> i.offset, orientation |-> i.orientation])
    BY <1>2, <1>5, <2>1, <2>2, <2>3, ImageIsParsed DEF Good
  <2>5. t = IF i.type = None THEN None
            ELSE [standard |-> i.type.name \in ImageTypes, name |-> i.type.name]
    <3>1. i.type /= None => i.type.name /= None
      BY <1>3, AbsenceAssumption DEF Opt
    <3> QED BY <1>5, <2>3, <3>1 DEF ParseImageType
  <2>6. AsTyped(i) =
          [dimensions |-> i.dimensions, channels |-> i.channels, format |-> i.format,
           space |-> i.space, storage |-> i.storage, bounds |-> i.bounds, id |-> i.id,
           uuid |-> i.uuid, type |-> t, offset |-> i.offset, orientation |-> i.orientation]
    <3>1. CASE i.type = None
      BY <2>5, <3>1 DEF AsTyped, Image
    <3>2. CASE i.type /= None
      <4>1. i.type \in [standard : BOOLEAN, name : STRING]
        BY <1>3, <3>2 DEF Opt
      <4>2. [i.type EXCEPT !.standard = (i.type.name \in ImageTypes)] = t
        BY <2>5, <3>2, <4>1
      <4>3. AsTyped(i) = [i EXCEPT !.type = t]
        BY <3>2, <4>2 DEF AsTyped
      <4> QED BY <4>3 DEF Image
    <3> QED BY <3>1, <3>2
  <2> QED BY <2>4, <2>6
<1>14. ASSUME ParseImage(e).ok
       PROVE  Describable(i)
  <2>1. 1 \in 1 .. 7 /\ 5 \in 1 .. 7 /\ 6 \in 1 .. 7 /\ 7 \in 1 .. 7
    OBVIOUS
  <2> QED BY <1>6, <1>8, <1>9, <1>10, <1>11, <1>12, <1>14, <2>1
<1> QED BY <1>1, <1>13, <1>14

\* A thumbnail is the element of an image without bounds, whose orientation is left out if it
\* turns nothing.
LEMMA ThumbnailIsShown ==
  ASSUME NEW i \in Image, i.bounds = None
  PROVE  ParseThumbnail(<<ThumbnailElement(i)>>) = Preview(i)
<1> DEFINE idle == IF i.orientation = None THEN TRUE ELSE IsIdentity(i.orientation)
           Bare(x) == [x EXCEPT !.orientation = None]
<1>1. PICK j : j = IF idle THEN Bare(i) ELSE i
  OBVIOUS
<1>2. i.orientation /= None => i.orientation \in [rotation : Int, flip : BOOLEAN]
  BY DEF Image, Opt
<1>3. /\ j \in Image /\ j.bounds = None /\ j.type = i.type
      /\ j.orientation = IF idle THEN None ELSE i.orientation
  <2>1. Bare(i) \in Image /\ Bare(i).bounds = None /\ Bare(i).type = i.type /\ Bare(i).orientation = None
    BY DEF Image, Opt
  <2>2. CASE idle
    <3>1. j = Bare(i)
      BY <1>1, <2>2
    <3> HIDE DEF Bare, idle
    <3> QED BY <2>1, <2>2, <3>1
  <2>3. CASE ~idle
    <3>1. j = i
      BY <1>1, <2>3
    <3> HIDE DEF Bare, idle
    <3> QED BY <2>3, <3>1
  <2> QED BY <2>2, <2>3
<1>4. ThumbnailElement(i) = ImageElement(j)
  <2>1. PICK e : e = ImageElement(i)
    OBVIOUS
  <2> DEFINE Element(g, t, x) ==
               [geometry |-> g, sampleFormat |-> i.format, colorSpace |-> i.space,
                pixelStorage |-> i.storage, bounds |-> None, id |-> i.id, uuid |-> i.uuid,
                imageType |-> t, offset |-> i.offset, orientation |-> x]
  <2>2. PICK g, t, x :
          /\ g = Append(i.dimensions, i.channels)
          /\ t = IF i.type = None THEN None ELSE i.type.name
          /\ x = IF i.orientation = None THEN None ELSE ToAttribute(i.orientation)
    OBVIOUS
  <2>3. e = Element(g, t, x) /\ [e EXCEPT !.bounds = None] = e /\ Bare(e) = Element(g, t, None)
    <3>1. e = Element(g, t, x)
      BY <2>1, <2>2 DEF ImageElement
    <3>2. /\ [Element(g, t, x) EXCEPT !.bounds = None] = Element(g, t, x)
          /\ Bare(Element(g, t, x)) = Element(g, t, None)
      OBVIOUS
    <3> HIDE DEF Element
    <3> QED BY <3>1, <3>2
  <2>4. ThumbnailElement(i) = IF idle THEN Bare(e) ELSE e
    BY <2>1, <2>3 DEF ThumbnailElement
  <2>5. CASE idle
    <3>2. /\ j.dimensions = i.dimensions /\ j.channels = i.channels /\ j.format = i.format
          /\ j.space = i.space /\ j.storage = i.storage /\ j.bounds = None /\ j.id = i.id
          /\ j.uuid = i.uuid /\ j.type = i.type /\ j.offset = i.offset /\ j.orientation = None
      BY <1>1, <2>5 DEF Image
    <3>3. ImageElement(j) = Element(g, t, None)
      BY <2>2, <3>2 DEF ImageElement
    <3> QED BY <2>3, <2>4, <2>5, <3>3
  <2>6. CASE ~idle
    BY <1>1, <2>1, <2>4, <2>6
  <2> QED BY <2>5, <2>6
<1>5. Describable(j) <=> Describable(i)
  <2>1. CASE idle
    <3>1. /\ j.dimensions = i.dimensions /\ j.channels = i.channels /\ j.bounds = i.bounds
          /\ j.offset = i.offset /\ j.orientation = None
      BY <1>1, <2>1 DEF Image
    <3>2. i.orientation /= None => i.orientation.rotation = 0
      BY <1>2, <2>1 DEF IsIdentity
    <3> QED BY <3>1, <3>2 DEF Describable
  <2>2. CASE ~idle
    BY <1>1, <2>2
  <2> QED BY <2>1, <2>2
<1>6. PICK e : e = ThumbnailElement(i)
  OBVIOUS
<1>7. i /= None
  BY AbsenceAssumption
<1>8. (ParseImage(e).ok => Describable(i)) /\ (Describable(i) => ParseImage(e) = Good(AsTyped(j)))
  BY <1>3, <1>4, <1>5, <1>6, ImageIsDescribed
<1>9. ParseThumbnail(<<e>>) = IF ~ParseImage(e).ok THEN None ELSE ParseImage(e).value
  BY DEF ParseThumbnail
<1>10. CASE ~Describable(i)
  BY <1>6, <1>7, <1>8, <1>9, <1>10 DEF Preview
<1>11. CASE Describable(i)
  <2>1. ParseThumbnail(<<e>>) = AsTyped(j)
    BY <1>8, <1>9, <1>11 DEF Good
  <2>2. PICK t : t = AsTyped(i)
    OBVIOUS
  <2>3. /\ t = (IF i.type = None THEN i ELSE [i EXCEPT !.type = [@ EXCEPT !.standard = (i.type.name \in ImageTypes)]])
    BY <2>2 DEF AsTyped
  <2>4. t.orientation = i.orientation
    BY <2>3 DEF Image
  <2>5. AsTyped(j) = IF idle THEN Bare(t) ELSE t
    <3>1. CASE idle /\ i.type = None
      BY <1>1, <1>3, <2>3, <3>1 DEF AsTyped
    <3>2. CASE idle /\ i.type /= None
      <4>1. j = Bare(i)
        BY <1>1, <3>2
      <4>2. PICK y : y = [i.type EXCEPT !.standard = (i.type.name \in ImageTypes)]
        OBVIOUS
      <4>3. t = [i EXCEPT !.type = y] /\ AsTyped(j) = [j EXCEPT !.type = y]
        BY <1>3, <2>3, <3>2, <4>2 DEF AsTyped
      <4>4. [Bare(i) EXCEPT !.type = y] = Bare([i EXCEPT !.type = y])
        BY DEF Image
      <4> QED BY <3>2, <4>1, <4>3, <4>4
    <3>3. CASE ~idle
      BY <1>1, <2>2, <3>3
    <3> QED BY <3>1, <3>2, <3>3
  <2>6. Preview(i) = IF t.orientation = [rotation |-> 0, flip |-> FALSE] THEN Bare(t) ELSE t
    BY <1>7, <1>11, <2>2 DEF Preview
  <2>7. CASE i.orientation = None
    <3>1. Bare(t) = t
      BY <2>3, <2>7 DEF Image
    <3> QED BY <1>6, <2>1, <2>4, <2>5, <2>6, <2>7, <3>1
  <2>8. CASE i.orientation /= None
    <3>1. idle <=> i.orientation = [rotation |-> 0, flip |-> FALSE]
      <4>1. \A o \in [rotation : Int, flip : BOOLEAN] :
              (o.rotation = 0 /\ o.flip = FALSE) <=> o = [rotation |-> 0, flip |-> FALSE]
        OBVIOUS
      <4>2. \A o \in [rotation : Int, flip : BOOLEAN] : ~o.flip <=> o.flip = FALSE
        OBVIOUS
      <4> QED BY <1>2, <2>8, <4>1, <4>2 DEF IsIdentity
    <3> QED BY <1>6, <2>1, <2>4, <2>5, <2>6, <3>1
  <2> QED BY <2>7, <2>8
<1> QED BY <1>10, <1>11

\* The attributes of a block are read as they were written.
LEMMA CompressionIs ==
  ASSUME NEW c \in [codec : Codecs, uncompressed : Lengths, item : Opt(Lengths)]
  PROVE  /\ ParseCompression(CompressionAttr(c)) = Good(c)
         /\ CompressionAttr(c) \in [codec : Codecs, shuffled : BOOLEAN, fields : Seq(Lengths)]
<1> DEFINE u == c.uncompressed
           x == c.item
<1>1. u \in Lengths /\ x \in Opt(Lengths) /\ c.codec \in Codecs
  OBVIOUS
<1>2. ParseU64(u) = Good(u) /\ (x /= None => ParseU64(x) = Good(x))
  BY <1>1 DEF Lengths, Opt, ParseU64
<1>3. PICK t : t = CompressionAttr(c)
  OBVIOUS
<1>4. CASE x = None
  <2>1. t = [codec |-> c.codec, shuffled |-> FALSE, fields |-> <<u>>]
    <3>1. <<u>> \o <<>> = <<u>>
      OBVIOUS
    <3> QED BY <1>3, <1>4, <3>1 DEF CompressionAttr
  <2>2. PICK f : f = <<u>>
    OBVIOUS
  <2>3. t.fields = f /\ t.shuffled = FALSE /\ t.codec = c.codec /\ f /= <<>> /\ Len(f) = 1 /\ f[1] = u
    BY <2>1, <2>2
  <2>4. PICK s : s = <<Check(f /= <<>>, "BadAttribute"), ParseU64(u), Check(Len(f) = 1, "BadAttribute"),
                       Good(None)>>
    OBVIOUS
  <2>5. ParseCompression(t) = Try(s, [codec |-> c.codec, uncompressed |-> u, item |-> None])
    BY <2>3, <2>4 DEF ParseCompression, Good
  <2>6. AllOk(s) /\ DOMAIN s \subseteq Nat
    <3>1. AllOk(s)
      BY <1>2, <2>3, <2>4, AllOkOf DEF Check, Good
    <3> QED BY <2>4, <3>1
  <2>7. [codec |-> c.codec, uncompressed |-> u, item |-> None] = c
    BY <1>4
  <2>8. t \in [codec : Codecs, shuffled : BOOLEAN, fields : Seq(Lengths)]
    BY <1>1, <2>1
  <2> QED BY <1>3, <2>5, <2>6, <2>7, <2>8, TryHolds
<1>5. CASE x /= None
  <2>1. x \in Lengths
    BY <1>1, <1>5 DEF Opt
  <2>2. t = [codec |-> c.codec, shuffled |-> TRUE, fields |-> <<u, x>>]
    <3>1. <<u>> \o <<x>> = <<u, x>>
      <4>1. PICK y, z : y = <<u>> \o <<x>> /\ z = <<u, x>>
        OBVIOUS
      <4>2. <<u>> \in Seq(Lengths) /\ <<x>> \in Seq(Lengths) /\ Len(<<u>>) = 1 /\ Len(<<x>>) = 1
        BY <1>1, <2>1
      <4>3. y \in Seq(Lengths) /\ Len(y) = 2 /\ y[1] = u /\ y[2] = x
        BY <4>1, <4>2
      <4>4. z \in Seq(Lengths) /\ Len(z) = 2 /\ z[1] = u /\ z[2] = x
        BY <1>1, <2>1, <4>1
      <4>5. \A i \in 1 .. 2 : i = 1 \/ i = 2
        OBVIOUS
      <4>6. y = z
        BY <4>3, <4>4, <4>5, SeqEqual
      <4> QED BY <4>1, <4>6
    <3> QED BY <1>3, <1>5, <3>1 DEF CompressionAttr
  <2>3. PICK f : f = <<u, x>>
    OBVIOUS
  <2>4. t.fields = f /\ t.shuffled = TRUE /\ t.codec = c.codec /\ f /= <<>> /\ Len(f) = 2 /\ f[1] = u /\ f[2] = x
    BY <2>2, <2>3
  <2>5. PICK s : s = <<Check(f /= <<>>, "BadAttribute"), ParseU64(u), Check(Len(f) = 2, "BadAttribute"),
                       ParseU64(x)>>
    OBVIOUS
  <2>6. ParseCompression(t) = Try(s, [codec |-> c.codec, uncompressed |-> u, item |-> x])
    <3>1. PICK r : r = ParseU64(x)
      OBVIOUS
    <3>2. r.value = x
      BY <1>2, <1>5, <3>1 DEF Good
    <3> QED BY <2>4, <2>5, <3>1, <3>2 DEF ParseCompression
  <2>7. AllOk(s) /\ DOMAIN s \subseteq Nat
    <3>1. AllOk(s)
      BY <1>2, <1>5, <2>4, <2>5, AllOkOf DEF Check, Good
    <3> QED BY <2>5, <3>1
  <2>8. [codec |-> c.codec, uncompressed |-> u, item |-> x] = c
    OBVIOUS
  <2>9. t \in [codec : Codecs, shuffled : BOOLEAN, fields : Seq(Lengths)]
    BY <1>1, <2>1, <2>2
  <2> QED BY <1>3, <2>6, <2>7, <2>8, <2>9, TryHolds
<1> QED BY <1>4, <1>5

LEMMA HexIs ==
  ASSUME NEW n \in Nat, NEW digest \in [1 .. n -> 0 .. 255]
  PROVE  /\ DigestHex(digest) \in Seq(Int) /\ Len(DigestHex(digest)) = 2 * n
         /\ DecodeHex(DigestHex(digest)) = digest
         /\ digest \in Seq(Int)
<1>1. PICK d : d = DigestHex(digest)
  OBVIOUS
<1>2. /\ Len(digest) = n /\ DOMAIN digest = 1 .. n
      /\ (\A i \in 1 .. n : digest[i] \in 0 .. 255) /\ digest \in Seq(Int)
  <2>1. digest = [i \in 1 .. n |-> digest[i]]
    OBVIOUS
  <2>2. \A i \in 1 .. n : digest[i] \in 0 .. 255
    OBVIOUS
  <2>3. DOMAIN digest = 1 .. n
    OBVIOUS
  <2>4. Len(digest) = n
    BY <2>1
  <2>5. digest \in Seq(Int)
    <3>1. digest \in [1 .. n -> Int]
      <4>1. \A S, T : S \subseteq T => \A f \in [1 .. n -> S] : f \in [1 .. n -> T]
        OBVIOUS
      <4>2. 0 .. 255 \subseteq Int
        OBVIOUS
      <4> QED BY <4>1, <4>2, Zenon
    <3> QED BY <3>1, SeqDef
  <2> QED BY <2>2, <2>3, <2>4, <2>5
<1>3. /\ Len(d) = 2 * n /\ DOMAIN d = 1 .. 2 * n
      /\ \A i \in 1 .. 2 * n :
           d[i] = IF i % 2 = 1 THEN digest[(i + 1) \div 2] \div 16 ELSE digest[i \div 2] % 16
  <2>1. d = [i \in 1 .. 2 * n |-> IF i % 2 = 1 THEN digest[(i + 1) \div 2] \div 16 ELSE digest[i \div 2] % 16]
    BY <1>1, <1>2 DEF DigestHex
  <2>2. 2 * n \in Nat
    OBVIOUS
  <2> QED BY <2>1, <2>2
<1>4. \A i \in 1 .. 2 * n : d[i] \in 0 .. 15
  <2> TAKE i \in 1 .. 2 * n
  <2>1. CASE i % 2 = 1
    <3>1. (i + 1) \div 2 \in 1 .. n
      OBVIOUS
    <3>2. d[i] = digest[(i + 1) \div 2] \div 16
      BY <1>3, <2>1
    <3>3. PICK x \in 0 .. 255 : x = digest[(i + 1) \div 2]
      BY <1>2, <3>1
    <3>4. x \div 16 \in 0 .. 15
      OBVIOUS
    <3>5. d[i] = x \div 16
      BY <3>2, <3>3
    <3> QED BY <3>4, <3>5
  <2>2. CASE i % 2 /= 1
    <3>1. i \div 2 \in 1 .. n
      BY <2>2
    <3>2. d[i] = digest[i \div 2] % 16
      BY <1>3, <2>2
    <3>3. PICK x \in 0 .. 255 : x = digest[i \div 2]
      BY <1>2, <3>1
    <3>4. x % 16 \in 0 .. 15
      OBVIOUS
    <3>5. d[i] = x % 16
      BY <3>2, <3>3
    <3> QED BY <3>4, <3>5
  <2> QED BY <2>1, <2>2
<1>5. d \in Seq(Int)
  <2>1. 2 * n \in Nat /\ \A i \in 1 .. 2 * n : d[i] \in Int
    BY <1>4
  <2>2. d = [i \in 1 .. 2 * n |-> d[i]]
    BY <1>1, <1>2 DEF DigestHex
  <2> QED BY <2>1, <2>2
<1>6. DecodeHex(d) = digest
  <2>1. Len(d) % 2 = 0 /\ Len(d) \div 2 = n
    BY <1>3
  <2>2. DecodeHex(d) = [i \in 1 .. n |-> d[2 * i - 1] * 16 + d[2 * i]]
    BY <1>3, <1>4, <2>1 DEF DecodeHex
  <2>3. ASSUME NEW i \in 1 .. n
        PROVE  d[2 * i - 1] * 16 + d[2 * i] = digest[i]
    <3>1. /\ 2 * i - 1 \in 1 .. 2 * n /\ 2 * i \in 1 .. 2 * n /\ (2 * i - 1) % 2 = 1 /\ (2 * i) % 2 = 0
          /\ (2 * i - 1 + 1) \div 2 = i /\ (2 * i) \div 2 = i
      OBVIOUS
    <3>2. d[2 * i - 1] = digest[i] \div 16 /\ d[2 * i] = digest[i] % 16
      BY <1>3, <3>1
    <3>3. PICK x \in 0 .. 255 : x = digest[i]
      BY <1>2
    <3>4. (x \div 16) * 16 + (x % 16) = x
      OBVIOUS
    <3> QED BY <3>2, <3>3, <3>4
  <2>4. DecodeHex(d) = [i \in 1 .. n |-> digest[i]]
    BY <2>2, <2>3
  <2> QED BY <1>2, <2>4
<1> QED BY <1>1, <1>2, <1>3, <1>5, <1>6

LEMMA ChecksumIs ==
  ASSUME NEW a \in Algorithms, NEW n \in Nat, n = DigestLen(a), NEW digest \in [1 .. n -> 0 .. 255]
  PROVE  LET c == [algorithm |-> a, digest |-> digest]
         IN  /\ ParseChecksum(ChecksumAttr(c)) = Good(c)
             /\ ChecksumAttr(c) \in [name : Algorithms, digits : Seq(Int)]
<1>1. Algorithm(a) = Good(a)
  BY DEF Algorithms, Algorithm
<1>2. PICK d : d = DigestHex(digest)
  OBVIOUS
<1>3. d \in Seq(Int) /\ Len(d) = 2 * n /\ DecodeHex(d) = digest /\ digest \in Seq(Int)
  BY <1>2, HexIs
<1>4. d /= None /\ digest /= None
  <2>1. d \in Seq(Int \cup {Word}) /\ digest \in Seq(Int \cup {Word})
    BY <1>3
  <2> QED BY <2>1, AbsenceAssumption
<1>5. PICK t : t = [name |-> a, digits |-> d]
  OBVIOUS
<1>6. t.name = a /\ t.digits = d /\ ChecksumAttr([algorithm |-> a, digest |-> digest]) = t
  BY <1>2, <1>5 DEF ChecksumAttr
<1>7. Good(a).ok /\ Good(a).value = a
  BY DEF Good
<1>8. PICK c : c = [algorithm |-> a, digest |-> digest]
  OBVIOUS
<1>9. PICK l : l = Len(d)
  OBVIOUS
<1>10. ParseChecksum(t) = Good(c)
  <2>1. l = 2 * DigestLen(a)
    BY <1>3, <1>9
  <2>2. ParseChecksum(t) =
          IF t.digits = None THEN Bad("BadAttribute")
          ELSE IF ~Algorithm(t.name).ok THEN Algorithm(t.name)
          ELSE IF Len(t.digits) /= 2 * DigestLen(Algorithm(t.name).value) \/ DecodeHex(t.digits) = None
          THEN Bad("BadAttribute")
          ELSE Good([algorithm |-> Algorithm(t.name).value, digest |-> DecodeHex(t.digits)])
    BY DEF ParseChecksum
  <2>3. ParseChecksum(t) = IF l /= 2 * DigestLen(a) THEN Bad("BadAttribute") ELSE Good(c)
    BY <1>1, <1>3, <1>4, <1>6, <1>7, <1>8, <1>9, <2>2
  <2> QED BY <2>1, <2>3
<1>11. t \in [name : Algorithms, digits : Seq(Int)]
  BY <1>3, <1>5
<1> QED BY <1>6, <1>8, <1>10, <1>11

\* What the writer says of how a block is stored is what a reader reads.
LEMMA BlockIsDescribed ==
  ASSUME NEW p, p.options.compression \in Opt(Compressions), p.options.checksum \in Opt(Algorithms),
         p.options.compression /= None => p.bytes \in Lengths
  PROVE  ParseBlock(BlockAttrs(p)) =
           Good([compression |-> StoredCompression(p), checksum |-> StoredChecksum(p)])
<1>1. PICK c, k : c = StoredCompression(p) /\ k = StoredChecksum(p)
  OBVIOUS
<1>2. PICK b : b = BlockAttrs(p)
  OBVIOUS
<1>3. /\ b.compression = (IF c = None THEN None ELSE CompressionAttr(c))
      /\ b.checksum = (IF k = None THEN None ELSE ChecksumAttr(k))
      /\ b.subblocks = None
  BY <1>1, <1>2 DEF BlockAttrs
<1>4. Optional(b.compression, ParseCompression) = Good(c)
  <2>1. CASE c = None
    BY <1>3, <2>1 DEF Optional
  <2>2. CASE c /= None
    <3>1. p.options.compression \in Compressions /\ p.bytes \in Lengths
      <4>1. p.options.compression /= None
        BY <1>1, <2>2 DEF StoredCompression
      <4> QED BY <4>1 DEF Opt
    <3>2. PICK r \in Compressions : r = p.options.compression
      BY <3>1
    <3>3. r.codec \in Codecs /\ r.item \in Opt(Lengths)
      BY DEF Compressions
    <3>4. PICK x : x = IF r.item /= None THEN IF r.item > 1 THEN r.item ELSE None ELSE None
      OBVIOUS
    <3>5. x \in Opt(Lengths)
      BY <3>3, <3>4 DEF Opt
    <3>6. c = [codec |-> r.codec, uncompressed |-> p.bytes, item |-> x]
      BY <1>1, <2>2, <3>2, <3>4 DEF StoredCompression
    <3>7. c \in [codec : Codecs, uncompressed : Lengths, item : Opt(Lengths)]
      BY <3>1, <3>3, <3>5, <3>6
    <3>8. b.compression /= None /\ ParseCompression(b.compression) = Good(c)
      BY <1>3, <2>2, <3>7, CompressionIs, AbsenceAssumption
    <3> QED BY <3>8 DEF Optional
  <2> QED BY <2>1, <2>2
<1>5. Optional(b.checksum, ParseChecksum) = Good(k)
  <2>1. CASE k = None
    BY <1>3, <2>1 DEF Optional
  <2>2. CASE k /= None
    <3>1. PICK a \in Algorithms : a = p.options.checksum
      <4>1. p.options.checksum /= None
        BY <1>1, <2>2 DEF StoredChecksum
      <4> QED BY <4>1 DEF Opt
    <3>2. PICK n \in Nat : n = DigestLen(a)
      BY DEF Algorithms, DigestLen
    <3>3. PICK d : d = [i \in 1 .. n |-> (i * 37) % 256]
      OBVIOUS
    <3>6. d \in [1 .. n -> 0 .. 255]
      <4>1. \A i \in 1 .. n : (i * 37) % 256 \in 0 .. 255
        OBVIOUS
      <4> QED BY <3>3, <4>1
    <3>4. k = [algorithm |-> a, digest |-> d]
      BY <1>1, <2>2, <3>1, <3>2, <3>3 DEF StoredChecksum
    <3>5. ParseChecksum(ChecksumAttr(k)) = Good(k) /\ ChecksumAttr(k) \in [name : Algorithms, digits : Seq(Int)]
      BY <3>2, <3>4, <3>6, ChecksumIs
    <3> QED BY <1>3, <2>2, <3>5, AbsenceAssumption DEF Optional
  <2> QED BY <2>1, <2>2
<1>6. Optional(b.subblocks, ParseSubblocks) = Good(None)
  BY <1>3 DEF Optional
<1>7. PICK s : s = <<Good(c), Good(None), Good(k), Check(b.subblocks = None \/ b.compression /= None, "BadHeader")>>
  OBVIOUS
<1>8. ParseBlock(b) = Try(s, [compression |-> c, checksum |-> k])
  BY <1>4, <1>5, <1>6, <1>7 DEF ParseBlock, Good
<1>9. AllOk(s)
  BY <1>3, <1>7, AllOkOf DEF Check, Good
<1>10. DOMAIN s \subseteq Nat
  BY <1>7
<1> QED BY <1>1, <1>2, <1>8, <1>9, <1>10, TryHolds

LEMMA OneDigit ==
  ASSUME NEW k \in 0 .. 15
  PROVE  ParseBlockId([radix |-> 16, digits |-> <<k>>]) = Good(k)
<1>1. PICK d, t : d = <<k>> /\ t = [radix |-> 16, digits |-> d]
  OBVIOUS
<1>2. /\ t.digits = d /\ t.radix = 16 /\ Len(d) = 1 /\ DOMAIN d = 1 .. 1 /\ d[1] = k /\ d /= <<>>
      /\ k \in 0 .. 15 /\ k \in 0 .. MaxWord
  <2>1. k \in 0 .. 15 /\ k \in 0 .. MaxWord
    BY BoundAssumption
  <2> QED BY <1>1, <2>1
<1> DEFINE Def(f) == f = [i \in 0 .. Len(d) |-> IF i = 0 THEN 0 ELSE f[i - 1] * 16 + d[i]]
           value == CHOOSE f : Def(f)
<1>3. \E f : Def(f)
  <2> DEFINE f == [i \in 0 .. 1 |-> IF i = 0 THEN 0 ELSE k]
  <2>1. f[0] = 0 /\ f[1] = k
    OBVIOUS
  <2>2. \A i \in 0 .. 1 : (IF i = 0 THEN 0 ELSE k) = (IF i = 0 THEN 0 ELSE f[i - 1] * 16 + d[i])
    <3>1. \A i \in 0 .. 1 : i /= 0 => i = 1 /\ i - 1 = 0
      OBVIOUS
    <3>2. 0 * 16 + k = k
      BY <1>2
    <3> HIDE DEF f
    <3> QED BY <1>2, <2>1, <3>1, <3>2
  <2>3. Def(f)
    <3>1. f = [i \in 0 .. 1 |-> IF i = 0 THEN 0 ELSE f[i - 1] * 16 + d[i]]
      BY <2>2
    <3> HIDE DEF f
    <3> QED BY <1>2, <3>1
  <2> HIDE DEF f, Def
  <2> QED BY <2>3
<1>4. value[Len(d)] = k
  <2>1. Def(value)
    <3> HIDE DEF Def
    <3> QED BY <1>3
  <2> HIDE DEF value
  <2>2. value[0] = 0 /\ value[1] = value[0] * 16 + d[1]
    <3>1. PICK g : g = [i \in 0 .. Len(d) |-> IF i = 0 THEN 0 ELSE value[i - 1] * 16 + d[i]]
      OBVIOUS
    <3>2. g[0] = 0 /\ g[1] = value[0] * 16 + d[1]
      BY <1>2, <3>1
    <3> QED BY <2>1, <3>1, <3>2
  <2> QED BY <1>2, <2>2
<1>5. value[Len(t.digits)] = k
  BY <1>2, <1>4
<1>6. ~\E i \in DOMAIN d : d[i] \notin 0 .. 16 - 1
  BY <1>2
<1>7. ParseBlockId(t) = ParseU64(value[Len(d)])
  <2> HIDE DEF value
  <2>1. ParseBlockId(t) =
          IF t.digits = <<>> THEN Bad("BadAttribute")
          ELSE IF \E i \in DOMAIN t.digits : t.digits[i] \notin 0 .. t.radix - 1
          THEN Bad("BadAttribute")
          ELSE ParseU64(value[Len(d)])
    BY <1>2 DEF ParseBlockId, value
  <2> QED BY <1>2, <1>6, <2>1
<1>8. ParseU64(k) = Good(k)
  BY <1>2 DEF ParseU64
<1> QED BY <1>1, <1>4, <1>7, <1>8

\* Where a block is said to be is where it is looked for, in the file it was saved to if it
\* was saved to one.
LEMMA LocationIs ==
  ASSUME NEW n \in Names \cup {None}, NEW k \in 0 .. 15
  PROVE  LET r == ParseLocation(LocationText(n, k))
         IN  /\ r.ok
             /\ n /= None =>
                  r.value.locator = [token |-> TRUE, name |-> n.trimmed, climbs |-> n.dots]
<1>1. PICK t : t = LocationText(n, k)
  OBVIOUS
<1>2. CASE n = None
  <2>1. PICK f : f = <<FirstBlock + k, 1>>
    OBVIOUS
  <2>2. t.scheme = "attachment" /\ t.rest = f /\ Len(f) = 2 /\ f[1] = FirstBlock + k /\ f[2] = 1
    BY <1>1, <1>2, <2>1 DEF LocationText
  <2>3. FirstBlock + k \in 0 .. MaxWord /\ 1 \in 0 .. MaxWord
    BY BoundAssumption
  <2>4. PICK s : s = <<ParseU64(f[1]), ParseU64(f[2])>>
    OBVIOUS
  <2>5. ParseLocation(t) = Try(s, [kind |-> "attachment", position |-> f[1], size |-> f[2]])
    BY <2>2, <2>4 DEF ParseLocation
  <2>6. AllOk(s) /\ DOMAIN s \subseteq Nat
    <3>1. ParseU64(f[1]).ok /\ ParseU64(f[2]).ok
      BY <2>2, <2>3 DEF ParseU64, Good
    <3>2. AllOk(s)
      BY <2>4, <3>1, AllOkOf
    <3> QED BY <2>4, <3>2
  <2>7. ParseLocation(t).ok
    BY <2>5, <2>6, TryHolds DEF Good
  <2> QED BY <1>1, <1>2, <2>7
<1>3. CASE n /= None
  <2>1. PICK l, id, tail : /\ l = [token |-> TRUE, name |-> n.trimmed, climbs |-> n.dots]
                           /\ id = [radix |-> 16, digits |-> <<k>>]
                           /\ tail = [colon |-> TRUE, id |-> id]
    OBVIOUS
  <2>2. t = [scheme |-> "path", closed |-> TRUE, locator |-> l, tail |-> tail]
    BY <1>1, <1>3, <2>1 DEF LocationText
  <2>3. l /= None
    BY <1>3, <2>1, AbsenceAssumption
  <2>4. tail /= None
    <3>1. <<k>> \in Seq(Int)
      OBVIOUS
    <3>2. id \in [radix : {10, 16}, digits : Seq(Int)]
      BY <2>1, <3>1
    <3>3. tail \in [colon : BOOLEAN, id : [radix : {10, 16}, digits : Seq(Int)]]
      BY <2>1, <3>2
    <3> QED BY <3>3, AbsenceAssumption
  <2>5. ParseBlockId(id) = Good(k)
    BY <2>1, OneDigit
  <2>6. t.scheme = "path" /\ t.closed = TRUE /\ t.locator = l /\ t.tail = tail /\ tail.colon = TRUE /\ tail.id = id
    BY <2>1, <2>2
  <2>7. PICK s : s = <<Check(t.closed, "BadAttribute"), Check(t.locator /= None, "BadAttribute"),
                       Check(t.tail = None \/ t.tail.colon, "BadAttribute"), Good(k)>>
    OBVIOUS
  <2>8. PICK v : v = [kind |-> "path", locator |-> l, index |-> k]
    OBVIOUS
  <2>9. ParseParenthesised(t) = Try(s, v)
    <3>1. PICK g : g = IF t.tail = None THEN Good(None) ELSE ParseBlockId(t.tail.id)
      OBVIOUS
    <3>2. g = Good(k) /\ g.value = k
      <4>1. t.tail.id = id /\ t.tail /= None
        BY <2>4, <2>6
      <4>2. g = Good(k)
        BY <2>5, <3>1, <4>1
      <4> QED BY <4>2 DEF Good
    <3>3. ParseParenthesised(t) =
            Try(<<Check(t.closed, "BadAttribute"), Check(t.locator /= None, "BadAttribute"),
                  Check(t.tail = None \/ t.tail.colon, "BadAttribute"), g>>,
                [kind |-> t.scheme, locator |-> t.locator, index |-> g.value])
      BY <3>1 DEF ParseParenthesised
    <3>4. [kind |-> t.scheme, locator |-> t.locator, index |-> g.value] = v
      BY <2>6, <2>8, <3>2
    <3> QED BY <2>7, <3>2, <3>3, <3>4
  <2>10. ParseLocation(t) = ParseParenthesised(t)
    BY <2>6 DEF ParseLocation
  <2>11. AllOk(s)
    BY <2>3, <2>6, <2>7, AllOkOf DEF Check, Good
  <2>12. DOMAIN s \subseteq Nat
    BY <2>7
  <2>13. ParseLocation(t) = Good(v)
    BY <2>9, <2>10, <2>11, <2>12, TryHolds
  <2>14. Good(v).ok /\ Good(v).value.locator = l
    BY <2>8 DEF Good
  <2> QED BY <1>1, <2>1, <2>13, <2>14
<1> QED BY <1>2, <1>3

\* What is associated with an image: of which values it is read, and as which.
LEMMA PositiveIs ==
  ASSUME NEW x
  PROVE  LET r == ParsePositive(x) IN (r.ok => Positive(x)) /\ (Positive(x) => r = Good(x))
<1>1. PICK s : s = <<ParseNumber(x), Check(Positive(x), "BadAttribute")>>
  OBVIOUS
<1>2. AllOk(s) <=> x /= Word /\ Positive(x)
  BY <1>1, AllOkOf DEF ParseNumber, Check, Good, Bad
<1>3. Positive(x) => x /= Word
  BY AbsenceAssumption DEF Positive, Finite, Number
<1>4. DOMAIN s \subseteq Nat /\ ParsePositive(x) = Try(s, x)
  BY <1>1 DEF ParsePositive
<1> QED BY <1>2, <1>3, <1>4, TryHolds

IsPositive(x) == x \in Int /\ x > 0

LEMMA PositiveMeans == \A x : Positive(x) <=> IsPositive(x)
BY DEF Positive, Finite, IsPositive

LEMMA PresentPositiveIs ==
  ASSUME NEW x
  PROVE  LET r == Present(x, ParsePositive)
         IN  (r.ok => IsPositive(x)) /\ (IsPositive(x) => r = Good(x))
<1>1. CASE x = None
  <2>1. ~IsPositive(x)
    BY <1>1, AbsenceAssumption DEF IsPositive, Number
  <2> QED BY <1>1, <2>1 DEF Present, Bad
<1>2. CASE x /= None
  <2>1. Present(x, ParsePositive) = ParsePositive(x)
    BY <1>2 DEF Present
  <2> QED BY <2>1, PositiveIs, PositiveMeans
<1> QED BY <1>1, <1>2

LEMMA ResolutionIs ==
  ASSUME NEW e
  PROVE  LET r == ParseResolution(e)
             good == IsPositive(e.horizontal) /\ IsPositive(e.vertical)
         IN  /\ r.ok => good /\ \E u \in {"inch", "cm"} :
                               r.value = [horizontal |-> e.horizontal, vertical |-> e.vertical, unit |-> u]
             /\ e \in Resolution /\ good => r = Good(e)
<1>1. PICK u : u = IF e.unit = None THEN Good("inch") ELSE Known({"inch", "cm"}, e.unit, "Unsupported")
  OBVIOUS
<1>2. PICK s : s = <<u, Present(e.horizontal, ParsePositive), Present(e.vertical, ParsePositive)>>
  OBVIOUS
<1>3. PICK v : v = [horizontal |-> e.horizontal, vertical |-> e.vertical, unit |-> u.value]
  OBVIOUS
<1>4. ParseResolution(e) = Try(s, v) /\ DOMAIN s \subseteq Nat
  BY <1>1, <1>2, <1>3 DEF ParseResolution
<1>5. AllOk(s) <=> u.ok /\ IsPositive(e.horizontal) /\ IsPositive(e.vertical)
  <2>1. AllOk(s) <=> u.ok /\ Present(e.horizontal, ParsePositive).ok /\ Present(e.vertical, ParsePositive).ok
    BY <1>2, AllOkOf
  <2> QED BY <2>1, PresentPositiveIs DEF Good
<1>6. u.ok => u.value \in {"inch", "cm"}
  BY <1>1 DEF Known, Good, Bad
<1>7. e.unit \in {"inch", "cm"} => u = Good(e.unit)
  BY <1>1, AbsenceAssumption DEF Known
<1>8. (Try(s, v).ok => AllOk(s)) /\ (AllOk(s) => Try(s, v) = Good(v))
  BY <1>4, TryHolds
<1>9. ASSUME ParseResolution(e).ok
      PROVE  /\ IsPositive(e.horizontal) /\ IsPositive(e.vertical)
             /\ \E w \in {"inch", "cm"} :
                  ParseResolution(e).value = [horizontal |-> e.horizontal, vertical |-> e.vertical, unit |-> w]
  <2>1. AllOk(s) /\ ParseResolution(e).value = v /\ u.value \in {"inch", "cm"}
    BY <1>4, <1>5, <1>6, <1>8, <1>9 DEF Good
  <2> QED BY <1>3, <1>5, <2>1
<1>10. ASSUME e \in Resolution, IsPositive(e.horizontal), IsPositive(e.vertical)
       PROVE  ParseResolution(e) = Good(e)
  <2>1. u = Good(e.unit)
    BY <1>7, <1>10 DEF Resolution
  <2>2. u.ok /\ u.value = e.unit
    BY <2>1 DEF Good
  <2>3. v = e
    BY <1>3, <1>10, <2>2 DEF Resolution
  <2> QED BY <1>4, <1>5, <1>8, <1>10, <2>2, <2>3
<1> QED BY <1>9, <1>10

\* A list of numbers of a length.
Numbers(n, text) == Present(text, LAMBDA t : ColonNumbers(n, t))

LEMMA NumbersAre ==
  ASSUME NEW n \in Nat, NEW t \in NumberTexts
  PROVE  LET r == Numbers(n, t) IN (r.ok => t \in [1 .. n -> Int]) /\ (t \in [1 .. n -> Int] => r = Good(t))
<1>1. CASE t = None
  <2>1. t \notin [1 .. n -> Int]
    <3>1. \A f \in [1 .. n -> Int] : f \in Seq(Int \cup {Word})
      <4> TAKE f \in [1 .. n -> Int]
      <4>1. f \in Seq(Int)
        BY SeqDef
      <4> QED BY <4>1
    <3> QED BY <1>1, <3>1, AbsenceAssumption
  <2> QED BY <1>1, <2>1 DEF Numbers, Present, Bad
<1>2. CASE t /= None
  <2>1. t \in Seq(Number \cup {Word})
    BY <1>2 DEF NumberTexts, Opt
  <2> DEFINE each == [i \in DOMAIN t |-> ParseFinite(t[i])]
             last == <<Check(Len(t) = n, "BadAttribute")>>
  <2>2. Numbers(n, t) = Try(each \o last, t)
    BY <1>2 DEF Numbers, Present, ColonNumbers
  <2>3. DOMAIN t = 1 .. Len(t) /\ Len(t) \in Nat
    BY <2>1
  <2>4. each \in Seq({each[i] : i \in DOMAIN t}) /\ last \in Seq({last[1]})
    BY <2>3
  <2>5. AllOk(each) <=> \A i \in DOMAIN t : t[i] \in Int
    BY DEF AllOk, ParseFinite, Finite, Check, Good, Bad
  <2>6. AllOk(last) <=> Len(t) = n
    BY AllOkOf DEF Check, Good, Bad
  <2> HIDE DEF each, last
  <2>7. DOMAIN (each \o last) \subseteq Nat /\ (AllOk(each \o last) <=> AllOk(each) /\ AllOk(last))
    BY <2>4, AllOkBehind
  <2>8. t \in [1 .. n -> Int] <=> Len(t) = n /\ \A i \in DOMAIN t : t[i] \in Int
    <3>1. ASSUME t \in [1 .. n -> Int]
          PROVE  Len(t) = n /\ \A i \in DOMAIN t : t[i] \in Int
      <4>1. DOMAIN t = 1 .. n
        BY <3>1
      <4>2. \A l \in Nat : 1 .. l = 1 .. n => l = n
        OBVIOUS
      <4>3. Len(t) = n
        BY <2>3, <4>1, <4>2
      <4> QED BY <3>1, <4>1, <4>3
    <3>2. ASSUME Len(t) = n, \A i \in DOMAIN t : t[i] \in Int
          PROVE  t \in [1 .. n -> Int]
      <4>1. DOMAIN t = 1 .. n
        BY <2>3, <3>2
      <4>2. t = [i \in DOMAIN t |-> t[i]]
        BY <2>1
      <4> QED BY <3>2, <4>1, <4>2, Zenon
    <3> QED BY <3>1, <3>2
  <2> QED BY <2>2, <2>5, <2>6, <2>7, <2>8, TryHolds
<1> QED BY <1>1, <1>2

LEMMA NumbersHold ==
  ASSUME NEW n \in Nat
  PROVE  \A t \in NumberTexts : Numbers(n, t).ok <=> t \in [1 .. n -> Int]
<1> TAKE t \in NumberTexts
<1>1. PICK r, whole : r = Numbers(n, t) /\ whole = (t \in [1 .. n -> Int])
  OBVIOUS
<1>2. (r.ok => t \in [1 .. n -> Int]) /\ (t \in [1 .. n -> Int] => r = Good(t))
  BY <1>1, NumbersAre
<1> QED BY <1>1, <1>2 DEF Good

LEMMA FunctionIs ==
  ASSUME NEW e, e.m \in NumberTexts, e.s \in NumberTexts, e.h \in NumberTexts,
         e.l \in NumberTexts, e.r \in NumberTexts
  PROVE  LET r == ParseDisplayFunction(e)
             good == \A v \in {e.m, e.s, e.h, e.l, e.r} : v \in [1 .. 4 -> Int]
         IN  (r.ok => good) /\ (good => r = Good(e))
<1>1. PICK s : s = <<Numbers(4, e.m), Numbers(4, e.s), Numbers(4, e.h), Numbers(4, e.l), Numbers(4, e.r)>>
  OBVIOUS
<1>2. ParseDisplayFunction(e) = Try(s, e) /\ DOMAIN s \subseteq Nat
  BY <1>1 DEF ParseDisplayFunction, Numbers
<1>3. AllOk(s) <=> /\ e.m \in [1 .. 4 -> Int] /\ e.s \in [1 .. 4 -> Int] /\ e.h \in [1 .. 4 -> Int]
                   /\ e.l \in [1 .. 4 -> Int] /\ e.r \in [1 .. 4 -> Int]
  <2>1. AllOk(s) <=> /\ Numbers(4, e.m).ok /\ Numbers(4, e.s).ok /\ Numbers(4, e.h).ok
                     /\ Numbers(4, e.l).ok /\ Numbers(4, e.r).ok
    BY <1>1, AllOkOf
  <2>2. \A t \in NumberTexts : Numbers(4, t).ok <=> t \in [1 .. 4 -> Int]
    <3>1. 4 \in Nat
      OBVIOUS
    <3> QED BY <3>1, NumbersHold
  <2> QED BY <2>1, <2>2
<1> QED BY <1>2, <1>3, TryHolds

LEMMA SpaceIs ==
  ASSUME NEW e, e.gamma \in Opt([srgb : BOOLEAN, exponent : Opt(Number)]),
         e.x \in NumberTexts, e.y \in NumberTexts, e.Y \in NumberTexts
  PROVE  LET r == ParseWorkingSpace(e)
             good == /\ e.gamma /= None /\ (e.gamma.srgb \/ Positive(e.gamma.exponent))
                     /\ \A v \in {e.x, e.y, e.Y} : v \in [1 .. 3 -> Int]
         IN  (r.ok => good) /\ (good => r = Good(e))
<1>1. PICK g : g = Present(e.gamma, LAMBDA t : IF t.srgb THEN Good(None) ELSE ParsePositive(t.exponent))
  OBVIOUS
<1>2. PICK s : s = <<g, Numbers(3, e.x), Numbers(3, e.y), Numbers(3, e.Y)>>
  OBVIOUS
<1>3. ParseWorkingSpace(e) = Try(s, e) /\ DOMAIN s \subseteq Nat
  BY <1>1, <1>2 DEF ParseWorkingSpace, Triple, Numbers
<1>4. g.ok <=> e.gamma /= None /\ (e.gamma.srgb \/ Positive(e.gamma.exponent))
  <2>1. CASE e.gamma = None
    BY <1>1, <2>1 DEF Present, Bad
  <2>2. CASE e.gamma /= None
    <3>1. g = IF e.gamma.srgb THEN Good(None) ELSE ParsePositive(e.gamma.exponent)
      BY <1>1, <2>2 DEF Present
    <3> QED BY <2>2, <3>1, PositiveIs DEF Good
  <2> QED BY <2>1, <2>2
<1>5. AllOk(s) <=> /\ g.ok /\ e.x \in [1 .. 3 -> Int] /\ e.y \in [1 .. 3 -> Int] /\ e.Y \in [1 .. 3 -> Int]
  <2>1. AllOk(s) <=> g.ok /\ Numbers(3, e.x).ok /\ Numbers(3, e.y).ok /\ Numbers(3, e.Y).ok
    BY <1>2, AllOkOf
  <2>2. \A t \in NumberTexts : Numbers(3, t).ok <=> t \in [1 .. 3 -> Int]
    <3>1. 3 \in Nat
      OBVIOUS
    <3> QED BY <3>1, NumbersHold
  <2> QED BY <2>1, <2>2
<1> QED BY <1>3, <1>4, <1>5, TryHolds

Pattern(text) == Check(\A i \in DOMAIN text : text[i] \in CfaElements, "BadAttribute")
Dimension(text) == Try(<<ParseU64(text), Check(text /= 0, "BadAttribute")>>, text)

LEMMA DimensionIs ==
  ASSUME NEW x
  PROVE  Present(x, Dimension).ok <=> x \in 1 .. MaxWord
<1>1. PICK s : s = <<ParseU64(x), Check(x /= 0, "BadAttribute")>>
  OBVIOUS
<1>2. AllOk(s) <=> x \in 1 .. MaxWord
  <2>1. AllOk(s) <=> ParseU64(x).ok /\ x /= 0
    BY <1>1, AllOkOf DEF Check, Good, Bad
  <2> QED BY <2>1, BoundAssumption DEF ParseU64, Good, Bad
<1>3. DOMAIN s \subseteq Nat /\ Dimension(x) = Try(s, x)
  BY <1>1 DEF Dimension
<1>4. Dimension(x).ok <=> x \in 1 .. MaxWord
  BY <1>2, <1>3, TryHolds DEF Good
<1>5. x = None => x \notin 1 .. MaxWord
  BY AbsenceAssumption DEF Number
<1> QED BY <1>4, <1>5 DEF Present, Bad

LEMMA FilterIs ==
  ASSUME NEW e, e.pattern \in Opt(Seq(CfaElements \cup {Word}))
  PROVE  LET r == ParseFilterArray(e)
             good == /\ e.pattern /= None /\ (\A i \in DOMAIN e.pattern : e.pattern[i] \in CfaElements)
                     /\ e.width \in 1 .. MaxWord /\ e.height \in 1 .. MaxWord
                     /\ e.width * e.height = Len(e.pattern) /\ Len(e.pattern) <= MaxWord
         IN  (r.ok => good) /\ (good => r = Good(e))
<1>1. PICK s : s = <<Present(e.pattern, Pattern), Present(e.width, Dimension), Present(e.height, Dimension)>>
  OBVIOUS
<1>2. PICK f : f = Try(s, e)
  OBVIOUS
<1>3. ParseFilterArray(e) =
        IF f.ok /\ CheckedTimes(e.width, e.height) /= Len(e.pattern) THEN Bad("BadAttribute") ELSE f
  BY <1>1, <1>2 DEF ParseFilterArray, Pattern, Dimension
<1> DEFINE told == e.pattern /= None /\ \A i \in DOMAIN e.pattern : e.pattern[i] \in CfaElements
           sized == e.width \in 1 .. MaxWord /\ e.height \in 1 .. MaxWord
<1>4. Present(e.pattern, Pattern).ok <=> told
  BY DEF Present, Pattern, Check, Good, Bad
<1>5. AllOk(s) <=> told /\ sized
  <2>1. AllOk(s) <=> Present(e.pattern, Pattern).ok /\ Present(e.width, Dimension).ok /\ Present(e.height, Dimension).ok
    BY <1>1, AllOkOf
  <2> HIDE DEF told
  <2> QED BY <1>4, <2>1, DimensionIs
<1>6. (f.ok => AllOk(s)) /\ (AllOk(s) => f = Good(e))
  <2>1. DOMAIN s \subseteq Nat
    BY <1>1
  <2> QED BY <1>2, <2>1, TryHolds
<1>7. ASSUME told, sized
      PROVE  CheckedTimes(e.width, e.height) = Len(e.pattern)
               <=> e.width * e.height = Len(e.pattern) /\ Len(e.pattern) <= MaxWord
  <2>1. e.pattern \in Seq(CfaElements \cup {Word})
    BY <1>7 DEF Opt
  <2>2. Len(e.pattern) \in Nat
    BY <2>1
  <2>3. PICK w \in 1 .. MaxWord, h \in 1 .. MaxWord, l \in Nat : w = e.width /\ h = e.height /\ l = Len(e.pattern)
    BY <1>7, <2>2
  <2>4. w /= None /\ h /= None /\ l /= None
    BY AbsenceAssumption DEF Number
  <2>5. PICK p : p = w * h
    OBVIOUS
  <2>6. p \in Int
    BY <2>5
  <2>7. CheckedTimes(w, h) = IF p > MaxWord THEN None ELSE p
    BY <2>4, <2>5 DEF CheckedTimes
  <2>8. CheckedTimes(w, h) = l <=> p = l /\ l <= MaxWord
    <3>1. MaxWord \in Nat
      BY BoundAssumption
    <3> QED BY <2>4, <2>6, <2>7, <3>1
  <2> QED BY <2>3, <2>5, <2>8
<1> HIDE DEF told, sized
<1>8. ParseFilterArray(e).ok => told /\ sized /\ CheckedTimes(e.width, e.height) = Len(e.pattern)
  BY <1>3, <1>5, <1>6 DEF Bad
<1>9. told /\ sized /\ CheckedTimes(e.width, e.height) = Len(e.pattern) => ParseFilterArray(e) = Good(e)
  BY <1>3, <1>5, <1>6
<1> QED BY <1>7, <1>8, <1>9 DEF told, sized

Places == [1 .. 3 -> Int]

LEMMA DetIs ==
  ASSUME NEW m \in [1 .. 3 -> Places]
  PROVE  Det(m) \in Int
<1>1. PICK a \in Int, b \in Int, c \in Int, d \in Int, e \in Int, f \in Int, g \in Int, h \in Int, i \in Int :
        /\ a = m[1][1] /\ b = m[1][2] /\ c = m[1][3] /\ d = m[2][1] /\ e = m[2][2] /\ f = m[2][3]
        /\ g = m[3][1] /\ h = m[3][2] /\ i = m[3][3]
  <2>1. \A j, k \in 1 .. 3 : m[j][k] \in Int
    BY DEF Places
  <2>2. 1 \in 1 .. 3 /\ 2 \in 1 .. 3 /\ 3 \in 1 .. 3
    OBVIOUS
  <2> QED BY <2>1, <2>2
<1>2. \A x, y \in Int : x * y \in Int /\ x - y \in Int /\ x + y \in Int
  OBVIOUS
<1>3. PICK p \in Int, q \in Int, r \in Int : p = e * i - h * f /\ q = b * i - h * c /\ r = b * f - e * c
  BY <1>2
<1>4. a * p - d * q + g * r \in Int
  BY <1>2
<1> QED BY <1>1, <1>3, <1>4 DEF Det

\* The luminance that follows from primaries is one of numbers.
LEMMA LuminanceIs ==
  ASSUME NEW x \in Triples, NEW y \in Triples, DeriveLuminance(x, y) /= None
  PROVE  LET d == DeriveLuminance(x, y)
         IN  /\ x \in Places /\ y \in Places
             /\ [k \in 1 .. 3 |-> d[k].num \div d[k].den] \in Places
<1>1. PICK d : d = DeriveLuminance(x, y)
  OBVIOUS
<1> DEFINE columns == [i \in 1 .. 3 |-> <<x[i], y[i], One - x[i] - y[i]>>]
           base == Det(columns)
           sign == IF base < 0 THEN -1 ELSE 1
<1>2. /\ \A i \in 1 .. 3 : Finite(x[i]) /\ Finite(y[i])
      /\ base /= 0
      /\ d = [k \in 1 .. 3 |-> [num |-> sign * Det([columns EXCEPT ![k] = White]) * y[k],
                                den |-> sign * base]]
  <2> HIDE DEF columns
  <2>1. DeriveLuminance(x, y) =
          IF (\E i \in 1 .. 3 : ~Finite(x[i]) \/ ~Finite(y[i])) THEN None
          ELSE IF (\E i \in 1 .. 3 : y[i] = 0) \/ base = 0 THEN None
          ELSE [k \in 1 .. 3 |-> [num |-> sign * Det([columns EXCEPT ![k] = White]) * y[k],
                                  den |-> sign * base]]
    BY DEF DeriveLuminance, columns
  <2> HIDE DEF base, sign
  <2> QED BY <1>1, <2>1
<1>3. x \in Places /\ y \in Places
  <2>1. \A i \in 1 .. 3 : x[i] \in Int /\ y[i] \in Int
    BY <1>2 DEF Finite
  <2>2. x = [i \in 1 .. 3 |-> x[i]] /\ y = [i \in 1 .. 3 |-> y[i]]
    BY DEF Triples
  <2> QED BY <2>1, <2>2 DEF Places
<1>4. columns \in [1 .. 3 -> Places]
  <2>1. ASSUME NEW i \in 1 .. 3
        PROVE  <<x[i], y[i], One - x[i] - y[i]>> \in Places
    <3>1. PICK a \in Int, b \in Int, c \in Int : a = x[i] /\ b = y[i] /\ c = One - x[i] - y[i]
      BY <1>3, ColourAssumption DEF Places
    <3>2. <<a, b, c>> \in [1 .. 3 -> Int]
      OBVIOUS
    <3> QED BY <3>1, <3>2 DEF Places
  <2> QED BY <2>1
<1>5. White \in Places
  BY ColourAssumption DEF Places
<1> HIDE DEF columns
<1>6. base \in Int
  BY <1>4, DetIs
<1> HIDE DEF base
<1>7. sign \in Int /\ sign * base \in Int /\ sign * base > 0
  <2>1. CASE base < 0
    <3>1. sign = -1
      BY <2>1
    <3>2. (-1) * base \in Int /\ (-1) * base > 0
      BY <1>6, <2>1
    <3> QED BY <3>1, <3>2
  <2>2. CASE ~(base < 0)
    <3>1. sign = 1
      BY <2>2
    <3>2. 1 * base \in Int /\ 1 * base > 0
      BY <1>2, <1>6, <2>2
    <3> QED BY <3>1, <3>2
  <2> QED BY <2>1, <2>2
<1> HIDE DEF sign
<1>8. ASSUME NEW k \in 1 .. 3
      PROVE  d[k].num \div d[k].den \in Int
  <2>1. [columns EXCEPT ![k] = White] \in [1 .. 3 -> Places]
    BY <1>4, <1>5
  <2>2. PICK e \in Int, b \in Int, v \in Int :
          e = Det([columns EXCEPT ![k] = White]) /\ b = sign * base /\ v = y[k]
    BY <1>3, <1>7, <2>1, DetIs DEF Places
  <2>3. PICK n \in Int : n = sign * e * v
    BY <1>7
  <2>4. d[k].num = n /\ d[k].den = b
    BY <1>2, <2>2, <2>3
  <2>5. \A m, l \in Int : l > 0 => m \div l \in Int
    OBVIOUS
  <2> QED BY <1>7, <2>2, <2>4, <2>5
<1> QED BY <1>1, <1>3, <1>8 DEF Places

LEMMA DerivedIs ==
  ASSUME NEW s \in WorkingSpace, WorkingSpaceElement(s).ok
  PROVE  LET d == WorkingSpaceElement(s).value
         IN  /\ d = [s EXCEPT !.Y = d.Y]
             /\ d \in WorkingSpace /\ d.x \in Places /\ d.y \in Places /\ d.Y \in Places
             /\ d.gamma = s.gamma
<1>1. PICK l : l = DeriveLuminance(s.x, s.y)
  OBVIOUS
<1>2. PICK Y : Y = [k \in 1 .. 3 |-> l[k].num \div l[k].den]
  OBVIOUS
<1>3. l /= None /\ WorkingSpaceElement(s) = Good([s EXCEPT !.Y = Y])
  BY <1>1, <1>2 DEF WorkingSpaceElement, Bad
<1>4. s.x \in Triples /\ s.y \in Triples
  BY DEF WorkingSpace
<1>5. s.x \in Places /\ s.y \in Places /\ Y \in Places
  BY <1>1, <1>2, <1>3, <1>4, LuminanceIs
<1>6. PICK d : d = [s EXCEPT !.Y = Y]
  OBVIOUS
<1>7. WorkingSpaceElement(s).value = d
  BY <1>3, <1>6 DEF Good
<1>8. d.Y = Y /\ d.x = s.x /\ d.y = s.y /\ d.gamma = s.gamma
  BY <1>6 DEF WorkingSpace
<1>9. Y \in Triples
  BY <1>5 DEF Places, Triples, Number
<1>10. d \in WorkingSpace
  BY <1>6, <1>9 DEF WorkingSpace
<1> QED BY <1>5, <1>6, <1>7, <1>8, <1>10

-----------------------------------------------------------------------------
(* The results that are good.                                              *)

GoodOnes(results) == {i \in DOMAIN results : results[i].ok}

\* What is parsed is the values of good results, in their order.
LEMMA ParsedIs ==
  ASSUME NEW S, NEW results \in Seq(S)
  PROVE  LET kept == Kept(results, GoodOnes(results))
         IN  /\ kept \in Seq(S) /\ Len(kept) <= Len(results)
             /\ Parsed(results) = [j \in 1 .. Len(kept) |-> kept[j].value]
             /\ Len(Parsed(results)) = Len(kept) /\ DOMAIN Parsed(results) = 1 .. Len(kept)
             /\ \A j \in 1 .. Len(kept) :
                  \E i \in 1 .. Len(results) : results[i].ok /\ kept[j] = results[i]
<1>1. PICK kept : kept = Kept(results, GoodOnes(results))
  OBVIOUS
<1>2. kept \in Seq(S) /\ Len(kept) <= Len(results) /\ Paired(kept, kept, results, results, GoodOnes(results))
  BY <1>1, KeptTogether
<1>3. DOMAIN kept = 1 .. Len(kept) /\ Len(kept) \in Nat
  BY <1>2
<1>4. Parsed(results) = [j \in DOMAIN kept |-> kept[j].value]
  BY <1>1 DEF Parsed, Filter, GoodOnes
<1>5. PICK p : p = [j \in 1 .. Len(kept) |-> kept[j].value]
  OBVIOUS
<1>6. Parsed(results) = p
  BY <1>3, <1>4, <1>5
<1>7. Len(p) = Len(kept) /\ DOMAIN p = 1 .. Len(kept)
  BY <1>3, <1>5
<1>8. \A j \in 1 .. Len(kept) : \E i \in 1 .. Len(results) : results[i].ok /\ kept[j] = results[i]
  BY <1>2 DEF Paired, GoodOnes
<1> QED BY <1>1, <1>2, <1>5, <1>6, <1>7, <1>8

LEMMA FirstGoodIs ==
  ASSUME NEW S, NEW results \in Seq(S)
  PROVE  \/ FirstGood(results) = None
         \/ \E i \in 1 .. Len(results) : results[i].ok /\ FirstGood(results) = results[i].value
<1>1. PICK kept : kept = Kept(results, GoodOnes(results))
  OBVIOUS
<1>2. PICK p : p = Parsed(results)
  OBVIOUS
<1>3. /\ kept \in Seq(S)
      /\ p = [j \in 1 .. Len(kept) |-> kept[j].value] /\ Len(p) = Len(kept) /\ DOMAIN p = 1 .. Len(kept)
      /\ \A j \in 1 .. Len(kept) : \E i \in 1 .. Len(results) : results[i].ok /\ kept[j] = results[i]
  BY <1>1, <1>2, ParsedIs
<1>4. FirstGood(results) = IF p = <<>> THEN None ELSE p[1]
  BY <1>2 DEF FirstGood
<1>5. ASSUME p /= <<>>
      PROVE  1 \in 1 .. Len(kept)
  <2>1. Len(kept) \in Nat
    BY <1>3
  <2>2. Len(kept) /= 0
    <3>1. p = [j \in 1 .. Len(kept) |-> p[j]]
      BY <1>3
    <3>2. Len(kept) = 0 => p = <<>>
      BY <3>1
    <3> QED BY <1>5, <3>2
  <2> QED BY <2>1, <2>2
<1>6. ASSUME p /= <<>>
      PROVE  \E i \in 1 .. Len(results) : results[i].ok /\ p[1] = results[i].value
  <2>1. PICK i \in 1 .. Len(results) : results[i].ok /\ kept[1] = results[i]
    BY <1>3, <1>5, <1>6
  <2>2. p[1] = kept[1].value
    BY <1>3, <1>5, <1>6
  <2> QED BY <2>1, <2>2
<1> QED BY <1>4, <1>6

LEMMA FirstGoodOfOne ==
  ASSUME NEW r
  PROVE  FirstGood(<<r>>) = IF r.ok THEN r.value ELSE None
<1>1. PICK results : results = <<r>>
  OBVIOUS
<1>2. results \in Seq({r}) /\ Len(results) = 1 /\ DOMAIN results = 1 .. 1 /\ results[1] = r
  BY <1>1
<1>3. PICK kept : kept = Kept(results, GoodOnes(results))
  OBVIOUS
<1>4. PICK p : p = Parsed(results)
  OBVIOUS
<1>5. /\ kept \in Seq({r}) /\ Len(kept) <= 1
      /\ p = [j \in 1 .. Len(kept) |-> kept[j].value]
      /\ \A j \in 1 .. Len(kept) : \E i \in 1 .. Len(results) : results[i].ok /\ kept[j] = results[i]
  BY <1>2, <1>3, <1>4, ParsedIs
<1>6. FirstGood(results) = IF p = <<>> THEN None ELSE p[1]
  BY <1>4 DEF FirstGood
<1>7. CASE r.ok
  <2>1. 1 .. Len(results) \subseteq GoodOnes(results)
    BY <1>2, <1>7 DEF GoodOnes
  <2>2. kept = results
    BY <1>2, <1>3, <2>1, KeptAll
  <2>3. p = [j \in 1 .. 1 |-> r.value]
    <3>1. \A j \in 1 .. 1 : kept[j].value = r.value
      BY <1>2, <2>2
    <3> QED BY <1>2, <1>5, <2>2, <3>1
  <2>4. p /= <<>> /\ p[1] = r.value
    BY <2>3
  <2> QED BY <1>1, <1>6, <1>7, <2>4
<1>8. CASE ~r.ok
  <2>1. \A i \in 1 .. Len(results) : ~results[i].ok
    BY <1>2, <1>8
  <2>2. Len(kept) = 0
    <3>1. Len(kept) \in Nat
      BY <1>5
    <3>2. 1 \notin 1 .. Len(kept)
      BY <1>5, <2>1
    <3> QED BY <3>1, <3>2
  <2>3. p = <<>>
    BY <1>5, <2>2
  <2> QED BY <1>1, <1>6, <1>8, <2>3
<1> QED BY <1>7, <1>8

LEMMA FirstGoodOfNone == FirstGood(<<>>) = None
<1>1. PICK results : results = <<>>
  OBVIOUS
<1>2. results \in Seq({}) /\ Len(results) = 0
  BY <1>1
<1>3. FirstGood(results) = None \/ \E i \in 1 .. Len(results) : results[i].ok /\ FirstGood(results) = results[i].value
  BY <1>2, FirstGoodIs
<1>4. FirstGood(results) = None
  BY <1>2, <1>3
<1> QED BY <1>1, <1>4

-----------------------------------------------------------------------------
(* Types by their names.                                                   *)

Shapes == {"String", "TimePoint", "Table", "Scalar", "Vector", "Matrix"}

TypeSuffixes == {"", "Vector", "Matrix"}

TypePrefixes ==
  {"I8", "UI8", "I16", "UI16", "I32", "UI32", "I64", "UI64", "I128", "UI128", "F32", "F64", "F128",
   "C32", "C64", "C128"}

LEMMA PrefixesAre ==
  /\ DOMAIN ElementPrefixes = TypePrefixes
  /\ \A p \in TypePrefixes : ElementPrefixes[p] \in Scalars \ {"Boolean"}
  /\ \A s \in Scalars \ {"Boolean"} : \E p \in TypePrefixes : ElementPrefixes[p] = s
<1>1. DOMAIN ElementPrefixes = TypePrefixes
  BY DEF ElementPrefixes, TypePrefixes
<1>2. \A p \in TypePrefixes : ElementPrefixes[p] \in Scalars \ {"Boolean"}
  BY DEF ElementPrefixes, TypePrefixes, Scalars, Signed, Unsigned, Floats, Complexes
<1>3. /\ ElementPrefixes["I8"] = "Int8" /\ ElementPrefixes["UI8"] = "UInt8"
      /\ ElementPrefixes["I16"] = "Int16" /\ ElementPrefixes["UI16"] = "UInt16"
      /\ ElementPrefixes["I32"] = "Int32" /\ ElementPrefixes["UI32"] = "UInt32"
      /\ ElementPrefixes["I64"] = "Int64" /\ ElementPrefixes["UI64"] = "UInt64"
      /\ ElementPrefixes["I128"] = "Int128" /\ ElementPrefixes["UI128"] = "UInt128"
      /\ ElementPrefixes["F32"] = "Float32" /\ ElementPrefixes["F64"] = "Float64"
      /\ ElementPrefixes["F128"] = "Float128" /\ ElementPrefixes["C32"] = "Complex32"
      /\ ElementPrefixes["C64"] = "Complex64" /\ ElementPrefixes["C128"] = "Complex128"
  BY DEF ElementPrefixes
<1>4. ASSUME NEW s \in Scalars \ {"Boolean"}
      PROVE  \E p \in TypePrefixes : ElementPrefixes[p] = s
  <2>1. s \in {"Int8", "Int16", "Int32", "Int64", "Int128", "UInt8", "UInt16", "UInt32", "UInt64",
               "UInt128", "Float32", "Float64", "Float128", "Complex32", "Complex64", "Complex128"}
    BY DEF Scalars, Signed, Unsigned, Floats, Complexes
  <2>2. {"I8", "UI8", "I16", "UI16", "I32", "UI32", "I64", "UI64", "I128", "UI128", "F32", "F64",
         "F128", "C32", "C64", "C128"} \subseteq TypePrefixes
    BY DEF TypePrefixes
  <2> QED BY <1>3, <2>1, <2>2
<1> QED BY <1>1, <1>2, <1>4

LEMMA AliasesAre == \A p \in DOMAIN Aliases : Aliases[p] \in Scalars
BY DEF Aliases, Scalars, Signed, Unsigned, Floats, Complexes

LEMMA NoneIsNoScalar == None \notin Scalars
BY AbsenceAssumption

LEMMA GoodIs == \A v : Good(v).ok /\ Good(v).value = v
BY DEF Good

LEMMA BadIs == \A e : ~Bad(e).ok
BY DEF Bad

Plains == {"String", "TimePoint", "Table"}

\* The names without a suffix are of one kind each.
LEMMA PlainNames ==
  /\ \A p \in Plains : p \notin Scalars /\ p \notin DOMAIN Aliases /\ p /= "ByteArray"
  /\ \A p \in Scalars : p \notin DOMAIN Aliases /\ p /= "ByteArray"
  /\ \A p \in DOMAIN Aliases : p /= "ByteArray"
  /\ LET p == "Scalar" IN p \notin Plains /\ p \notin Scalars /\ p \notin DOMAIN Aliases /\ p /= "ByteArray"
BY DEF Plains, Scalars, Signed, Unsigned, Floats, Complexes, Aliases

LEMMA PlainTypeIs ==
  ASSUME NEW t, t.suffix = ""
  PROVE  /\ t.prefix \in Plains => ParseType(t) = Good(Type(t.prefix, None))
         /\ t.prefix \in Scalars => ParseType(t) = Good(Type("Scalar", t.prefix))
         /\ t.prefix \in DOMAIN Aliases => ParseType(t) = Good(Type("Scalar", Aliases[t.prefix]))
         /\ t.prefix = "ByteArray" => ParseType(t) = Good(Type("Vector", "UInt8"))
         /\ t.prefix \notin Plains \cup Scalars \cup DOMAIN Aliases \cup {"ByteArray"} =>
              ParseType(t) = Bad("Unsupported")
<1>1. ParseType(t) =
        CASE t.prefix \in Plains -> Good(Type(t.prefix, None))
          [] t.prefix \in Scalars -> Good(Type("Scalar", t.prefix))
          [] t.prefix \in DOMAIN Aliases -> Good(Type("Scalar", Aliases[t.prefix]))
          [] t.prefix = "ByteArray" -> Good(Type("Vector", "UInt8"))
          [] OTHER -> Bad("Unsupported")
  BY DEF ParseType, Plains
<1> QED BY <1>1, PlainNames

\* Of what is parsed of a name.
LEMMA TypeIsTyped ==
  ASSUME NEW t, t.suffix \in TypeSuffixes
  PROVE  ParseType(t).ok => ParseType(t).value \in Kinds
<1>1. \A s \in Shapes : \A x \in Opt(Scalars) : Type(s, x) \in Kinds
  BY DEF Type, Kinds, Shapes
<1>2. None \in Opt(Scalars) /\ \A x \in Scalars : x \in Opt(Scalars)
  BY DEF Opt
<1>3. CASE t.suffix = ""
  <2>1. "UInt8" \in Scalars /\ "Scalar" \in Shapes /\ "Vector" \in Shapes /\ Plains \subseteq Shapes
    BY DEF Scalars, Unsigned, Shapes, Plains
  <2>2. \/ \E s \in Shapes : \E x \in Opt(Scalars) : ParseType(t) = Good(Type(s, x))
        \/ ParseType(t) = Bad("Unsupported")
    BY <1>2, <1>3, <2>1, PlainTypeIs, AliasesAre
  <2> QED BY <1>1, <2>2, GoodIs, BadIs, Zenon
<1>4. CASE t.suffix /= ""
  <2>1. PICK a : a = AggregateElement(t.prefix, t.suffix)
    OBVIOUS
  <2>2. a /= None => a \in Scalars
    <3>1. {"Float64", "Int32", "UInt32", "UInt8"} \subseteq Scalars
      BY DEF Scalars, Signed, Unsigned, Floats
    <3> QED BY <2>1, <3>1, PrefixesAre DEF AggregateElement
  <2>3. ParseType(t) = IF a /= None THEN Good(Type(t.suffix, a)) ELSE Bad("Unsupported")
    BY <1>4, <2>1 DEF ParseType
  <2>4. t.suffix \in Shapes
    BY <1>4 DEF Shapes, TypeSuffixes
  <2>5. a /= None => Type(t.suffix, a) \in Kinds
    BY <1>1, <1>2, <2>2, <2>4
  <2> QED BY <2>3, <2>5, GoodIs, BadIs, Zenon
<1> QED BY <1>3, <1>4

LEMMA TypeIs ==
  ASSUME NEW kind \in Kinds
  PROVE  LET n == TypeName(kind)
         IN  /\ n.suffix \in TypeSuffixes /\ n /= None
             /\ ParseType(n).ok => Nameable(kind)
             /\ Nameable(kind) => ParseType(n) = Good(AsNamed(kind))
<1>1. PICK n : n = TypeName(kind)
  OBVIOUS
<1>2. kind.shape \in Shapes /\ kind.element \in Opt(Scalars)
  BY DEF Kinds, Shapes
<1>3. n /= None
  BY <1>1, AbsenceAssumption DEF TypeTexts
<1> SUFFICES /\ n.suffix \in TypeSuffixes
             /\ ParseType(n).ok => Nameable(kind)
             /\ Nameable(kind) => ParseType(n) = Good(AsNamed(kind))
  BY <1>1, <1>3
<1>4. CASE kind.shape \in Plains
  <2>1. n = [prefix |-> kind.shape, suffix |-> ""]
    BY <1>1, <1>4 DEF TypeName, Plains
  <2>2. ParseType(n) = Good(Type(kind.shape, None))
    <3>1. n.prefix = kind.shape /\ n.suffix = ""
      BY <2>1
    <3> QED BY <1>4, <3>1, PlainTypeIs
  <2>3. AsNamed(kind) = Type(kind.shape, None)
    BY <1>4 DEF AsNamed, Type, Kinds, Plains
  <2>4. Nameable(kind)
    BY <1>4 DEF Nameable, Plains
  <2> QED BY <2>1, <2>2, <2>3, <2>4 DEF TypeSuffixes
<1>5. CASE kind.shape = "Scalar" /\ kind.element /= None
  <2>1. n = [prefix |-> kind.element, suffix |-> ""]
    BY <1>1, <1>5 DEF TypeName
  <2>2. kind.element \in Scalars
    BY <1>2, <1>5 DEF Opt
  <2>4. ParseType(n) = Good(Type("Scalar", kind.element))
    <3>1. n.prefix = kind.element /\ n.suffix = ""
      BY <2>1
    <3> QED BY <2>2, <3>1, PlainTypeIs
  <2>5. AsNamed(kind) = Type("Scalar", kind.element) /\ Nameable(kind)
    BY <1>5 DEF AsNamed, Nameable, Type, Kinds
  <2> QED BY <2>1, <2>4, <2>5 DEF TypeSuffixes
<1>6. CASE kind.shape = "Scalar" /\ kind.element = None
  <2>1. n = [prefix |-> "Scalar", suffix |-> ""]
    BY <1>1, <1>6 DEF TypeName
  <2>3. ParseType(n) = Bad("Unsupported")
    <3>1. n.prefix = "Scalar" /\ n.suffix = ""
      BY <2>1
    <3> QED BY <3>1, PlainTypeIs, PlainNames
  <2>4. ~Nameable(kind)
    BY <1>6 DEF Nameable
  <2> QED BY <2>1, <2>3, <2>4, BadIs DEF TypeSuffixes
<1>7. CASE kind.shape \in {"Vector", "Matrix"}
  <2>1. /\ Nameable(kind) <=> kind.element /= "Boolean"
        /\ AsNamed(kind) = IF kind.element = None THEN Type(kind.shape, "Float64") ELSE kind
        /\ kind = Type(kind.shape, kind.element)
    BY <1>7 DEF Nameable, AsNamed, Type, Kinds
  <2>2. CASE kind.element = None
    <3>1. n = [prefix |-> "", suffix |-> kind.shape]
      BY <1>1, <1>7, <2>2 DEF TypeName
    <3>2. AggregateElement("", kind.shape) = "Float64" /\ "Float64" /= None
      <4>1. "" \notin TypePrefixes
        BY DEF TypePrefixes
      <4>2. AggregateElement("", kind.shape) = "Float64"
        BY <4>1, PrefixesAre DEF AggregateElement
      <4> QED BY <4>2, NoneIsNoScalar DEF Scalars, Floats
    <3>3. ParseType(n) = Good(Type(kind.shape, "Float64"))
      <4>1. n.prefix = "" /\ n.suffix = kind.shape /\ kind.shape /= ""
        BY <1>7, <3>1
      <4> QED BY <3>2, <4>1 DEF ParseType
    <3>4. None /= "Boolean"
      BY NoneIsNoScalar DEF Scalars
    <3> QED BY <1>7, <2>1, <2>2, <3>1, <3>3, <3>4 DEF TypeSuffixes
  <2>3. CASE kind.element /= None
    <3>1. PICK p : p = PrefixFor(kind.element)
      OBVIOUS
    <3>2. n = [prefix |-> p, suffix |-> kind.shape]
      BY <1>1, <1>7, <2>3, <3>1 DEF TypeName
    <3>3. PICK a : a = AggregateElement(p, kind.shape)
      OBVIOUS
    <3>4. ParseType(n) = IF a /= None THEN Good(Type(kind.shape, a)) ELSE Bad("Unsupported")
      <4>1. n.prefix = p /\ n.suffix = kind.shape /\ kind.shape /= ""
        BY <1>7, <3>2
      <4> QED BY <3>3, <4>1 DEF ParseType
    <3>5. CASE kind.element = "Boolean"
      <4>1. p = "Boolean"
        BY <3>1, <3>5 DEF PrefixFor
      <4>2. a = None
        <5>1. "Boolean" \notin TypePrefixes
          BY DEF TypePrefixes
        <5> QED BY <3>3, <4>1, <5>1, PrefixesAre DEF AggregateElement
      <4> QED BY <1>7, <2>1, <3>2, <3>4, <3>5, <4>2, BadIs DEF TypeSuffixes
    <3>6. CASE kind.element /= "Boolean"
      <4>1. kind.element \in Scalars \ {"Boolean"}
        BY <1>2, <2>3, <3>6 DEF Opt
      <4>2. p \in TypePrefixes /\ ElementPrefixes[p] = kind.element
        BY <3>1, <3>6, <4>1, PrefixesAre DEF PrefixFor
      <4>3. p \notin {"", "I", "UI", "Byte"}
        BY <4>2 DEF TypePrefixes
      <4>4. a = kind.element
        BY <3>3, <4>2, <4>3, PrefixesAre DEF AggregateElement
      <4> QED BY <1>7, <2>1, <2>3, <3>2, <3>4, <3>6, <4>4 DEF TypeSuffixes
    <3> QED BY <3>5, <3>6
  <2> QED BY <2>2, <2>3
<1> QED BY <1>2, <1>4, <1>5, <1>6, <1>7 DEF Shapes, Plains

-----------------------------------------------------------------------------
(* Tables.                                                                 *)

FieldElement(f) == [id |-> f.id, type |-> TypeName(f.kind), format |-> f.format, header |-> f.header]

LEMMA FieldIs ==
  ASSUME NEW f \in Columns
  PROVE  LET r == ParseField(FieldElement(f))
         IN  (r.ok => Nameable(f.kind)) /\ (Nameable(f.kind) => r = Good(Named(f)))
<1>1. PICK e : e = FieldElement(f)
  OBVIOUS
<1>2. PICK t : t = ParseType(TypeName(f.kind))
  OBVIOUS
<1>3. f.kind \in Kinds /\ f.id \in Identifiers
  BY DEF Columns
<1>4. /\ TypeName(f.kind) /= None
      /\ t.ok => Nameable(f.kind)
      /\ Nameable(f.kind) => t = Good(AsNamed(f.kind))
  BY <1>2, <1>3, TypeIs
<1>5. /\ e.id = f.id /\ e.type = TypeName(f.kind) /\ e.format = f.format /\ e.header = f.header
      /\ e.id /= None
  BY <1>1, <1>3, AbsenceAssumption DEF FieldElement
<1>6. PICK s : s = <<Check(e.id /= None, "BadHeader"), t>>
  OBVIOUS
<1>7. PICK v : v = [id |-> f.id, kind |-> t.value, format |-> f.format, header |-> f.header]
  OBVIOUS
<1>8. ParseField(e) = Try(s, v) /\ DOMAIN s \subseteq Nat
  BY <1>2, <1>4, <1>5, <1>6, <1>7 DEF ParseField
<1>9. AllOk(s) <=> t.ok
  BY <1>5, <1>6, AllOkOf DEF Check, Good, Bad
<1>10. (ParseField(e).ok => AllOk(s)) /\ (AllOk(s) => ParseField(e) = Good(v))
  BY <1>8, TryHolds
<1>11. Nameable(f.kind) => v = Named(f)
  <2>1. ASSUME Nameable(f.kind)
        PROVE  v = Named(f)
    <3>1. t.value = AsNamed(f.kind)
      BY <1>4, <2>1, GoodIs
    <3> QED BY <1>7, <3>1 DEF Named, Columns
  <2> QED BY <2>1
<1>12. Nameable(f.kind) => t.ok
  BY <1>4, GoodIs
<1> QED BY <1>1, <1>4, <1>9, <1>10, <1>11, <1>12

\* Of a structure another program may have changed.
LEMMA FieldIsTyped ==
  ASSUME NEW e, e.id \in Opt(Identifiers), e.type \in Opt(TypeTexts), e.format \in Opt(STRING),
         e.header \in Opt(STRING)
  PROVE  ParseField(e).ok => ParseField(e).value \in Columns
<1>1. PICK t : t = IF e.type = None THEN Bad("BadHeader") ELSE ParseType(e.type)
  OBVIOUS
<1>2. PICK s : s = <<Check(e.id /= None, "BadHeader"), t>>
  OBVIOUS
<1>3. PICK v : v = [id |-> e.id, kind |-> t.value, format |-> e.format, header |-> e.header]
  OBVIOUS
<1>4. ParseField(e) = Try(s, v) /\ DOMAIN s \subseteq Nat
  BY <1>1, <1>2, <1>3 DEF ParseField
<1>5. AllOk(s) <=> e.id /= None /\ t.ok
  BY <1>2, AllOkOf DEF Check, Good, Bad
<1>6. (ParseField(e).ok => AllOk(s)) /\ (AllOk(s) => ParseField(e) = Good(v))
  BY <1>4, TryHolds
<1>7. t.ok => t.value \in Kinds
  <2>1. CASE e.type = None
    BY <1>1, <2>1, BadIs
  <2>2. CASE e.type /= None
    <3>1. e.type \in TypeTexts /\ t = ParseType(e.type)
      BY <1>1, <2>2 DEF Opt
    <3>2. e.type.suffix \in TypeSuffixes
      BY <3>1, TypeIs DEF TypeTexts, TypeSuffixes
    <3>3. PICK y : y = e.type
      OBVIOUS
    <3>4. y.suffix \in TypeSuffixes
      BY <3>2, <3>3
    <3>5. ParseType(y).ok => ParseType(y).value \in Kinds
      BY <3>4, TypeIsTyped
    <3>6. t = ParseType(y)
      BY <3>1, <3>3
    <3> QED BY <3>5, <3>6
  <2> QED BY <2>1, <2>2
<1>8. e.id /= None => e.id \in Identifiers
  BY DEF Opt
<1>9. AllOk(s) => v \in Columns
  BY <1>3, <1>5, <1>7, <1>8 DEF Columns
<1> QED BY <1>6, <1>9, GoodIs

\* Results collected are their values.
LEMMA CollectIs ==
  ASSUME NEW results, DOMAIN results \subseteq Nat
  PROVE  LET r == Collect(results)
         IN  /\ r.ok => AllOk(results)
             /\ AllOk(results) => r = Good([i \in DOMAIN results |-> results[i].value])
BY TryHolds DEF Collect

LEMMA StructureIs ==
  ASSUME NEW fields \in Seq(Columns), fields /= <<>>
  PROVE  LET r == ParseStructure([i \in DOMAIN fields |-> FieldElement(fields[i])])
             good == Distinct(fields) /\ \A i \in DOMAIN fields : Nameable(fields[i].kind)
         IN  /\ r.ok => good
             /\ good => r = Good([i \in DOMAIN fields |-> Named(fields[i])])
<1>1. PICK es : es = [i \in DOMAIN fields |-> FieldElement(fields[i])]
  OBVIOUS
<1>2. PICK rs : rs = [i \in DOMAIN es |-> ParseField(es[i])]
  OBVIOUS
<1>3. PICK n \in Nat : n = Len(fields) /\ DOMAIN fields = 1 .. n
  OBVIOUS
<1>4. n /= 0
  BY <1>3
<1>5. DOMAIN es = 1 .. n /\ DOMAIN rs = 1 .. n /\ \A i \in 1 .. n : es[i] = FieldElement(fields[i]) /\ rs[i] = ParseField(es[i])
  BY <1>1, <1>2, <1>3
<1>6. \A i \in 1 .. n : /\ rs[i].ok => Nameable(fields[i].kind)
                        /\ Nameable(fields[i].kind) => rs[i] = Good(Named(fields[i]))
  <2> TAKE i \in 1 .. n
  <2>1. PICK f \in Columns : f = fields[i]
    BY <1>3
  <2>2. rs[i] = ParseField(FieldElement(f))
    BY <1>5, <2>1
  <2> QED BY <2>1, <2>2, FieldIs
<1>7. PICK c : c = Collect(rs)
  OBVIOUS
<1>8. /\ c.ok => AllOk(rs)
      /\ AllOk(rs) => c = Good([i \in DOMAIN rs |-> rs[i].value])
  BY <1>5, <1>7, CollectIs
<1>9. AllOk(rs) <=> \A i \in 1 .. n : Nameable(fields[i].kind)
  BY <1>5, <1>6, GoodIs DEF AllOk
<1>10. AllOk(rs) => [i \in DOMAIN rs |-> rs[i].value] = [i \in DOMAIN fields |-> Named(fields[i])]
  <2>1. ASSUME AllOk(rs), NEW i \in 1 .. n
        PROVE  rs[i].value = Named(fields[i])
    BY <1>6, <1>9, <2>1, GoodIs
  <2> QED BY <1>3, <1>5, <2>1
<1>11. es /= <<>> /\ (\A i, j \in DOMAIN es : es[i].id = es[j].id => i = j) <=> Distinct(fields)
  <2>1. \A i \in 1 .. n : es[i].id = fields[i].id
    BY <1>5 DEF FieldElement
  <2>2. (\A i, j \in DOMAIN es : es[i].id = es[j].id => i = j) <=> Distinct(fields)
    BY <1>3, <1>5, <2>1 DEF Distinct
  <2>3. 1 \in DOMAIN es
    BY <1>4, <1>5
  <2> QED BY <2>2, <2>3
<1>12. PICK distinct : distinct = \A i, j \in DOMAIN es : es[i].id = es[j].id => i = j
  OBVIOUS
<1>13. PICK s : s = <<Check(es /= <<>>, "BadHeader"), Check(distinct, "BadHeader")>>
  OBVIOUS
<1>14. ParseStructure(es) = IF ~c.ok THEN c ELSE Try(s, c.value)
  BY <1>2, <1>7, <1>12, <1>13 DEF ParseStructure
<1>15. (AllOk(s) <=> Distinct(fields)) /\ DOMAIN s \subseteq Nat
  <2>1. AllOk(s) <=> es /= <<>> /\ distinct
    BY <1>13, AllOkOf DEF Check, Good, Bad
  <2>2. DOMAIN s \subseteq Nat
    BY <1>13
  <2>3. es /= <<>>
    <3>1. 1 \in DOMAIN es
      BY <1>4, <1>5
    <3> QED BY <3>1
  <2> QED BY <1>11, <1>12, <2>1, <2>2, <2>3
<1>16. (Try(s, c.value).ok => AllOk(s)) /\ (AllOk(s) => Try(s, c.value) = Good(c.value))
  BY <1>15, TryHolds
<1>17. PICK r : r = ParseStructure(es)
  OBVIOUS
<1>18. ASSUME r.ok
       PROVE  Distinct(fields) /\ \A i \in DOMAIN fields : Nameable(fields[i].kind)
  <2>1. c.ok /\ r = Try(s, c.value)
    BY <1>14, <1>17, <1>18
  <2> QED BY <1>3, <1>8, <1>9, <1>15, <1>16, <1>18, <2>1
<1>19. ASSUME Distinct(fields), \A i \in DOMAIN fields : Nameable(fields[i].kind)
       PROVE  r = Good([i \in DOMAIN fields |-> Named(fields[i])])
  <2>1. AllOk(rs)
    BY <1>3, <1>9, <1>19
  <2>2. PICK v : v = [i \in DOMAIN fields |-> Named(fields[i])]
    OBVIOUS
  <2>3. c = Good(v)
    BY <1>8, <1>10, <2>1, <2>2
  <2>4. c.ok /\ c.value = v
    BY <2>3, GoodIs
  <2> QED BY <1>14, <1>15, <1>16, <1>17, <1>19, <2>2, <2>4
<1> QED BY <1>1, <1>17, <1>18, <1>19

\* A structure that another program may have left is of columns.
LEMMA StructureIsTyped ==
  ASSUME NEW es \in Seq(StructureTexts)
  PROVE  LET r == ParseStructure(es)
         IN  r.ok => r.value \in Seq(Columns) /\ Len(r.value) = Len(es) /\ es /= <<>>
<1>1. PICK rs : rs = [i \in DOMAIN es |-> ParseField(es[i])]
  OBVIOUS
<1>2. PICK n \in Nat : n = Len(es) /\ DOMAIN es = 1 .. n
  OBVIOUS
<1>3. DOMAIN rs = 1 .. n
  BY <1>1, <1>2
<1>4. \A i \in 1 .. n : rs[i].ok => rs[i].value \in Columns
  <2> TAKE i \in 1 .. n
  <2>1. PICK e \in StructureTexts : e = es[i]
    BY <1>2
  <2>2. /\ e.id \in Opt(Identifiers) /\ e.type \in Opt(TypeTexts) /\ e.format \in Opt(STRING)
        /\ e.header \in Opt(STRING)
    BY DEF StructureTexts
  <2>3. rs[i] = ParseField(e)
    BY <1>1, <1>2, <2>1
  <2> QED BY <2>2, <2>3, FieldIsTyped
<1>5. PICK c : c = Collect(rs)
  OBVIOUS
<1>6. /\ c.ok => AllOk(rs)
      /\ AllOk(rs) => c = Good([i \in DOMAIN rs |-> rs[i].value])
  BY <1>3, <1>5, CollectIs
<1>7. PICK distinct : distinct = \A i, j \in DOMAIN es : es[i].id = es[j].id => i = j
  OBVIOUS
<1>8. PICK s : s = <<Check(es /= <<>>, "BadHeader"), Check(distinct, "BadHeader")>>
  OBVIOUS
<1>9. PICK r : r = ParseStructure(es)
  OBVIOUS
<1>10. r = IF ~c.ok THEN c ELSE Try(s, c.value)
  BY <1>1, <1>5, <1>7, <1>8, <1>9 DEF ParseStructure
<1>11. ASSUME r.ok
       PROVE  r.value \in Seq(Columns) /\ Len(r.value) = n /\ es /= <<>>
  <2>1. c.ok /\ r = Try(s, c.value)
    BY <1>10, <1>11
  <2>2. AllOk(s) => r = Good(c.value)
    <3>1. DOMAIN s \subseteq Nat
      BY <1>8
    <3> QED BY <2>1, <3>1, TryHolds
  <2>3. AllOk(s)
    <3>1. DOMAIN s \subseteq Nat
      BY <1>8
    <3> QED BY <1>11, <2>1, <3>1, TryHolds
  <2>4. r.value = c.value
    BY <2>2, <2>3, GoodIs
  <2>5. PICK v : v = [i \in 1 .. n |-> rs[i].value]
    OBVIOUS
  <2>6. c.value = v
    <3>1. c = Good([i \in DOMAIN rs |-> rs[i].value])
      BY <1>6, <2>1
    <3> QED BY <1>3, <2>5, <3>1, GoodIs
  <2>7. \A i \in 1 .. n : rs[i].value \in Columns
    BY <1>3, <1>4, <1>6, <2>1 DEF AllOk
  <2>8. v \in Seq(Columns) /\ Len(v) = n
    BY <2>5, <2>7
  <2>9. es /= <<>>
    BY <1>8, <2>3, AllOkOf DEF Check, Good, Bad
  <2> QED BY <2>4, <2>6, <2>8, <2>9
<1> QED BY <1>2, <1>9, <1>11

\* A table that was accepted has columns, and every row has all of them.
IsWhole(t) == t.fields /= <<>> /\ \A n \in DOMAIN t.rows : Len(t.rows[n]) = Len(t.fields)

Declared(text, count) ==
  IF text = None THEN Good(None)
  ELSE IF ~ParseU64(text).ok THEN Bad("BadAttribute") ELSE Check(text = count, "BadHeader")

LEMMA DeclaredIs ==
  ASSUME NEW n \in Lengths
  PROVE  Declared(n, n).ok
BY BoundAssumption DEF Declared, ParseU64, Check, Good, Lengths

LEMMA TableIsParsed ==
  ASSUME NEW e, e.id /= None, e.structure /= None, NEW c, c = ParseStructure(e.structure),
         e.body \in Seq(Seq(Cells))
  PROVE  LET r == ParseTable(e)
             good == /\ c.ok
                     /\ \A i \in DOMAIN e.body : Len(e.body[i]) = Len(c.value)
                     /\ Declared(e.rows, Len(e.body)).ok /\ Declared(e.columns, Len(c.value)).ok
         IN  /\ r.ok => good
             /\ good => r = Good([id |-> e.id, fields |-> c.value, rows |-> e.body,
                                  caption |-> e.caption, comment |-> e.comment])
<1> DEFINE columns == Len(c.value)
           each == [i \in DOMAIN e.body |-> Check(Len(e.body[i]) = columns, "BadHeader")]
           last == <<Declared(e.rows, Len(e.body)), Declared(e.columns, columns)>>
           value == [id |-> e.id, fields |-> c.value, rows |-> e.body,
                     caption |-> e.caption, comment |-> e.comment]
<1>1. ParseTable(e) = IF ~c.ok THEN c ELSE Try(each \o last, value)
  BY DEF ParseTable, Declared
<1>2. each \in Seq({each[i] : i \in DOMAIN e.body}) /\ last \in Seq({last[1], last[2]})
  <2>1. DOMAIN e.body = 1 .. Len(e.body) /\ Len(e.body) \in Nat
    OBVIOUS
  <2>2. each \in Seq({each[i] : i \in DOMAIN e.body})
    BY <2>1
  <2>3. last \in Seq({last[1], last[2]})
    OBVIOUS
  <2> QED BY <2>2, <2>3
<1>3. AllOk(each) <=> \A i \in DOMAIN e.body : Len(e.body[i]) = columns
  BY DEF AllOk, Check, Good, Bad
<1>4. AllOk(last) <=> Declared(e.rows, Len(e.body)).ok /\ Declared(e.columns, columns).ok
  BY AllOkOf
<1> HIDE DEF each, last, value
<1>5. DOMAIN (each \o last) \subseteq Nat /\ (AllOk(each \o last) <=> AllOk(each) /\ AllOk(last))
  BY <1>2, AllOkBehind
<1>6. /\ Try(each \o last, value).ok => AllOk(each \o last)
      /\ AllOk(each \o last) => Try(each \o last, value) = Good(value)
  BY <1>5, TryHolds
<1>7. (ParseTable(e).ok => c.ok /\ AllOk(each \o last))
      /\ (c.ok /\ AllOk(each \o last) => ParseTable(e) = Good(value))
  BY <1>1, <1>6
<1> QED BY <1>3, <1>4, <1>5, <1>7 DEF value

\* The texts of a table's structure and body.
LEMMA TableTextsAre ==
  ASSUME NEW t \in Tables,
         NEW es, es = [i \in DOMAIN t.fields |-> FieldElement(t.fields[i])],
         NEW body, body = [n \in DOMAIN t.rows |-> [k \in DOMAIN t.rows[n] |-> CellElement(t.rows[n][k])]]
  PROVE  /\ es \in Seq(StructureTexts) /\ Len(es) \in Lengths
         /\ body \in Seq(Seq(Cells)) /\ Len(body) \in Lengths
         /\ Len(body) = Len(t.rows) /\ DOMAIN body = DOMAIN t.rows
         /\ \A n \in DOMAIN t.rows : Len(body[n]) = Len(t.rows[n])
<1>1. /\ t.fields \in Seq(Columns) /\ t.rows \in Seq(Seq(Cells))
      /\ Len(t.fields) \in Lengths /\ Len(t.rows) \in Lengths
  BY DEF Tables
<1>2. \A c \in Cells : CellElement(c) \in Cells
  BY DEF CellElement, Cells, Opt
<1>3. /\ body \in Seq(Seq(Cells)) /\ Len(body) = Len(t.rows) /\ DOMAIN body = DOMAIN t.rows
      /\ \A n \in DOMAIN t.rows : Len(body[n]) = Len(t.rows[n])
  <2>1. PICK rows : rows = t.rows
    OBVIOUS
  <2>2. rows \in Seq(Seq(Cells)) /\ DOMAIN rows = 1 .. Len(rows) /\ Len(rows) \in Nat
    BY <1>1, <2>1
  <2>3. ASSUME NEW n \in DOMAIN rows
        PROVE  body[n] \in Seq(Cells) /\ Len(body[n]) = Len(rows[n])
    <3>1. PICK row \in Seq(Cells) : row = rows[n]
      BY <2>2
    <3>2. PICK new : new = [k \in DOMAIN row |-> CellElement(row[k])]
      OBVIOUS
    <3>3. DOMAIN row = 1 .. Len(row) /\ Len(row) \in Nat /\ \A k \in DOMAIN row : row[k] \in Cells
      OBVIOUS
    <3>4. \A k \in DOMAIN row : CellElement(row[k]) \in Cells
      BY <1>2, <3>3
    <3>5. new \in Seq(Cells) /\ Len(new) = Len(row)
      BY <3>2, <3>3, <3>4
    <3>6. body[n] = new
      BY <2>1, <3>1, <3>2
    <3> QED BY <3>1, <3>5, <3>6
  <2>4. DOMAIN body = 1 .. Len(rows)
    BY <2>1, <2>2
  <2>5. body = [n \in 1 .. Len(rows) |-> body[n]]
    BY <2>1, <2>2
  <2>6. body \in Seq(Seq(Cells)) /\ Len(body) = Len(rows)
    <3>1. PICK m, new : m \in Nat /\ m = Len(rows) /\ new = body
      BY <2>2
    <3>2. new = [n \in 1 .. m |-> new[n]] /\ \A n \in 1 .. m : new[n] \in Seq(Cells)
      BY <2>2, <2>3, <2>5, <3>1
    <3>3. new \in [1 .. m -> Seq(Cells)]
      BY <3>2
    <3>4. m \in Nat
      BY <3>1
    <3>5. new \in Seq(Seq(Cells)) /\ Len(new) = m
      BY <3>3, <3>4, SeqDef
    <3> QED BY <3>1, <3>5
  <2> QED BY <2>1, <2>2, <2>3, <2>4, <2>6
<1>4. es \in Seq(StructureTexts) /\ Len(es) \in Lengths
  <2>1. \A i \in DOMAIN t.fields : FieldElement(t.fields[i]) \in StructureTexts
    <3> TAKE i \in DOMAIN t.fields
    <3>1. PICK f \in Columns : f = t.fields[i]
      BY <1>1
    <3>2. TypeName(f.kind) \in TypeTexts /\ f.id \in Identifiers /\ f.format \in Opt(STRING) /\ f.header \in Opt(STRING)
      BY DEF Columns, TypeTexts
    <3> QED BY <3>1, <3>2 DEF FieldElement, StructureTexts, Opt
  <2>2. es \in Seq(StructureTexts)
    <3>1. PICK n \in Nat : DOMAIN t.fields = 1 .. n
      BY <1>1
    <3>2. es = [i \in 1 .. n |-> es[i]] /\ \A i \in 1 .. n : es[i] \in StructureTexts
      BY <2>1, <3>1
    <3>3. es \in [1 .. n -> StructureTexts]
      BY <3>2
    <3> QED BY <3>3, SeqDef
  <2> QED BY <1>1, <2>2
<1> QED BY <1>1, <1>3, <1>4

LEMMA TableIs ==
  ASSUME NEW t \in Tables, IsWhole(t)
  PROVE  LET r == ParseTable(TableElement(t))
         IN  (r.ok => TableSurvives(t)) /\ (TableSurvives(t) => r = Good(TableFound(t)))
<1>1. PICK e : e = TableElement(t)
  OBVIOUS
<1>2. PICK es : es = [i \in DOMAIN t.fields |-> FieldElement(t.fields[i])]
  OBVIOUS
<1>3. PICK body : body = [n \in DOMAIN t.rows |-> [k \in DOMAIN t.rows[n] |-> CellElement(t.rows[n][k])]]
  OBVIOUS
<1>4. /\ t.fields \in Seq(Columns) /\ t.rows \in Seq(Seq(Cells)) /\ t.id \in Identifiers
      /\ Len(t.fields) \in Lengths /\ Len(t.rows) \in Lengths /\ t.fields /= <<>>
      /\ \A n \in DOMAIN t.rows : Len(t.rows[n]) = Len(t.fields)
  BY DEF Tables, IsWhole
<1>5. /\ e.id = t.id /\ e.caption = t.caption /\ e.comment = t.comment
      /\ e.rows = Len(t.rows) /\ e.columns = Len(t.fields) /\ e.structure = es /\ e.body = body
  BY <1>1, <1>2, <1>3 DEF TableElement, FieldElement
<1>7. /\ body \in Seq(Seq(Cells)) /\ Len(body) = Len(t.rows) /\ DOMAIN body = DOMAIN t.rows
      /\ \A n \in DOMAIN t.rows : Len(body[n]) = Len(t.rows[n])
      /\ es \in Seq(StructureTexts)
  BY <1>2, <1>3, TableTextsAre
<1>8. es /= None
  BY <1>7, AbsenceAssumption
<1>9. t.id /= None
  BY <1>4, AbsenceAssumption
<1>10. PICK c : c = ParseStructure(es)
  OBVIOUS
<1>11. PICK fields : fields = [i \in DOMAIN t.fields |-> Named(t.fields[i])]
  OBVIOUS
<1>12. (c.ok => TableSurvives(t)) /\ (TableSurvives(t) => c = Good(fields))
  BY <1>2, <1>4, <1>10, <1>11, StructureIs DEF TableSurvives
<1>13. Len(fields) = Len(t.fields)
  BY <1>4, <1>11
<1>14. PICK v : v = [id |-> e.id, fields |-> c.value, rows |-> e.body,
                     caption |-> e.caption, comment |-> e.comment]
  OBVIOUS
<1>15. /\ ParseTable(e).ok => c.ok
       /\ c.ok /\ (\A i \in DOMAIN body : Len(body[i]) = Len(c.value))
            /\ Declared(e.rows, Len(body)).ok /\ Declared(e.columns, Len(c.value)).ok
            => ParseTable(e) = Good(v)
  <2>1. e.id /= None /\ e.structure /= None /\ e.body \in Seq(Seq(Cells)) /\ c = ParseStructure(e.structure)
    BY <1>5, <1>7, <1>8, <1>9, <1>10
  <2> QED BY <1>5, <1>14, <2>1, TableIsParsed
<1>16. ASSUME TableSurvives(t)
       PROVE  ParseTable(e) = Good(TableFound(t))
  <2>1. c.ok /\ c.value = fields
    BY <1>12, <1>16, GoodIs
  <2>2. \A i \in DOMAIN body : Len(body[i]) = Len(c.value)
    BY <1>4, <1>7, <1>13, <2>1
  <2>3. Declared(e.rows, Len(body)).ok /\ Declared(e.columns, Len(c.value)).ok
    BY <1>4, <1>5, <1>7, <1>13, <2>1, DeclaredIs
  <2>4. v = [id |-> t.id, fields |-> fields, rows |-> body, caption |-> t.caption, comment |-> t.comment]
    BY <1>5, <1>14, <2>1
  <2>5. TableFound(t) = [t EXCEPT !.fields = fields, !.rows = body]
    BY <1>3, <1>11 DEF TableFound
  <2>6. [t EXCEPT !.fields = fields, !.rows = body] = v
    <3>1. t = [id |-> t.id, fields |-> t.fields, caption |-> t.caption, comment |-> t.comment, rows |-> t.rows]
      BY DEF Tables
    <3>2. PICK u : u = [id |-> t.id, fields |-> fields, caption |-> t.caption, comment |-> t.comment, rows |-> t.rows]
      OBVIOUS
    <3>3. [t EXCEPT !.fields = fields] = u
      BY <3>1, <3>2
    <3>4. [u EXCEPT !.rows = body] = v
      BY <2>4, <3>2
    <3>5. [t EXCEPT !.fields = fields, !.rows = body] = [[t EXCEPT !.fields = fields] EXCEPT !.rows = body]
      OBVIOUS
    <3> QED BY <3>3, <3>4, <3>5
  <2> QED BY <1>15, <2>1, <2>2, <2>3, <2>5, <2>6
<1>17. ParseTable(e).ok => TableSurvives(t)
  BY <1>12, <1>15
<1> QED BY <1>1, <1>16, <1>17

\* What is parsed of a table another program may have changed is a table.
LEMMA TableIsTyped ==
  ASSUME NEW e, e.id \in Opt(Identifiers), e.caption \in Opt(STRING), e.comment \in Opt(STRING),
         e.structure \in Opt({s \in Seq(StructureTexts) : Len(s) \in Lengths}),
         e.body \in {b \in Seq(Seq(Cells)) : Len(b) \in Lengths}
  PROVE  ParseTable(e).ok => ParseTable(e).value \in Tables /\ IsWhole(ParseTable(e).value)
<1> SUFFICES ASSUME ParseTable(e).ok PROVE ParseTable(e).value \in Tables /\ IsWhole(ParseTable(e).value)
  OBVIOUS
<1>1. e.id /= None /\ e.structure /= None
  BY BadIs DEF ParseTable
<1>2. PICK c : c = ParseStructure(e.structure)
  OBVIOUS
<1>3. PICK es \in Seq(StructureTexts) : es = e.structure /\ Len(es) \in Lengths
  BY <1>1 DEF Opt
<1>4. e.body \in Seq(Seq(Cells)) /\ Len(e.body) \in Lengths /\ e.id \in Identifiers
  BY <1>1 DEF Opt
<1>5. PICK v : v = [id |-> e.id, fields |-> c.value, rows |-> e.body,
                    caption |-> e.caption, comment |-> e.comment]
  OBVIOUS
<1>6. c.ok /\ ParseTable(e) = Good(v) /\ \A i \in DOMAIN e.body : Len(e.body[i]) = Len(c.value)
  BY <1>1, <1>2, <1>4, <1>5, TableIsParsed
<1>7. c.value \in Seq(Columns) /\ Len(c.value) = Len(es) /\ es /= <<>>
  BY <1>2, <1>3, <1>6, StructureIsTyped
<1>8. v \in Tables
  BY <1>3, <1>4, <1>5, <1>7 DEF Tables
<1>9. IsWhole(v)
  <2>1. c.value /= <<>>
    BY <1>3, <1>7
  <2> QED BY <1>5, <1>6, <2>1 DEF IsWhole
<1> QED BY <1>6, <1>8, <1>9, GoodIs

LEMMA TablesAre ==
  ASSUME NEW ts \in Seq(Tables), \A i \in DOMAIN ts : IsWhole(ts[i])
  PROVE  Parsed(Each([i \in DOMAIN ts |-> TableElement(ts[i])], ParseTable)) = TablesFound(ts)
<1>1. PICK n \in Nat : n = Len(ts) /\ DOMAIN ts = 1 .. n
  OBVIOUS
<1>2. PICK rs : rs = [i \in 1 .. n |-> ParseTable(TableElement(ts[i]))]
  OBVIOUS
<1>3. Each([i \in DOMAIN ts |-> TableElement(ts[i])], ParseTable) = rs
  BY <1>1, <1>2 DEF Each
<1>4. DOMAIN rs = 1 .. n /\ \A i \in 1 .. n : rs[i] = ParseTable(TableElement(ts[i]))
  BY <1>2
<1>5. \A i \in 1 .. n : /\ rs[i].ok => TableSurvives(ts[i])
                        /\ TableSurvives(ts[i]) => rs[i] = Good(TableFound(ts[i]))
  <2> TAKE i \in 1 .. n
  <2>1. PICK t \in Tables : t = ts[i]
    BY <1>1
  <2>2. IsWhole(t)
    BY <1>1, <2>1
  <2>3. PICK r : r = ParseTable(TableElement(t))
    OBVIOUS
  <2>4. (r.ok => TableSurvives(t)) /\ (TableSurvives(t) => r = Good(TableFound(t)))
    BY <2>2, <2>3, TableIs
  <2> QED BY <1>4, <2>1, <2>3, <2>4
<1>6. PICK keep : keep = {i \in 1 .. n : TableSurvives(ts[i])}
  OBVIOUS
<1>7. GoodOnes(rs) = keep
  <2>1. \A i \in 1 .. n : rs[i].ok <=> TableSurvives(ts[i])
    <3> TAKE i \in 1 .. n
    <3> QED BY <1>5, GoodIs
  <2> QED BY <1>4, <1>6, <2>1 DEF GoodOnes
<1> DEFINE R == {rs[i] : i \in 1 .. n}
<1>8. rs \in Seq(R) /\ Len(rs) = n
  <2>1. rs \in [1 .. n -> R]
    BY <1>2
  <2>2. rs \in Seq(R)
    <3> HIDE DEF R
    <3> QED BY <2>1, SeqDef
  <2>3. Len(rs) = n
    BY <1>2
  <2> QED BY <2>2, <2>3
<1> HIDE DEF R
<1>9. PICK a, b : a = Kept(rs, keep) /\ b = Kept(ts, keep)
  OBVIOUS
<1>10. a \in Seq(R) /\ b \in Seq(Tables) /\ Paired(a, b, rs, ts, keep)
  BY <1>1, <1>8, <1>9, KeptTogether
<1>11. Parsed(rs) = [j \in 1 .. Len(a) |-> a[j].value]
  BY <1>7, <1>8, <1>9, ParsedIs
<1>12. PICK m \in Nat : m = Len(a) /\ m = Len(b) /\ DOMAIN b = 1 .. m
  BY <1>10 DEF Paired
<1>13. TablesFound(ts) = [j \in DOMAIN b |-> TableFound(b[j])]
  <2>1. TablesFound(ts) =
          LET kept == Kept(ts, {i \in DOMAIN ts : TableSurvives(ts[i])})
          IN  [j \in DOMAIN kept |-> TableFound(kept[j])]
    BY DEF TablesFound, Filter
  <2> QED BY <1>1, <1>6, <1>9, <2>1
<1>14. \A j \in 1 .. m : a[j].value = TableFound(b[j])
  <2> TAKE j \in 1 .. m
  <2>1. PICK i \in 1 .. n : i \in keep /\ a[j] = rs[i] /\ b[j] = ts[i]
    BY <1>8, <1>10, <1>12 DEF Paired
  <2>2. rs[i] = Good(TableFound(ts[i]))
    BY <1>5, <1>6, <2>1
  <2> QED BY <2>1, <2>2, GoodIs
<1> QED BY <1>3, <1>11, <1>12, <1>13, <1>14

-----------------------------------------------------------------------------
(* What is associated with an image, found again.                          *)

LEMMA OneIs == \A y : <<y>> = [i \in 1 .. 1 |-> y]
<1> TAKE y
<1>1. <<y>> \in Seq({y}) /\ [i \in 1 .. 1 |-> y] \in Seq({y}) /\ Len(<<y>>) = 1 /\ Len([i \in 1 .. 1 |-> y]) = 1
  OBVIOUS
<1>2. \A i \in 1 .. 1 : <<y>>[i] = [j \in 1 .. 1 |-> y][i]
  OBVIOUS
<1> QED BY <1>1, <1>2, SeqEqual

LEMMA NumberListsAreTexts ==
  ASSUME NEW n \in Nat
  PROVE  \A f \in [1 .. n -> Number] : f \in NumberTexts
<1> TAKE f \in [1 .. n -> Number]
<1>1. \A i \in 1 .. n : f[i] \in Number \cup {Word}
  OBVIOUS
<1>2. f = [i \in 1 .. n |-> f[i]]
  OBVIOUS
<1>3. f \in [1 .. n -> Number \cup {Word}]
  BY <1>1, <1>2
<1>4. f \in Seq(Number \cup {Word})
  BY <1>3, SeqDef
<1> QED BY <1>4 DEF NumberTexts, Opt

LEMMA ResolutionFound ==
  ASSUME NEW x \in Opt(Resolution)
  PROVE  FirstGood(Each(OneOrNone(x), ParseResolution)) =
           Keep(x, LAMBDA r : Positive(r.horizontal) /\ Positive(r.vertical))
<1>1. CASE x = None
  <2>1. OneOrNone(x) = <<>>
    BY <1>1 DEF OneOrNone
  <2>2. Each(<<>>, ParseResolution) = <<>>
    BY DEF Each
  <2> QED BY <1>1, <2>1, <2>2, FirstGoodOfNone DEF Keep
<1>2. CASE x /= None
  <2>1. x \in Resolution
    BY <1>2 DEF Opt
  <2>2. PICK t, p : t = <<x>> /\ p = ParseResolution(x)
    OBVIOUS
  <2>3. DOMAIN t = 1 .. 1 /\ t[1] = x
    BY <2>2
  <2>4. Each(t, ParseResolution) = [i \in 1 .. 1 |-> p]
    <3>1. \A i \in 1 .. 1 : ParseResolution(t[i]) = p
      BY <2>2, <2>3
    <3> QED BY <2>3, <3>1 DEF Each
  <2>5. FirstGood(Each(OneOrNone(x), ParseResolution)) = IF p.ok THEN p.value ELSE None
    BY <1>2, <2>2, <2>4, OneIs, FirstGoodOfOne DEF OneOrNone
  <2>6. /\ p.ok => Positive(x.horizontal) /\ Positive(x.vertical)
        /\ Positive(x.horizontal) /\ Positive(x.vertical) => p = Good(x)
    BY <2>1, <2>2, ResolutionIs, PositiveMeans
  <2> QED BY <1>2, <2>5, <2>6, GoodIs DEF Keep
<1> QED BY <1>1, <1>2

IsFiniteFunction(f) == \A k \in 1 .. 4 : \A v \in {f.m, f.s, f.h, f.l, f.r} : Finite(v[k])

LEMMA FunctionFound ==
  ASSUME NEW x \in Opt(DisplayFunction)
  PROVE  FirstGood(Each(OneOrNone(x), ParseDisplayFunction)) =
           Keep(x, LAMBDA f : \A k \in 1 .. 4 : \A v \in {f.m, f.s, f.h, f.l, f.r} : Finite(v[k]))
<1>1. CASE x = None
  <2>1. OneOrNone(x) = <<>>
    BY <1>1 DEF OneOrNone
  <2>2. Each(<<>>, ParseDisplayFunction) = <<>>
    BY DEF Each
  <2> QED BY <1>1, <2>1, <2>2, FirstGoodOfNone DEF Keep
<1>2. CASE x /= None
  <2>1. x.m \in Quads /\ x.s \in Quads /\ x.h \in Quads /\ x.l \in Quads /\ x.r \in Quads
    BY <1>2 DEF Opt, DisplayFunction
  <2>2. PICK t, p : t = <<x>> /\ p = ParseDisplayFunction(x)
    OBVIOUS
  <2>3. DOMAIN t = 1 .. 1 /\ t[1] = x
    BY <2>2
  <2>4. Each(t, ParseDisplayFunction) = [i \in 1 .. 1 |-> p]
    <3>1. \A i \in 1 .. 1 : ParseDisplayFunction(t[i]) = p
      BY <2>2, <2>3
    <3> QED BY <2>3, <3>1 DEF Each
  <2>5. FirstGood(Each(OneOrNone(x), ParseDisplayFunction)) = IF p.ok THEN p.value ELSE None
    BY <1>2, <2>2, <2>4, OneIs, FirstGoodOfOne DEF OneOrNone
  <2>6. \A v \in Quads : v \in NumberTexts /\ (v \in [1 .. 4 -> Int] <=> \A k \in 1 .. 4 : Finite(v[k]))
    <3> TAKE v \in Quads
    <3>1. v \in NumberTexts
      <4>1. 4 \in Nat
        OBVIOUS
      <4> QED BY <4>1, NumberListsAreTexts DEF Quads
    <3>2. v = [k \in 1 .. 4 |-> v[k]]
      BY DEF Quads
    <3>3. v \in [1 .. 4 -> Int] <=> \A k \in 1 .. 4 : v[k] \in Int
      BY <3>2
    <3> QED BY <3>1, <3>3 DEF Finite
  <2>7. IsFiniteFunction(x) <=> \A v \in {x.m, x.s, x.h, x.l, x.r} : v \in [1 .. 4 -> Int]
    BY <2>1, <2>6 DEF IsFiniteFunction
  <2>8. /\ p.ok => IsFiniteFunction(x)
        /\ IsFiniteFunction(x) => p = Good(x)
    BY <2>1, <2>2, <2>6, <2>7, FunctionIs
  <2>9. Keep(x, LAMBDA f : \A k \in 1 .. 4 : \A v \in {f.m, f.s, f.h, f.l, f.r} : Finite(v[k])) =
          IF IsFiniteFunction(x) THEN x ELSE None
    BY <1>2 DEF Keep, IsFiniteFunction
  <2> QED BY <2>5, <2>8, <2>9, GoodIs
<1> QED BY <1>1, <1>2

LEMMA FilterFound ==
  ASSUME NEW x \in Opt(FilterArray)
  PROVE  FirstGood(Each(OneOrNone(x), ParseFilterArray)) =
           Keep(x, LAMBDA f : f.width * f.height = Len(f.pattern) /\ f.pattern /= <<>>)
<1>1. CASE x = None
  <2>1. OneOrNone(x) = <<>>
    BY <1>1 DEF OneOrNone
  <2>2. Each(<<>>, ParseFilterArray) = <<>>
    BY DEF Each
  <2> QED BY <1>1, <2>1, <2>2, FirstGoodOfNone DEF Keep
<1>2. CASE x /= None
  <2>1. /\ x.pattern \in Seq(CfaElements) /\ x.width \in Lengths /\ x.height \in Lengths
        /\ Len(x.pattern) \in Lengths
    BY <1>2 DEF Opt, FilterArray
  <2>2. PICK t, p : t = <<x>> /\ p = ParseFilterArray(x)
    OBVIOUS
  <2>3. DOMAIN t = 1 .. 1 /\ t[1] = x
    BY <2>2
  <2>4. Each(t, ParseFilterArray) = [i \in 1 .. 1 |-> p]
    <3>1. \A i \in 1 .. 1 : ParseFilterArray(t[i]) = p
      BY <2>2, <2>3
    <3> QED BY <2>3, <3>1 DEF Each
  <2>5. FirstGood(Each(OneOrNone(x), ParseFilterArray)) = IF p.ok THEN p.value ELSE None
    BY <1>2, <2>2, <2>4, OneIs, FirstGoodOfOne DEF OneOrNone
  <2>6. x.pattern \in Seq(CfaElements \cup {Word}) /\ \A i \in DOMAIN x.pattern : x.pattern[i] \in CfaElements
    BY <2>1
  <2>7. x.pattern \in Opt(Seq(CfaElements \cup {Word})) /\ x.pattern /= None
    BY <2>6, AbsenceAssumption DEF Opt
  <2> DEFINE good == x.width * x.height = Len(x.pattern) /\ x.pattern /= <<>>
  <2>8. good => x.width \in 1 .. MaxWord /\ x.height \in 1 .. MaxWord /\ Len(x.pattern) <= MaxWord
    <3>1. PICK w \in Nat, h \in Nat : w = x.width /\ h = x.height /\ w <= MaxWord /\ h <= MaxWord
      BY <2>1, BoundAssumption DEF Lengths
    <3>2. PICK l \in Nat : l = Len(x.pattern) /\ l <= MaxWord
      BY <2>1, BoundAssumption DEF Lengths
    <3>3. x.pattern /= <<>> => l /= 0
      BY <2>1, <3>2
    <3>4. w = 0 \/ h = 0 => w * h = 0
      BY <3>1
    <3>5. good => w /= 0 /\ h /= 0
      BY <3>1, <3>2, <3>3, <3>4
    <3> QED BY <3>1, <3>2, <3>5, BoundAssumption
  <2>9. x.width \in 1 .. MaxWord /\ x.height \in 1 .. MaxWord /\ x.width * x.height = Len(x.pattern) => good
    <3>1. \A w, h \in 1 .. MaxWord : w * h /= 0
      BY BoundAssumption
    <3>2. x.pattern = <<>> => Len(x.pattern) = 0
      OBVIOUS
    <3> QED BY <3>1, <3>2
  <2>10. (p.ok => good) /\ (good => p = Good(x))
    BY <2>2, <2>6, <2>7, <2>8, <2>9, FilterIs
  <2>11. Keep(x, LAMBDA f : f.width * f.height = Len(f.pattern) /\ f.pattern /= <<>>) =
           IF good THEN x ELSE None
    BY <1>2 DEF Keep
  <2> HIDE DEF good
  <2> QED BY <2>5, <2>10, <2>11, GoodIs
<1> QED BY <1>1, <1>2

LEMMA SpaceFound ==
  ASSUME NEW x \in Opt(WorkingSpace), NEW z, z = Optional(x, WorkingSpaceElement), z.ok
  PROVE  FirstGood(Each(OneOrNone(z.value), ParseWorkingSpace)) =
           AsDerived(Keep(x, LAMBDA s : s.gamma.srgb \/ Positive(s.gamma.exponent)))
<1>1. CASE x = None
  <2>1. z.value = None
    BY <1>1, GoodIs DEF Optional
  <2>2. OneOrNone(None) = <<>>
    BY DEF OneOrNone
  <2>3. Each(<<>>, ParseWorkingSpace) = <<>>
    BY DEF Each
  <2> QED BY <1>1, <2>1, <2>2, <2>3, FirstGoodOfNone DEF Keep, AsDerived
<1>2. CASE x /= None
  <2>1. x \in WorkingSpace /\ z = WorkingSpaceElement(x)
    BY <1>2 DEF Opt, Optional
  <2>2. PICK d : d = z.value
    OBVIOUS
  <2>3. /\ d \in WorkingSpace /\ d.x \in Places /\ d.y \in Places /\ d.Y \in Places /\ d.gamma = x.gamma
    BY <2>1, <2>2, DerivedIs
  <2>4. d /= None
    BY <2>3, AbsenceAssumption
  <2>5. PICK t, p : t = <<d>> /\ p = ParseWorkingSpace(d)
    OBVIOUS
  <2>6. DOMAIN t = 1 .. 1 /\ t[1] = d
    BY <2>5
  <2>7. Each(t, ParseWorkingSpace) = [i \in 1 .. 1 |-> p]
    <3>1. \A i \in 1 .. 1 : ParseWorkingSpace(t[i]) = p
      BY <2>5, <2>6
    <3> QED BY <2>6, <3>1 DEF Each
  <2>8. FirstGood(Each(OneOrNone(d), ParseWorkingSpace)) = IF p.ok THEN p.value ELSE None
    BY <2>4, <2>5, <2>7, OneIs, FirstGoodOfOne DEF OneOrNone
  <2>9. d.x \in NumberTexts /\ d.y \in NumberTexts /\ d.Y \in NumberTexts
    <3>1. d.x \in Triples /\ d.y \in Triples /\ d.Y \in Triples
      BY <2>3 DEF WorkingSpace
    <3>2. 3 \in Nat
      OBVIOUS
    <3> QED BY <3>1, <3>2, NumberListsAreTexts DEF Triples
  <2>10. d.gamma \in [srgb : BOOLEAN, exponent : Opt(Number)] /\ d.gamma /= None
    <3>1. d.gamma \in [srgb : BOOLEAN, exponent : Opt(Number)]
      BY <2>3 DEF WorkingSpace
    <3> QED BY <3>1, AbsenceAssumption
  <2> DEFINE good == x.gamma.srgb \/ Positive(x.gamma.exponent)
  <2>11. (p.ok => good) /\ (good => p = Good(d))
    <3>1. d.gamma \in Opt([srgb : BOOLEAN, exponent : Opt(Number)])
      BY <2>10 DEF Opt
    <3> QED BY <2>3, <2>5, <2>9, <2>10, <3>1, SpaceIs DEF Places
  <2>12. Keep(x, LAMBDA s : s.gamma.srgb \/ Positive(s.gamma.exponent)) = IF good THEN x ELSE None
    BY <1>2 DEF Keep
  <2>13. AsDerived(x) = d /\ AsDerived(None) = None
    BY <1>2, <2>1, <2>2 DEF AsDerived
  <2> HIDE DEF good
  <2> QED BY <2>2, <2>8, <2>11, <2>12, <2>13, GoodIs
<1> QED BY <1>1, <1>2

\* What is shown of an image.
ShownOf(i, b, k, r, s, f, c, g, t, v, ts) ==
  [image |-> i, block |-> b, keywords |-> k, resolution |-> r, space |-> s, function |-> f,
   filter |-> c, profiles |-> g, thumbnail |-> t, previews |-> v, tables |-> ts]

LEMMA ShownIs ==
  ASSUME NEW i, NEW b, NEW l, NEW k, NEW r, NEW s, NEW f, NEW c, NEW g, NEW t, NEW v, NEW ts
  PROVE  Shown([image |-> i, block |-> b, location |-> l, keywords |-> k, resolution |-> r, space |-> s,
                function |-> f, filter |-> c, profiles |-> g, thumbnail |-> t, previews |-> v, tables |-> ts])
           = ShownOf(i, b, k, r, s, f, c, g, t, v, ts)
<1>1. PICK x : x = [image |-> i, block |-> b, location |-> l, keywords |-> k, resolution |-> r, space |-> s,
                function |-> f, filter |-> c, profiles |-> g, thumbnail |-> t, previews |-> v, tables |-> ts]
  OBVIOUS
<1>2. PICK y : y = ShownOf(i, b, k, r, s, f, c, g, t, v, ts)
  OBVIOUS
<1> DEFINE D == {"image", "block", "keywords", "resolution", "space", "function", "filter", "profiles",
                 "thumbnail", "previews", "tables"}
<1>3. DOMAIN x \ {"location"} = D
  BY <1>1
<1>4. y = [d \in D |-> y[d]]
  BY <1>2 DEF ShownOf
<1>5. \A d \in D : x[d] = y[d]
  BY <1>1, <1>2 DEF ShownOf
<1> HIDE DEF D
<1>6. Shown(x) = [d \in D |-> x[d]]
  BY <1>3 DEF Shown
<1>7. [d \in D |-> x[d]] = [d \in D |-> y[d]]
  BY <1>5
<1> QED BY <1>1, <1>2, <1>4, <1>6, <1>7

LEMMA ShownWith ==
  ASSUME NEW i, NEW b, NEW k, NEW r, NEW s, NEW f, NEW c, NEW g, NEW t, NEW v, NEW ts, NEW u
  PROVE  [ShownOf(i, b, k, r, s, f, c, g, t, v, ts) EXCEPT !.space = u] = ShownOf(i, b, k, r, u, f, c, g, t, v, ts)
BY DEF ShownOf

\* What add_image says of what it takes.
IsAccepted(p) ==
  /\ p.thumbnail /= None => p.thumbnail.image.bounds = None
  /\ \A i \in DOMAIN p.tables : IsWhole(p.tables[i])

Rendered(p, n, k, z) ==
  [element |-> ImageElement(p.image), block |-> BlockAttrs(p), location |-> LocationText(n, k[1]),
   keywords |-> p.keywords, resolutions |-> OneOrNone(p.resolution),
   spaces |-> OneOrNone(z.value), functions |-> OneOrNone(p.function), filters |-> OneOrNone(p.filter),
   profiles |-> IF p.profile = None THEN <<>> ELSE <<BlockElement(Profile(p), n, k[2])>>,
   thumbnails |-> IF p.thumbnail = None THEN <<>> ELSE <<ThumbnailElement(p.thumbnail.image)>>,
   previews |-> IF p.thumbnail = None THEN <<>> ELSE <<BlockElement(p.thumbnail, n, k[3])>>,
   tables |-> [i \in DOMAIN p.tables |-> TableElement(p.tables[i])]]

LEMMA RenderedIs ==
  ASSUME NEW p, NEW n, NEW k, NEW r, r = RenderImage(p, n, k), r.ok,
         NEW z, z = Optional(p.space, WorkingSpaceElement)
  PROVE  z.ok /\ r.value = Rendered(p, n, k, z)
<1>1. PICK v : v = Rendered(p, n, k, z)
  OBVIOUS
<1>2. r = Try(<<z>>, v)
  BY <1>1 DEF RenderImage, Rendered
<1>3. PICK s : s = <<z>>
  OBVIOUS
<1>4. DOMAIN s \subseteq Nat /\ (AllOk(s) <=> z.ok)
  BY <1>3, AllOkOf
<1> QED BY <1>1, <1>2, <1>3, <1>4, TryHolds, GoodIs

\* The attributes of an element's data can be read, and those of its parts, of which there is
\* at most one.
HasData(e) == ParseBlock(e.block).ok /\ ParseLocation(e.location).ok

OneWithData(es) == es = <<>> \/ \E e : HasData(e) /\ es = <<e>>

LEMMA BlockIsFound ==
  ASSUME NEW b, IsBlock(b), NEW n \in Names \cup {None}, NEW k \in 0 .. 15
  PROVE  LET e == BlockElement(b, n, k)
         IN  /\ HasData(e) /\ ParseBlock(e.block) = Good(BlockFound(b))
             /\ OneWithData(<<e>>) /\ DataOf(<<e>>) = <<BlockFound(b)>>
<1>1. PICK e : e = BlockElement(b, n, k)
  OBVIOUS
<1>2. e.block = BlockAttrs(b) /\ e.location = LocationText(n, k)
  BY <1>1 DEF BlockElement
<1>3. ParseBlock(e.block) = Good(BlockFound(b))
  BY <1>2, BlockIsDescribed DEF IsBlock, BlockFound
<1>4. HasData(e)
  BY <1>2, <1>3, LocationIs, GoodIs DEF HasData
<1>5. DataOf(<<e>>) = <<BlockFound(b)>>
  <2>1. PICK es, x : es = <<e>> /\ x = BlockFound(b)
    OBVIOUS
  <2>2. DOMAIN es = 1 .. 1 /\ \A i \in 1 .. 1 : ParseBlock(es[i].block).value = x
    BY <1>3, <2>1, GoodIs
  <2>3. DataOf(es) = [i \in 1 .. 1 |-> x]
    BY <2>2 DEF DataOf
  <2> QED BY <2>1, <2>3, OneIs
<1> QED BY <1>1, <1>3, <1>4, <1>5 DEF OneWithData

LEMMA NothingFound == OneWithData(<<>>) /\ DataOf(<<>>) = <<>>
BY DEF OneWithData, DataOf

LEMMA ProfileIs ==
  ASSUME NEW p
  PROVE  IsBlock(Profile(p)) /\ BlockFound(Profile(p)) = Unasked
<1>1. PICK b, o : b = Profile(p) /\ o = Unasked
  OBVIOUS
<1>2. b.options = o /\ o.compression = None /\ o.checksum = None
  BY <1>1 DEF Profile, Unasked
<1>3. StoredCompression(b) = None /\ StoredChecksum(b) = None
  BY <1>2 DEF StoredCompression, StoredChecksum
<1> QED BY <1>1, <1>2, <1>3 DEF IsBlock, BlockFound, Unasked, Opt

\* An image of a unit is found as it was given, if it can be described.
LEMMA ImageIsFound ==
  ASSUME NEW p, IsPending(p), IsAccepted(p), NEW n \in Names \cup {None}, NEW k \in [1 .. 3 -> 0 .. 15],
         NEW r, r = RenderImage(p, n, k), r.ok, NEW e, e = r.value
  PROVE  /\ HasData(e) /\ OneWithData(e.profiles) /\ OneWithData(e.previews)
         /\ ParseImage(e.element).ok <=> Describable(p.image)
         /\ Describable(p.image) => Shown(ImageOf(e)) = [ImageFound(p) EXCEPT !.space = AsDerived(@)]
         /\ n /= None => ImageOf(e).location.locator =
                           [token |-> TRUE, name |-> n.trimmed, climbs |-> n.dots]
<1>1. PICK z : z = Optional(p.space, WorkingSpaceElement)
  OBVIOUS
<1>2. PICK v : v = Rendered(p, n, k, z)
  OBVIOUS
<1>3. z.ok /\ e = v
  BY <1>1, <1>2, RenderedIs
<1>4. ParseBlock(e.block) = Good(BlockFound(p))
  <2>1. e.block = BlockAttrs(p)
    BY <1>2, <1>3 DEF Rendered
  <2> QED BY <2>1, BlockIsDescribed DEF IsPending, IsBlock, BlockFound
<1>5. PICK l : l = ParseLocation(e.location)
  OBVIOUS
<1>6. l.ok /\ (n /= None => l.value.locator = [token |-> TRUE, name |-> n.trimmed, climbs |-> n.dots])
  <2>1. e.location = LocationText(n, k[1])
    BY <1>2, <1>3 DEF Rendered
  <2> QED BY <1>5, <2>1, LocationIs
<1>7. PICK i \in Image : i = p.image
  BY DEF IsPending
<1>8. /\ ParseImage(e.element).ok => Describable(i)
      /\ Describable(i) => ParseImage(e.element) = Good(AsTyped(i))
  <2>1. e.element = ImageElement(i)
    BY <1>2, <1>3, <1>7 DEF Rendered
  <2> QED BY <2>1, ImageIsDescribed
<1>9. FirstGood(Each(e.resolutions, ParseResolution)) =
        Keep(p.resolution, LAMBDA x : Positive(x.horizontal) /\ Positive(x.vertical))
  <2>1. e.resolutions = OneOrNone(p.resolution) /\ p.resolution \in Opt(Resolution)
    BY <1>2, <1>3 DEF IsPending, Rendered
  <2> QED BY <2>1, ResolutionFound
<1>10. FirstGood(Each(e.spaces, ParseWorkingSpace)) =
         AsDerived(Keep(p.space, LAMBDA x : x.gamma.srgb \/ Positive(x.gamma.exponent)))
  <2>1. e.spaces = OneOrNone(z.value) /\ p.space \in Opt(WorkingSpace)
    BY <1>2, <1>3 DEF IsPending, Rendered
  <2> QED BY <1>1, <1>3, <2>1, SpaceFound
<1>11. FirstGood(Each(e.functions, ParseDisplayFunction)) =
         Keep(p.function, LAMBDA f : \A j \in 1 .. 4 : \A x \in {f.m, f.s, f.h, f.l, f.r} : Finite(x[j]))
  <2>1. e.functions = OneOrNone(p.function) /\ p.function \in Opt(DisplayFunction)
    BY <1>2, <1>3 DEF IsPending, Rendered
  <2> QED BY <2>1, FunctionFound
<1>12. FirstGood(Each(e.filters, ParseFilterArray)) =
         Keep(p.filter, LAMBDA f : f.width * f.height = Len(f.pattern) /\ f.pattern /= <<>>)
  <2>1. e.filters = OneOrNone(p.filter) /\ p.filter \in Opt(FilterArray)
    BY <1>2, <1>3 DEF IsPending, Rendered
  <2> QED BY <2>1, FilterFound
<1>13. ParseThumbnail(e.thumbnails) = PreviewFound(p.thumbnail)
  <2>1. CASE p.thumbnail = None
    <3>1. e.thumbnails = <<>>
      BY <1>2, <1>3, <2>1 DEF Rendered
    <3> QED BY <2>1, <3>1 DEF ParseThumbnail, PreviewFound
  <2>2. CASE p.thumbnail /= None
    <3>1. PICK t \in Image : t = p.thumbnail.image /\ t.bounds = None
      BY <2>2 DEF IsPending, IsAccepted
    <3>2. e.thumbnails = <<ThumbnailElement(t)>>
      BY <1>2, <1>3, <2>2, <3>1 DEF Rendered
    <3> QED BY <2>2, <3>1, <3>2, ThumbnailIsShown DEF PreviewFound
  <2> QED BY <2>1, <2>2
<1>14. Parsed(Each(e.tables, ParseTable)) = TablesFound(p.tables)
  <2>1. PICK ts \in Seq(Tables) : ts = p.tables
    BY DEF IsPending
  <2>2. e.tables = [j \in DOMAIN ts |-> TableElement(ts[j])]
    BY <1>2, <1>3, <2>1 DEF Rendered
  <2>3. \A j \in DOMAIN ts : IsWhole(ts[j])
    BY <2>1 DEF IsAccepted
  <2> QED BY <2>1, <2>2, <2>3, TablesAre
<1>23. /\ OneWithData(e.profiles)
       /\ DataOf(e.profiles) = IF p.profile = None THEN <<>> ELSE <<Unasked>>
  <2>1. e.profiles = IF p.profile = None THEN <<>> ELSE <<BlockElement(Profile(p), n, k[2])>>
    BY <1>2, <1>3 DEF Rendered
  <2>2. k[2] \in 0 .. 15
    OBVIOUS
  <2> QED BY <2>1, <2>2, ProfileIs, BlockIsFound, NothingFound
<1>24. /\ OneWithData(e.previews)
       /\ p.thumbnail /= None => DataOf(e.previews) = <<BlockFound(p.thumbnail)>>
  <2>1. e.previews = IF p.thumbnail = None THEN <<>> ELSE <<BlockElement(p.thumbnail, n, k[3])>>
    BY <1>2, <1>3 DEF Rendered
  <2>2. p.thumbnail /= None => IsBlock(p.thumbnail)
    BY DEF IsPending
  <2>3. k[3] \in 0 .. 15
    OBVIOUS
  <2> QED BY <2>1, <2>2, <2>3, BlockIsFound, NothingFound
<1>25. (IF ParseThumbnail(e.thumbnails) = None THEN <<>> ELSE DataOf(e.previews)) =
         IF PreviewFound(p.thumbnail) = None THEN <<>> ELSE <<BlockFound(p.thumbnail)>>
  <2>1. p.thumbnail = None => PreviewFound(p.thumbnail) = None
    BY DEF PreviewFound
  <2> QED BY <1>13, <1>24, <2>1
<1>15. PICK b, c, f, h, s, t, ts, q, g, w :
         /\ b = BlockFound(p)
         /\ c = Keep(p.resolution, LAMBDA x : Positive(x.horizontal) /\ Positive(x.vertical))
         /\ s = Keep(p.space, LAMBDA x : x.gamma.srgb \/ Positive(x.gamma.exponent))
         /\ f = Keep(p.function, LAMBDA d : \A j \in 1 .. 4 : \A x \in {d.m, d.s, d.h, d.l, d.r} : Finite(x[j]))
         /\ h = Keep(p.filter, LAMBDA d : d.width * d.height = Len(d.pattern) /\ d.pattern /= <<>>)
         /\ t = PreviewFound(p.thumbnail)
         /\ ts = TablesFound(p.tables)
         /\ q = p.keywords
         /\ g = IF p.profile = None THEN <<>> ELSE <<Unasked>>
         /\ w = IF PreviewFound(p.thumbnail) = None THEN <<>> ELSE <<BlockFound(p.thumbnail)>>
  OBVIOUS
<1>16. ImageFound(p) = ShownOf(AsTyped(i), b, q, c, s, f, h, g, t, w, ts)
  BY <1>7, <1>15 DEF ImageFound, ShownOf
<1>17. PICK y : y = ParseImage(e.element).value
  OBVIOUS
<1>18. ImageOf(e) = [image |-> y, block |-> b, location |-> l.value, keywords |-> q, resolution |-> c,
                     space |-> AsDerived(s), function |-> f, filter |-> h, profiles |-> g,
                     thumbnail |-> t, previews |-> w, tables |-> ts]
  <2>1. ParseBlock(e.block).value = b
    BY <1>4, <1>15, GoodIs
  <2>2. e.keywords = q
    BY <1>2, <1>3, <1>15 DEF Rendered
  <2>3. /\ FirstGood(Each(e.resolutions, ParseResolution)) = c
        /\ FirstGood(Each(e.spaces, ParseWorkingSpace)) = AsDerived(s)
        /\ FirstGood(Each(e.functions, ParseDisplayFunction)) = f
        /\ FirstGood(Each(e.filters, ParseFilterArray)) = h
        /\ ParseThumbnail(e.thumbnails) = t
        /\ Parsed(Each(e.tables, ParseTable)) = ts
    BY <1>9, <1>10, <1>11, <1>12, <1>13, <1>14, <1>15
  <2>4. DataOf(e.profiles) = g /\ (IF ParseThumbnail(e.thumbnails) = None THEN <<>> ELSE DataOf(e.previews)) = w
    BY <1>15, <1>23, <1>25
  <2> QED BY <1>5, <1>17, <2>1, <2>2, <2>3, <2>4 DEF ImageOf
<1>19. Shown(ImageOf(e)) = ShownOf(y, b, q, c, AsDerived(s), f, h, g, t, w, ts)
  BY <1>18, ShownIs
<1>20. [ImageFound(p) EXCEPT !.space = AsDerived(@)] = ShownOf(AsTyped(i), b, q, c, AsDerived(s), f, h, g, t, w, ts)
  <2>1. ImageFound(p).space = s
    BY <1>16 DEF ShownOf
  <2> QED BY <1>16, <2>1, ShownWith
<1>21. Describable(i) => y = AsTyped(i)
  BY <1>8, <1>17, GoodIs
<1>22. ImageOf(e).location = l.value
  BY <1>18
<1>26. HasData(e)
  BY <1>4, <1>5, <1>6, GoodIs DEF HasData
<1>27. n /= None => ImageOf(e).location.locator = [token |-> TRUE, name |-> n.trimmed, climbs |-> n.dots]
  BY <1>6, <1>22
<1>28. /\ ParseImage(e.element).ok <=> Describable(p.image)
       /\ Describable(p.image) => Shown(ImageOf(e)) = [ImageFound(p) EXCEPT !.space = AsDerived(@)]
  BY <1>7, <1>8, <1>19, <1>20, <1>21, GoodIs
<1> QED BY <1>23, <1>24, <1>26, <1>27, <1>28

-----------------------------------------------------------------------------
(* What is parsed of a header another program may have changed.            *)

LEMMA GeometryIsTyped ==
  ASSUME NEW f \in Seq(Int \cup {Word}), ParseGeometry(f).ok
  PROVE  \E d \in Seq(Lengths), c \in Lengths :
           /\ ParseGeometry(f) = Good([dimensions |-> d, channels |-> c])
           /\ d /= <<>> /\ c > 0 /\ \A i \in DOMAIN d : d[i] > 0
<1>1. PICK n \in Nat : n = Len(f) /\ DOMAIN f = 1 .. n
  OBVIOUS
<1>2. PICK each : each = [i \in 1 .. n |-> ParseU64(f[i])]
  OBVIOUS
<1>3. PICK last : last = <<Check(n >= 2, "BadAttribute"), Check(\A i \in 1 .. n : f[i] /= 0, "BadAttribute")>>
  OBVIOUS
<1>4. PICK v : v = [dimensions |-> Front(f), channels |-> Last(f)]
  OBVIOUS
<1>5. ParseGeometry(f) = Try(each \o last, v)
  BY <1>1, <1>2, <1>3, <1>4 DEF ParseGeometry
<1>6. each \in Seq({each[i] : i \in 1 .. n}) /\ last \in Seq({last[1], last[2]})
  BY <1>2, <1>3
<1>7. DOMAIN (each \o last) \subseteq Nat /\ (AllOk(each \o last) <=> AllOk(each) /\ AllOk(last))
  BY <1>6, AllOkBehind
<1>8. AllOk(each) /\ AllOk(last) /\ ParseGeometry(f) = Good(v)
  BY <1>5, <1>7, TryHolds
<1>9. \A i \in 1 .. n : f[i] \in Lengths
  <2> TAKE i \in 1 .. n
  <2>1. ParseU64(f[i]).ok
    BY <1>2, <1>8 DEF AllOk
  <2> QED BY <2>1, BadIs DEF ParseU64, Lengths
<1>10. n >= 2 /\ \A i \in 1 .. n : f[i] /= 0
  <2>1. Check(n >= 2, "BadAttribute").ok /\ Check(\A i \in 1 .. n : f[i] /= 0, "BadAttribute").ok
    BY <1>3, <1>8, AllOkOf
  <2> QED BY <2>1, BadIs DEF Check
<1>11. Front(f) = [i \in 1 .. n - 1 |-> f[i]] /\ Last(f) = f[n]
  BY <1>1, <1>10 DEF Front, Last
<1>12. PICK d : d = [i \in 1 .. n - 1 |-> f[i]]
  OBVIOUS
<1>13. d \in Seq(Lengths) /\ Len(d) = n - 1 /\ DOMAIN d = 1 .. n - 1 /\ \A i \in 1 .. n - 1 : d[i] = f[i]
  BY <1>9, <1>10, <1>12
<1>14. d /= <<>>
  BY <1>10, <1>13
<1>15. \A i \in 1 .. n : f[i] > 0
  BY <1>9, <1>10, BoundAssumption DEF Lengths
<1>16. PICK c \in Lengths : c = f[n] /\ c > 0
  BY <1>9, <1>10, <1>15
<1>17. ParseGeometry(f) = Good([dimensions |-> d, channels |-> c])
  BY <1>4, <1>8, <1>11, <1>12, <1>16
<1>18. \A i \in DOMAIN d : d[i] > 0
  BY <1>13, <1>15
<1> QED BY <1>13, <1>14, <1>16, <1>17, <1>18

LEMMA BoundsAreTyped ==
  ASSUME NEW b \in Opt(Seq(Number \cup {Word})), NEW r, r = Optional(b, ParseBounds), r.ok
  PROVE  \/ r.value = None
         \/ \E l, h \in Int : l < h /\ r.value = [low |-> l, high |-> h]
<1>1. CASE b = None
  BY <1>1, GoodIs DEF Optional
<1>2. CASE b /= None
  <2>1. PICK f \in Seq(Number \cup {Word}) : f = b
    BY <1>2 DEF Opt
  <2>2. PICK n \in Nat : n = Len(f) /\ DOMAIN f = 1 .. n
    OBVIOUS
  <2>3. PICK first, each, last :
          /\ first = <<Check(n = 2, "BadAttribute")>>
          /\ each = [i \in 1 .. n |-> ParseFinite(f[i])]
          /\ last = <<Check(n = 2 /\ (\A i \in 1 .. n : Finite(f[i])) /\ f[1] < f[2], "BadAttribute")>>
    OBVIOUS
  <2>4. r = Try(first \o each \o last, [low |-> f[1], high |-> f[2]])
    BY <1>2, <2>1, <2>2, <2>3 DEF Optional, ParseBounds
  <2>5. first \in Seq({first[1]}) /\ each \in Seq({each[i] : i \in 1 .. n}) /\ last \in Seq({last[1]})
    BY <2>3
  <2>6. first \o each \in Seq({first[1]} \cup {each[i] : i \in 1 .. n})
    BY <2>5
  <2>7. /\ DOMAIN (first \o each \o last) \subseteq Nat
        /\ AllOk(first \o each \o last) <=> AllOk(first \o each) /\ AllOk(last)
    BY <2>5, <2>6, AllOkBehind
  <2>8. AllOk(last) /\ r = Good([low |-> f[1], high |-> f[2]])
    BY <2>4, <2>7, TryHolds
  <2>9. n = 2 /\ (\A i \in 1 .. n : Finite(f[i])) /\ f[1] < f[2]
    <3>1. Check(n = 2 /\ (\A i \in 1 .. n : Finite(f[i])) /\ f[1] < f[2], "BadAttribute").ok
      BY <2>3, <2>8, AllOkOf
    <3> QED BY <3>1, BadIs DEF Check
  <2>10. f[1] \in Int /\ f[2] \in Int
    BY <2>9 DEF Finite
  <2> QED BY <2>8, <2>9, <2>10, GoodIs
<1> QED BY <1>1, <1>2

LEMMA OffsetIsTyped ==
  ASSUME NEW o, NEW r, r = Optional(o, ParseOffset), r.ok
  PROVE  r.value = None \/ (r.value \in Int /\ r.value >= 0)
<1>1. CASE o = None
  BY <1>1, GoodIs DEF Optional
<1>2. CASE o /= None
  <2>1. PICK s : s = <<ParseFinite(o), Check(Finite(o) /\ o >= 0, "BadAttribute")>>
    OBVIOUS
  <2>2. r = Try(s, o) /\ DOMAIN s \subseteq Nat
    BY <1>2, <2>1 DEF Optional, ParseOffset
  <2>3. AllOk(s) /\ r = Good(o)
    BY <2>2, TryHolds
  <2>4. Check(Finite(o) /\ o >= 0, "BadAttribute").ok
    BY <2>1, <2>3, AllOkOf
  <2>5. Finite(o) /\ o >= 0
    BY <2>4, BadIs DEF Check
  <2> QED BY <2>3, <2>5, GoodIs DEF Finite
<1> QED BY <1>1, <1>2

LEMMA OrientationIsTyped ==
  ASSUME NEW o \in Opt([rotation : Opt(Int), flip : BOOLEAN]), NEW r, r = Optional(o, ParseOrientation), r.ok
  PROVE  \/ r.value = None
         \/ \E t \in Rotations, f \in BOOLEAN : r.value = [rotation |-> t, flip |-> f]
<1>1. CASE o = None
  BY <1>1, GoodIs DEF Optional
<1>2. CASE o /= None
  <2>1. o.flip \in BOOLEAN
    BY <1>2 DEF Opt
  <2>2. PICK t : t = IF o.rotation = None THEN 0 ELSE o.rotation
    OBVIOUS
  <2>3. PICK s : s = <<Check(t \in Rotations, "BadAttribute"),
                       Check(o.rotation = None => o.flip, "BadAttribute")>>
    OBVIOUS
  <2>4. r = Try(s, [rotation |-> t, flip |-> o.flip]) /\ DOMAIN s \subseteq Nat
    BY <1>2, <2>2, <2>3 DEF Optional, ParseOrientation, Rotations
  <2>5. AllOk(s) /\ r = Good([rotation |-> t, flip |-> o.flip])
    BY <2>4, TryHolds
  <2>6. Check(t \in Rotations, "BadAttribute").ok
    BY <2>3, <2>5, AllOkOf
  <2>7. t \in Rotations
    BY <2>6, BadIs DEF Check
  <2> QED BY <2>1, <2>5, <2>7, GoodIs
<1> QED BY <1>1, <1>2

\* An element whose texts are of their types.
FitsTexts(x, texts) == \A field \in DOMAIN texts : field \in DOMAIN x /\ x[field] \in texts[field]

IsTypedImage(e) ==
  /\ e.geometry \in Opt(Seq(Int \cup {Word})) /\ e.bounds \in Opt(Seq(Number \cup {Word}))
  /\ e.id \in Opt(Identifiers) /\ e.uuid \in Opt(Seq(Seq(Int))) /\ e.imageType \in Opt(STRING)
  /\ e.orientation \in Opt([rotation : Opt(Int), flip : BOOLEAN])

LEMMA TypedImages ==
  ASSUME NEW e, FitsTexts(e, ImageTexts)
  PROVE  IsTypedImage(e)
<1>1. \A field \in {"geometry", "bounds", "id", "uuid", "imageType", "orientation"} :
        e[field] \in ImageTexts[field]
  BY DEF FitsTexts, ImageTexts
<1>2. /\ e["geometry"] \in ImageTexts["geometry"] /\ e["bounds"] \in ImageTexts["bounds"]
      /\ e["id"] \in ImageTexts["id"] /\ e["uuid"] \in ImageTexts["uuid"]
      /\ e["imageType"] \in ImageTexts["imageType"]
      /\ e["orientation"] \in ImageTexts["orientation"]
  BY <1>1
<1> QED BY <1>2 DEF IsTypedImage, ImageTexts

\* What is parsed of an image can be described, and is read from its description as it is.
LEMMA ImageIsTyped ==
  ASSUME NEW e, IsTypedImage(e), ParseImage(e).ok, NEW v, v = ParseImage(e).value
  PROVE  v \in Image /\ Describable(v) /\ AsTyped(v) = v
<1>1. PICK g, f, c, t, b, o, a :
        /\ g = Present(e.geometry, ParseGeometry)
        /\ f = Present(e.sampleFormat, LAMBDA x : Known(Formats, x, "Unsupported"))
        /\ c = IF e.colorSpace = None THEN Good("Gray") ELSE Known(ColorSpaces, e.colorSpace, "Unsupported")
        /\ t = IF e.pixelStorage = None THEN Good("Planar") ELSE Known(Storages, e.pixelStorage, "Unsupported")
        /\ b = Optional(e.bounds, ParseBounds) /\ o = Optional(e.offset, ParseOffset)
        /\ a = Optional(e.orientation, ParseOrientation)
  OBVIOUS
<1>2. PICK s : s = ImageSteps(e)
  OBVIOUS
<1>3. s = <<g, f, c, t, b, o, a>>
  BY <1>1, <1>2 DEF ImageSteps
<1>4. s[1] = g /\ s[2] = f /\ s[3] = c /\ s[4] = t /\ s[5] = b /\ s[6] = o /\ s[7] = a
  BY <1>3
<1>5. PICK y : y = IF e.imageType = None THEN None ELSE ParseImageType(e.imageType)
  OBVIOUS
<1>6. PICK u : u = [dimensions |-> g.value.dimensions, channels |-> g.value.channels, format |-> f.value,
                    space |-> c.value, storage |-> t.value, bounds |-> b.value, id |-> e.id,
                    uuid |-> e.uuid, type |-> y, offset |-> o.value, orientation |-> a.value]
  OBVIOUS
<1>7. /\ \A k \in 1 .. 7 : s[k].ok
      /\ ParseImage(e) = Good(u)
  BY <1>2, <1>4, <1>5, <1>6, ImageIsParsed
<1>8. v = u
  BY <1>7, GoodIs
<1>9. g.ok /\ f.ok /\ c.ok /\ t.ok /\ b.ok /\ o.ok /\ a.ok
  BY <1>4, <1>7
<1>10. PICK d \in Seq(Lengths), m \in Lengths :
         /\ v.dimensions = d /\ v.channels = m
         /\ d /= <<>> /\ m > 0 /\ \A i \in DOMAIN d : d[i] > 0
  <2>1. e.geometry /= None
    BY <1>1, <1>9, BadIs DEF Present
  <2>2. PICK x \in Seq(Int \cup {Word}) : x = e.geometry
    BY <2>1 DEF IsTypedImage, Opt
  <2>3. g = ParseGeometry(x)
    BY <1>1, <2>1, <2>2 DEF Present
  <2>4. PICK d \in Seq(Lengths), m \in Lengths :
         /\ g = Good([dimensions |-> d, channels |-> m])
         /\ d /= <<>> /\ m > 0 /\ \A i \in DOMAIN d : d[i] > 0
    BY <1>9, <2>3, GeometryIsTyped
  <2>5. g.value = [dimensions |-> d, channels |-> m]
    BY <2>4, GoodIs
  <2>6. g.value.dimensions = d /\ g.value.channels = m
    BY <2>5
  <2> QED BY <1>6, <1>8, <2>4, <2>6
<1>11. v.format \in Formats /\ v.space \in ColorSpaces /\ v.storage \in Storages
  <2>1. f.value \in Formats
    BY <1>1, <1>9, GoodIs, BadIs DEF Present, Known
  <2>2. c.value \in ColorSpaces
    BY <1>1, <1>9, GoodIs, BadIs DEF Known, ColorSpaces
  <2>3. t.value \in Storages
    BY <1>1, <1>9, GoodIs, BadIs DEF Known, Storages
  <2> QED BY <1>6, <1>8, <2>1, <2>2, <2>3
<1>12. \/ v.bounds = None
       \/ \E l, h \in Int : l < h /\ v.bounds = [low |-> l, high |-> h]
  <2>1. v.bounds = b.value
    BY <1>6, <1>8
  <2> QED BY <1>1, <1>9, <2>1, BoundsAreTyped DEF IsTypedImage
<1>13. v.offset = None \/ (v.offset \in Int /\ v.offset >= 0)
  <2>1. v.offset = o.value
    BY <1>6, <1>8
  <2> QED BY <1>1, <1>9, <2>1, OffsetIsTyped
<1>14. \/ v.orientation = None
       \/ \E r \in Rotations, p \in BOOLEAN : v.orientation = [rotation |-> r, flip |-> p]
  <2>1. v.orientation = a.value
    BY <1>6, <1>8
  <2> QED BY <1>1, <1>9, <2>1, OrientationIsTyped DEF IsTypedImage
<1>15. \/ v.type = None
       \/ \E x \in STRING : v.type = [standard |-> x \in ImageTypes, name |-> x]
  BY <1>5, <1>6, <1>8 DEF IsTypedImage, Opt, ParseImageType
<1>16. v.id \in Opt(Identifiers) /\ v.uuid \in Opt(Seq(Seq(Int)))
  BY <1>6, <1>8 DEF IsTypedImage
<1>17. /\ v.bounds \in Opt([low : Number, high : Number])
       /\ v.bounds /= None => Finite(v.bounds.low) /\ Finite(v.bounds.high) /\ v.bounds.low < v.bounds.high
  <2>1. CASE v.bounds = None
    BY <2>1 DEF Opt
  <2>2. ASSUME NEW l \in Int, NEW h \in Int, l < h, NEW x, x = [low |-> l, high |-> h]
        PROVE  x \in [low : Number, high : Number] /\ Finite(x.low) /\ Finite(x.high) /\ x.low < x.high
    BY <2>2 DEF Number, Finite
  <2> QED BY <1>12, <2>1, <2>2 DEF Opt
<1>18. v.offset \in Opt(Number)
  BY <1>13 DEF Opt, Number
<1>19. v.orientation \in Opt([rotation : Int, flip : BOOLEAN])
  <2>1. ASSUME NEW r \in Rotations, NEW p \in BOOLEAN
        PROVE  [rotation |-> r, flip |-> p] \in [rotation : Int, flip : BOOLEAN]
    BY DEF Rotations
  <2> QED BY <1>14, <2>1 DEF Opt
<1>20. v.type \in Opt([standard : BOOLEAN, name : STRING])
  <2>1. ASSUME NEW x \in STRING
        PROVE  [standard |-> x \in ImageTypes, name |-> x] \in [standard : BOOLEAN, name : STRING]
    OBVIOUS
  <2> QED BY <1>15, <2>1 DEF Opt
<1>21. v = [dimensions |-> v.dimensions, channels |-> v.channels, format |-> v.format,
            space |-> v.space, storage |-> v.storage, bounds |-> v.bounds, id |-> v.id,
            uuid |-> v.uuid, type |-> v.type, offset |-> v.offset, orientation |-> v.orientation]
  BY <1>6, <1>8
<1>22. v \in Image
  BY <1>10, <1>11, <1>16, <1>17, <1>18, <1>19, <1>20, <1>21 DEF Image
<1>23. Describable(v)
  <2>1. v.bounds /= None => Finite(v.bounds.low) /\ Finite(v.bounds.high) /\ v.bounds.low < v.bounds.high
    BY <1>17
  <2>2. v.offset /= None => Finite(v.offset) /\ v.offset >= 0
    BY <1>13 DEF Finite
  <2>3. v.orientation /= None => v.orientation.rotation \in {0, 90, 180, -90}
    <3>1. ASSUME NEW r \in Rotations, NEW p \in BOOLEAN
          PROVE  [rotation |-> r, flip |-> p].rotation \in {0, 90, 180, -90}
      BY DEF Rotations
    <3> QED BY <1>14, <3>1
  <2> QED BY <1>10, <2>1, <2>2, <2>3 DEF Describable
<1>24. AsTyped(v) = v
  <2>1. CASE v.type = None
    BY <2>1 DEF AsTyped
  <2>2. CASE v.type /= None
    <3>1. PICK x \in STRING : v.type = [standard |-> x \in ImageTypes, name |-> x]
      BY <1>15, <2>2
    <3>2. PICK q \in BOOLEAN : q = (x \in ImageTypes)
      <4>1. (x \in ImageTypes) \in BOOLEAN
        OBVIOUS
      <4> QED BY <4>1
    <3>3. PICK w : w = [standard |-> q, name |-> x]
      OBVIOUS
    <3>4. v.type = w /\ w.name = x /\ [w EXCEPT !.standard = q] = w
      BY <3>1, <3>2, <3>3
    <3>5. (w.name \in ImageTypes) = q
      BY <3>2, <3>4
    <3>6. AsTyped(v) = [v EXCEPT !.type = [w EXCEPT !.standard = (w.name \in ImageTypes)]]
      BY <2>2, <3>4 DEF AsTyped
    <3>7. [v EXCEPT !.type = w] = v
      BY <1>21, <3>4
    <3> QED BY <3>4, <3>5, <3>6, <3>7
  <2> QED BY <2>1, <2>2
<1> QED BY <1>22, <1>23, <1>24

-----------------------------------------------------------------------------
(* The elements associated with an image, whoever wrote them last.         *)

\* A record of some fields, those of them that have a type being of it.
Fits(x, fields, texts) ==
  /\ x = [k \in fields |-> x[k]]
  /\ \A k \in DOMAIN texts : k \in fields /\ x[k] \in texts[k]

AreParts(xs, fields, texts) ==
  /\ Len(xs) \in Nat
  /\ xs = [i \in 1 .. Len(xs) |-> xs[i]]
  /\ \A i \in 1 .. Len(xs) : Fits(xs[i], fields, texts)

LEMMA FirstGoodIn ==
  ASSUME NEW n \in Nat, NEW rs, rs = [i \in 1 .. n |-> rs[i]], NEW V,
         \A i \in 1 .. n : rs[i].ok => rs[i].value \in V
  PROVE  FirstGood(rs) \in Opt(V)
<1> DEFINE S == {rs[i] : i \in 1 .. n}
<1>1. rs \in [1 .. n -> S] /\ Len(rs) = n
  OBVIOUS
<1> HIDE DEF S
<1>2. rs \in Seq(S)
  BY <1>1, SeqDef
<1>3. \/ FirstGood(rs) = None
      \/ \E i \in 1 .. Len(rs) : rs[i].ok /\ FirstGood(rs) = rs[i].value
  BY <1>2, FirstGoodIs
<1> QED BY <1>1, <1>3 DEF Opt

LEMMA ParsedIn ==
  ASSUME NEW n \in Nat, NEW rs, rs = [i \in 1 .. n |-> rs[i]], NEW V,
         \A i \in 1 .. n : rs[i].ok => rs[i].value \in V
  PROVE  Parsed(rs) \in Seq(V)
<1> DEFINE S == {rs[i] : i \in 1 .. n}
<1>1. rs \in [1 .. n -> S] /\ Len(rs) = n
  OBVIOUS
<1> HIDE DEF S
<1>2. rs \in Seq(S)
  BY <1>1, SeqDef
<1>3. PICK kept : kept = Kept(rs, GoodOnes(rs))
  OBVIOUS
<1>4. /\ kept \in Seq(S) /\ Parsed(rs) = [j \in 1 .. Len(kept) |-> kept[j].value]
      /\ \A j \in 1 .. Len(kept) : \E i \in 1 .. Len(rs) : rs[i].ok /\ kept[j] = rs[i]
  <2>1. LET k == Kept(rs, GoodOnes(rs))
        IN  /\ k \in Seq(S) /\ Parsed(rs) = [j \in 1 .. Len(k) |-> k[j].value]
            /\ \A j \in 1 .. Len(k) : \E i \in 1 .. Len(rs) : rs[i].ok /\ k[j] = rs[i]
    BY <1>2, ParsedIs
  <2> QED BY <1>3, <2>1
<1>5. \A j \in 1 .. Len(kept) : kept[j].value \in V
  BY <1>1, <1>4
<1>6. Len(kept) \in Nat
  BY <1>4
<1>7. Parsed(rs) \in [1 .. Len(kept) -> V]
  BY <1>4, <1>5
<1> QED BY <1>6, <1>7, SeqDef

GoodResolutions == {r \in Resolution : Positive(r.horizontal) /\ Positive(r.vertical)}

ResolutionFields == {"horizontal", "vertical", "unit"}

LEMMA ResolutionIsTyped ==
  ASSUME NEW xs, AreParts(xs, ResolutionFields, Texts.resolutions)
  PROVE  FirstGood(Each(xs, ParseResolution)) \in Opt(GoodResolutions)
<1>1. PICK n \in Nat : n = Len(xs)
  BY DEF AreParts
<1>2. PICK rs : rs = [i \in 1 .. n |-> ParseResolution(xs[i])]
  OBVIOUS
<1>3. rs = [i \in 1 .. n |-> rs[i]]
  BY <1>2
<1>4. Each(xs, ParseResolution) = rs
  <2>1. DOMAIN xs = 1 .. n
    BY <1>1 DEF AreParts
  <2> QED BY <1>2, <2>1 DEF Each
<1>5. \A i \in 1 .. n : rs[i].ok => rs[i].value \in GoodResolutions
  <2> SUFFICES ASSUME NEW i \in 1 .. n, rs[i].ok PROVE rs[i].value \in GoodResolutions
    OBVIOUS
  <2>1. PICK e : e = xs[i]
    OBVIOUS
  <2>2. PICK r : r = ParseResolution(e)
    OBVIOUS
  <2>3. r = rs[i]
    BY <1>2, <2>1, <2>2
  <2>4. /\ IsPositive(e.horizontal) /\ IsPositive(e.vertical)
        /\ \E u \in {"inch", "cm"} :
             r.value = [horizontal |-> e.horizontal, vertical |-> e.vertical, unit |-> u]
    BY <2>2, <2>3, ResolutionIs
  <2> QED BY <2>3, <2>4 DEF GoodResolutions, Resolution, IsPositive, Positive, Number, Finite
<1> QED BY <1>3, <1>4, <1>5, FirstGoodIn

GoodSpaces == {s \in WorkingSpace : s.gamma.srgb \/ Positive(s.gamma.exponent)}

SpaceFields == {"gamma", "x", "y", "Y", "name"}

LEMMA NumbersAreTriples ==
  /\ \A v \in [1 .. 3 -> Int] : v \in Triples
  /\ \A v \in [1 .. 4 -> Int] : v \in Quads
BY DEF Triples, Quads, Number

LEMMA SpaceIsTyped ==
  ASSUME NEW xs, AreParts(xs, SpaceFields, Texts.spaces)
  PROVE  FirstGood(Each(xs, ParseWorkingSpace)) \in Opt(GoodSpaces)
<1>1. PICK n \in Nat : n = Len(xs)
  BY DEF AreParts
<1>2. PICK rs : rs = [i \in 1 .. n |-> ParseWorkingSpace(xs[i])]
  OBVIOUS
<1>3. rs = [i \in 1 .. n |-> rs[i]]
  BY <1>2
<1>4. Each(xs, ParseWorkingSpace) = rs
  <2>1. DOMAIN xs = 1 .. n
    BY <1>1 DEF AreParts
  <2> QED BY <1>2, <2>1 DEF Each
<1>5. \A i \in 1 .. n : rs[i].ok => rs[i].value \in GoodSpaces
  <2> SUFFICES ASSUME NEW i \in 1 .. n, rs[i].ok PROVE rs[i].value \in GoodSpaces
    OBVIOUS
  <2>1. PICK e : e = xs[i]
    OBVIOUS
  <2>2. PICK r : r = ParseWorkingSpace(e)
    OBVIOUS
  <2>3. r = rs[i]
    BY <1>2, <2>1, <2>2
  <2>4. Fits(e, SpaceFields, Texts.spaces)
    BY <1>1, <2>1 DEF AreParts
  <2>5. PICK t : t = Texts.spaces
    OBVIOUS
  <2>6. t = [gamma |-> Opt([srgb : BOOLEAN, exponent : Opt(Number)]),
             x |-> NumberTexts, y |-> NumberTexts, Y |-> NumberTexts, name |-> Opt(STRING)]
    BY <2>5 DEF Texts
  <2>7. /\ e.gamma \in Opt([srgb : BOOLEAN, exponent : Opt(Number)]) /\ e.x \in NumberTexts
        /\ e.y \in NumberTexts /\ e.Y \in NumberTexts /\ e.name \in Opt(STRING)
    <3>1. \A k \in SpaceFields : e[k] \in t[k]
      BY <2>4, <2>5, <2>6 DEF Fits, SpaceFields
    <3>2. e["gamma"] \in t["gamma"] /\ e["x"] \in t["x"] /\ e["y"] \in t["y"] /\ e["Y"] \in t["Y"] /\ e["name"] \in t["name"]
      BY <3>1 DEF SpaceFields
    <3> QED BY <2>6, <3>2
  <2>8. /\ e.gamma /= None /\ (e.gamma.srgb \/ Positive(e.gamma.exponent))
        /\ (\A v \in {e.x, e.y, e.Y} : v \in [1 .. 3 -> Int]) /\ r = Good(e)
    BY <2>2, <2>3, <2>7, SpaceIs
  <2>9. e.x \in Triples /\ e.y \in Triples /\ e.Y \in Triples
    BY <2>8, NumbersAreTriples
  <2>10. e.gamma \in [srgb : BOOLEAN, exponent : Opt(Number)]
    BY <2>7, <2>8 DEF Opt
  <2>11. e = [gamma |-> e.gamma, x |-> e.x, y |-> e.y, Y |-> e.Y, name |-> e.name]
    BY <2>4 DEF Fits, SpaceFields
  <2>12. e \in WorkingSpace
    BY <2>7, <2>9, <2>10, <2>11 DEF WorkingSpace
  <2> QED BY <2>3, <2>8, <2>12, GoodIs DEF GoodSpaces
<1> QED BY <1>3, <1>4, <1>5, FirstGoodIn

GoodFunctions == {f \in DisplayFunction : IsFiniteFunction(f)}

FunctionFields == {"m", "s", "h", "l", "r", "name"}

LEMMA FunctionIsTyped ==
  ASSUME NEW xs, AreParts(xs, FunctionFields, Texts.functions)
  PROVE  FirstGood(Each(xs, ParseDisplayFunction)) \in Opt(GoodFunctions)
<1>1. PICK n \in Nat : n = Len(xs)
  BY DEF AreParts
<1>2. PICK rs : rs = [i \in 1 .. n |-> ParseDisplayFunction(xs[i])]
  OBVIOUS
<1>3. rs = [i \in 1 .. n |-> rs[i]]
  BY <1>2
<1>4. Each(xs, ParseDisplayFunction) = rs
  <2>1. DOMAIN xs = 1 .. n
    BY <1>1 DEF AreParts
  <2> QED BY <1>2, <2>1 DEF Each
<1>5. \A i \in 1 .. n : rs[i].ok => rs[i].value \in GoodFunctions
  <2> SUFFICES ASSUME NEW i \in 1 .. n, rs[i].ok PROVE rs[i].value \in GoodFunctions
    OBVIOUS
  <2>1. PICK e : e = xs[i]
    OBVIOUS
  <2>2. PICK r : r = ParseDisplayFunction(e)
    OBVIOUS
  <2>3. r = rs[i]
    BY <1>2, <2>1, <2>2
  <2>4. Fits(e, FunctionFields, Texts.functions)
    BY <1>1, <2>1 DEF AreParts
  <2>5. PICK t : t = Texts.functions
    OBVIOUS
  <2>6. t = [m |-> NumberTexts, s |-> NumberTexts, h |-> NumberTexts, l |-> NumberTexts,
             r |-> NumberTexts, name |-> Opt(STRING)]
    BY <2>5 DEF Texts
  <2>7. /\ e.m \in NumberTexts /\ e.s \in NumberTexts /\ e.h \in NumberTexts
        /\ e.l \in NumberTexts /\ e.r \in NumberTexts /\ e.name \in Opt(STRING)
    <3>1. \A k \in FunctionFields : e[k] \in t[k]
      BY <2>4, <2>5, <2>6 DEF Fits, FunctionFields
    <3>2. /\ e["m"] \in t["m"] /\ e["s"] \in t["s"] /\ e["h"] \in t["h"] /\ e["l"] \in t["l"]
          /\ e["r"] \in t["r"] /\ e["name"] \in t["name"]
      BY <3>1 DEF FunctionFields
    <3> QED BY <2>6, <3>2
  <2>8. (\A v \in {e.m, e.s, e.h, e.l, e.r} : v \in [1 .. 4 -> Int]) /\ r = Good(e)
    BY <2>2, <2>3, <2>7, FunctionIs
  <2>9. \A v \in {e.m, e.s, e.h, e.l, e.r} : v \in Quads /\ \A k \in 1 .. 4 : Finite(v[k])
    BY <2>8, NumbersAreTriples DEF Finite
  <2>10. e = [m |-> e.m, s |-> e.s, h |-> e.h, l |-> e.l, r |-> e.r, name |-> e.name]
    BY <2>4 DEF Fits, FunctionFields
  <2>11. e \in DisplayFunction
    <3>1. e.m \in Quads /\ e.s \in Quads /\ e.h \in Quads /\ e.l \in Quads /\ e.r \in Quads
      BY <2>9
    <3> QED BY <2>7, <2>10, <3>1 DEF DisplayFunction
  <2>12. IsFiniteFunction(e)
    BY <2>9 DEF IsFiniteFunction
  <2> QED BY <2>3, <2>8, <2>11, <2>12, GoodIs DEF GoodFunctions
<1> QED BY <1>3, <1>4, <1>5, FirstGoodIn

GoodFilters == {f \in FilterArray : f.width * f.height = Len(f.pattern) /\ f.pattern /= <<>>}

FilterFields == {"pattern", "width", "height", "name"}

LEMMA FilterIsTyped ==
  ASSUME NEW xs, AreParts(xs, FilterFields, Texts.filters)
  PROVE  FirstGood(Each(xs, ParseFilterArray)) \in Opt(GoodFilters)
<1>1. PICK n \in Nat : n = Len(xs)
  BY DEF AreParts
<1>2. PICK rs : rs = [i \in 1 .. n |-> ParseFilterArray(xs[i])]
  OBVIOUS
<1>3. rs = [i \in 1 .. n |-> rs[i]]
  BY <1>2
<1>4. Each(xs, ParseFilterArray) = rs
  <2>1. DOMAIN xs = 1 .. n
    BY <1>1 DEF AreParts
  <2> QED BY <1>2, <2>1 DEF Each
<1>5. \A i \in 1 .. n : rs[i].ok => rs[i].value \in GoodFilters
  <2> SUFFICES ASSUME NEW i \in 1 .. n, rs[i].ok PROVE rs[i].value \in GoodFilters
    OBVIOUS
  <2>1. PICK e : e = xs[i]
    OBVIOUS
  <2>2. PICK r : r = ParseFilterArray(e)
    OBVIOUS
  <2>3. r = rs[i]
    BY <1>2, <2>1, <2>2
  <2>4. Fits(e, FilterFields, Texts.filters)
    BY <1>1, <2>1 DEF AreParts
  <2>5. PICK t : t = Texts.filters
    OBVIOUS
  <2>6. t = [pattern |-> Opt(Seq(CfaElements \cup {Word})), name |-> Opt(STRING)]
    BY <2>5 DEF Texts
  <2>7. e.pattern \in Opt(Seq(CfaElements \cup {Word})) /\ e.name \in Opt(STRING)
    <3>1. \A k \in {"pattern", "name"} : e[k] \in t[k]
      <4>1. \A k \in DOMAIN t : e[k] \in t[k]
        BY <2>4, <2>5 DEF Fits
      <4>2. DOMAIN t = {"pattern", "name"}
        BY <2>6
      <4> QED BY <4>1, <4>2
    <3>2. e["pattern"] \in t["pattern"] /\ e["name"] \in t["name"]
      BY <3>1
    <3> QED BY <2>6, <3>2
  <2>8. /\ e.pattern /= None /\ (\A j \in DOMAIN e.pattern : e.pattern[j] \in CfaElements)
        /\ e.width \in 1 .. MaxWord /\ e.height \in 1 .. MaxWord
        /\ e.width * e.height = Len(e.pattern) /\ Len(e.pattern) <= MaxWord
        /\ r = Good(e)
    BY <2>2, <2>3, <2>7, FilterIs
  <2>9. e.pattern \in Seq(CfaElements) /\ Len(e.pattern) \in Nat
    <3>1. PICK p \in Seq(CfaElements \cup {Word}) : p = e.pattern
      BY <2>7, <2>8 DEF Opt
    <3>2. p \in Seq(CfaElements)
      <4>1. DOMAIN p = 1 .. Len(p) /\ Len(p) \in Nat /\ p = [j \in 1 .. Len(p) |-> p[j]]
        OBVIOUS
      <4>2. \A j \in 1 .. Len(p) : p[j] \in CfaElements
        BY <2>8, <3>1, <4>1
      <4>3. p \in [1 .. Len(p) -> CfaElements]
        BY <4>1, <4>2
      <4> QED BY <4>1, <4>3, SeqDef
    <3> QED BY <3>1, <3>2
  <2>10. e = [pattern |-> e.pattern, width |-> e.width, height |-> e.height, name |-> e.name]
    BY <2>4 DEF Fits, FilterFields
  <2>11. e.width \in Lengths /\ e.height \in Lengths /\ Len(e.pattern) \in Lengths
    BY <2>8, <2>9, BoundAssumption DEF Lengths
  <2>12. e \in FilterArray
    BY <2>7, <2>9, <2>10, <2>11 DEF FilterArray
  <2>13. e.pattern /= <<>>
    <3>1. \A w, h \in 1 .. MaxWord : w * h /= 0
      BY BoundAssumption
    <3>2. e.pattern = <<>> => Len(e.pattern) = 0
      OBVIOUS
    <3> QED BY <2>8, <3>1, <3>2
  <2> QED BY <2>3, <2>8, <2>12, <2>13, GoodIs DEF GoodFilters
<1> QED BY <1>3, <1>4, <1>5, FirstGoodIn

ImageFields ==
  {"geometry", "sampleFormat", "colorSpace", "pixelStorage", "bounds", "id", "uuid", "imageType",
   "offset", "orientation"}

LEMMA ThumbnailIsTyped ==
  ASSUME NEW xs, AreParts(xs, ImageFields, Texts.thumbnails)
  PROVE  /\ ParseThumbnail(xs) \in Opt(Image)
         /\ ParseThumbnail(xs) /= None => Describable(ParseThumbnail(xs))
<1>1. PICK n \in Nat : n = Len(xs) /\ DOMAIN xs = 1 .. n
  BY DEF AreParts
<1>2. CASE n = 0
  <2>1. xs = <<>>
    BY <1>1, <1>2 DEF AreParts
  <2> QED BY <2>1 DEF ParseThumbnail, Opt
<1>3. CASE n /= 0
  <2>1. PICK e : e = xs[1]
    OBVIOUS
  <2>2. xs /= <<>> /\ Head(xs) = e
    BY <1>1, <1>3, <2>1
  <2>3. Fits(e, ImageFields, Texts.thumbnails)
    BY <1>1, <1>3, <2>1 DEF AreParts
  <2>4. Texts.thumbnails = ImageTexts
    BY DEF Texts
  <2>5. FitsTexts(e, ImageTexts)
    BY <2>3, <2>4 DEF Fits, FitsTexts
  <2>6. ParseImage(e).ok => ParseImage(e).value \in Image /\ Describable(ParseImage(e).value)
    BY <2>5, TypedImages, ImageIsTyped
  <2> QED BY <2>2, <2>6 DEF ParseThumbnail, Opt
<1> QED BY <1>2, <1>3

Whole == {t \in Tables : IsWhole(t)}

TableFields == {"id", "caption", "comment", "rows", "columns", "structure", "body"}

LEMMA TablesAreTyped ==
  ASSUME NEW xs, AreParts(xs, TableFields, Texts.tables)
  PROVE  Parsed(Each(xs, ParseTable)) \in Seq(Whole)
<1>1. PICK n \in Nat : n = Len(xs)
  BY DEF AreParts
<1>2. PICK rs : rs = [i \in 1 .. n |-> ParseTable(xs[i])]
  OBVIOUS
<1>3. rs = [i \in 1 .. n |-> rs[i]]
  BY <1>2
<1>4. Each(xs, ParseTable) = rs
  <2>1. DOMAIN xs = 1 .. n
    BY <1>1 DEF AreParts
  <2> QED BY <1>2, <2>1 DEF Each
<1>5. \A i \in 1 .. n : rs[i].ok => rs[i].value \in Whole
  <2> SUFFICES ASSUME NEW i \in 1 .. n, rs[i].ok PROVE rs[i].value \in Whole
    OBVIOUS
  <2>1. PICK e : e = xs[i]
    OBVIOUS
  <2>2. PICK r : r = ParseTable(e)
    OBVIOUS
  <2>3. r = rs[i]
    BY <1>2, <2>1, <2>2
  <2>4. Fits(e, TableFields, Texts.tables)
    BY <1>1, <2>1 DEF AreParts
  <2>5. PICK t : t = Texts.tables
    OBVIOUS
  <2>6. t = [id |-> Opt(Identifiers), caption |-> Opt(STRING), comment |-> Opt(STRING),
             structure |-> Opt({s \in Seq(StructureTexts) : Len(s) \in Lengths}),
             body |-> {b \in Seq(Seq(Cells)) : Len(b) \in Lengths}]
    BY <2>5 DEF Texts
  <2>7. /\ e.id \in Opt(Identifiers) /\ e.caption \in Opt(STRING) /\ e.comment \in Opt(STRING)
        /\ e.structure \in Opt({s \in Seq(StructureTexts) : Len(s) \in Lengths})
        /\ e.body \in {b \in Seq(Seq(Cells)) : Len(b) \in Lengths}
    <3>1. \A k \in {"id", "caption", "comment", "structure", "body"} : e[k] \in t[k]
      <4>1. \A k \in DOMAIN t : e[k] \in t[k]
        BY <2>4, <2>5 DEF Fits
      <4>2. DOMAIN t = {"id", "caption", "comment", "structure", "body"}
        BY <2>6
      <4> QED BY <4>1, <4>2
    <3>2. /\ e["id"] \in t["id"] /\ e["caption"] \in t["caption"] /\ e["comment"] \in t["comment"]
          /\ e["structure"] \in t["structure"] /\ e["body"] \in t["body"]
      BY <3>1
    <3> QED BY <2>6, <3>2
  <2> QED BY <2>2, <2>3, <2>7, TableIsTyped DEF Whole
<1> QED BY <1>3, <1>4, <1>5, ParsedIn

-----------------------------------------------------------------------------
(* The size of an image, where it is one.                                  *)

\* The products of the first factors.
Products(g, s, n) ==
  g = [i \in 0 .. n |-> IF i = 0 THEN 1 ELSE CheckedTimes(g[i - 1], s[i])]

LEMMA ProductsAre ==
  ASSUME NEW s, NEW n \in Nat, NEW g
  PROVE  Products(g, s, n) <=> /\ g = [i \in 0 .. n |-> g[i]]
                               /\ g[0] = 1 /\ \A i \in 1 .. n : g[i] = CheckedTimes(g[i - 1], s[i])
<1>1. PICK f : f = [i \in 0 .. n |-> IF i = 0 THEN 1 ELSE CheckedTimes(g[i - 1], s[i])]
  OBVIOUS
<1>2. f[0] = 1 /\ \A i \in 1 .. n : f[i] = CheckedTimes(g[i - 1], s[i])
  BY <1>1
<1>3. Products(g, s, n) <=> g = f
  BY <1>1 DEF Products
<1>4. f = [i \in 0 .. n |-> f[i]]
  BY <1>1
<1>5. \A i \in 0 .. n : i = 0 \/ i \in 1 .. n
  OBVIOUS
<1>6. g = f => /\ g = [i \in 0 .. n |-> g[i]]
               /\ g[0] = 1 /\ \A i \in 1 .. n : g[i] = CheckedTimes(g[i - 1], s[i])
  BY <1>2, <1>4
<1>7. ASSUME g = [i \in 0 .. n |-> g[i]], g[0] = 1, \A i \in 1 .. n : g[i] = CheckedTimes(g[i - 1], s[i])
      PROVE  g = f
  <2>1. \A i \in 0 .. n : g[i] = f[i]
    BY <1>2, <1>5, <1>7
  <2> QED BY <1>4, <1>7, <2>1
<1> QED BY <1>3, <1>6, <1>7

LEMMA ProductsExist ==
  ASSUME NEW s, NEW n \in Nat
  PROVE  \E g : Products(g, s, n)
<1> DEFINE H == {m \in Nat : \E g : Products(g, s, m)}
<1>1. 0 \in H
  <2>1. PICK f : f = [i \in 0 .. 0 |-> 1]
    OBVIOUS
  <2>2. f = [i \in 0 .. 0 |-> f[i]] /\ f[0] = 1 /\ 0 \in Nat /\ 1 .. 0 = {}
    BY <2>1
  <2>3. Products(f, s, 0)
    BY <2>2, ProductsAre
  <2> QED BY <2>2, <2>3
<1>2. ASSUME NEW m \in 1 .. n, m - 1 \in H
      PROVE  m \in H
  <2>1. PICK g : Products(g, s, m - 1)
    BY <1>2
  <2>2. m \in Nat \ {0} /\ m - 1 \in Nat
    OBVIOUS
  <2>3. g[0] = 1 /\ \A i \in 1 .. m - 1 : g[i] = CheckedTimes(g[i - 1], s[i])
    BY <2>1, <2>2, ProductsAre
  <2>4. PICK f : f = [i \in 0 .. m |-> IF i < m THEN g[i] ELSE CheckedTimes(g[m - 1], s[m])]
    OBVIOUS
  <2>5. f = [i \in 0 .. m |-> f[i]]
    BY <2>4
  <2>6. (\A i \in 0 .. m - 1 : f[i] = g[i]) /\ f[m] = CheckedTimes(g[m - 1], s[m])
    BY <2>2, <2>4
  <2>7. f[0] = 1
    BY <2>2, <2>3, <2>6
  <2>8. ASSUME NEW i \in 1 .. m
        PROVE  f[i] = CheckedTimes(f[i - 1], s[i])
    <3>1. CASE i = m
      BY <2>2, <2>6, <3>1
    <3>2. CASE i /= m
      <4>1. i \in 1 .. m - 1 /\ i - 1 \in 0 .. m - 1 /\ i \in 0 .. m - 1
        BY <2>2, <3>2
      <4> QED BY <2>3, <2>6, <4>1
    <3> QED BY <3>1, <3>2
  <2>9. Products(f, s, m)
    BY <2>2, <2>5, <2>7, <2>8, ProductsAre
  <2> QED BY <2>2, <2>9
<1>3. \A i \in 0 .. n : i \in H
  <2> HIDE DEF H
  <2> QED BY <1>1, <1>2, Upward
<1> QED BY <1>3

LEMMA TimesIs ==
  ASSUME NEW a \in Opt(Lengths), NEW b \in Nat
  PROVE  CheckedTimes(a, b) \in Opt(Lengths)
<1>1. CASE a = None \/ b = None
  BY <1>1 DEF CheckedTimes, Opt
<1>2. CASE a /= None /\ b /= None
  <2>1. a \in Nat
    BY <1>2, BoundAssumption DEF Opt, Lengths
  <2>2. a * b \in Nat
    BY <2>1
  <2> QED BY <1>2, <2>2, BoundAssumption DEF CheckedTimes, Opt, Lengths
<1> QED BY <1>1, <1>2

LEMMA ProductIs ==
  ASSUME NEW s \in Seq(Nat)
  PROVE  CheckedProduct(s) \in Opt(Lengths)
<1> DEFINE Def(g) == g = [i \in 0 .. Len(s) |-> IF i = 0 THEN 1 ELSE CheckedTimes(g[i - 1], s[i])]
           product == CHOOSE g : Def(g)
<1>1. CheckedProduct(s) = product[Len(s)]
  BY DEF CheckedProduct
<1>2. \A g : Def(g) <=> Products(g, s, Len(s))
  BY DEF Products
<1> HIDE DEF Def
<1>3. Def(product)
  <2>1. Len(s) \in Nat
    OBVIOUS
  <2> QED BY <1>2, <2>1, ProductsExist
<1> HIDE DEF product
<1>4. PICK n \in Nat : n = Len(s)
  OBVIOUS
<1>5. product[0] = 1 /\ \A i \in 1 .. n : product[i] = CheckedTimes(product[i - 1], s[i])
  BY <1>2, <1>3, <1>4, ProductsAre
<1> DEFINE H == {i \in 0 .. n : product[i] \in Opt(Lengths)}
<1>6. 0 \in H
  BY <1>5, BoundAssumption DEF Opt, Lengths
<1>7. \A i \in 1 .. n : i - 1 \in H => i \in H
  <2> TAKE i \in 1 .. n
  <2>1. s[i] \in Nat
    BY <1>4
  <2> QED BY <1>5, <2>1, TimesIs
<1>8. \A i \in 0 .. n : i \in H
  <2> HIDE DEF H
  <2> QED BY <1>6, <1>7, Upward
<1> QED BY <1>1, <1>4, <1>8

LEMMA SizeIs ==
  ASSUME NEW i \in Image
  PROVE  DataSize(i) \in Opt(Lengths)
<1>1. i.dimensions \in Seq(Nat) /\ i.channels \in Nat
  <2>1. \A x \in Lengths : x \in Nat
    BY BoundAssumption DEF Lengths
  <2>2. PICK d \in Seq(Lengths) : d = i.dimensions
    BY DEF Image
  <2>3. d \in Seq(Nat)
    <3>1. Len(d) \in Nat /\ d = [k \in 1 .. Len(d) |-> d[k]] /\ \A k \in 1 .. Len(d) : d[k] \in Lengths
      OBVIOUS
    <3>2. d \in [1 .. Len(d) -> Nat]
      BY <2>1, <3>1
    <3> QED BY <3>1, <3>2, SeqDef
  <2> QED BY <2>1, <2>2, <2>3 DEF Image
<1>2. FormatSize(i.format) \in Nat
  <2>1. i.format \in Formats
    BY DEF Image
  <2> QED BY <2>1 DEF Formats, FormatSize
<1>3. Append(Append(i.dimensions, i.channels), FormatSize(i.format)) \in Seq(Nat)
  BY <1>1, <1>2
<1> QED BY <1>3, ProductIs DEF DataSize

-----------------------------------------------------------------------------
(* What the writer accepts.                                                *)

LEMMA OfItsOwn ==
  ASSUME NEW n \in Nat, NEW f, f = [i \in 1 .. n |-> f[i]]
  PROVE  f \in Seq({f[i] : i \in 1 .. n})
<1>1. f \in [1 .. n -> {f[i] : i \in 1 .. n}]
  OBVIOUS
<1> QED BY <1>1, SeqDef

LEMMA AcceptedTableIs ==
  ASSUME NEW t \in Tables, CheckTable(t).ok
  PROVE  IsWhole(t)
<1>1. t.fields \in Seq(Columns) /\ t.rows \in Seq(Seq(Cells))
  BY DEF Tables
<1>2. PICK m \in Nat, n \in Nat : /\ m = Len(t.fields) /\ DOMAIN t.fields = 1 .. m
                                  /\ n = Len(t.rows) /\ DOMAIN t.rows = 1 .. n
  BY <1>1
<1>3. PICK first, ids, rows :
        /\ first = <<CheckPropertyId(t.id), Check(t.fields /= <<>>, "InvalidArgument")>>
        /\ ids = [i \in 1 .. m |-> CheckPropertyId(t.fields[i].id)]
        /\ rows = [i \in 1 .. n |-> IF Len(t.rows[i]) /= m THEN Bad("InvalidArgument")
                                    ELSE Check(\A k \in DOMAIN t.rows[i] : t.rows[i][k].location = None,
                                               "Unsupported")]
  OBVIOUS
<1>4. CheckTable(t) = Try(first \o ids \o rows, t)
  BY <1>2, <1>3 DEF CheckTable
<1>5. /\ first \in Seq({first[1], first[2]}) /\ ids \in Seq({ids[i] : i \in 1 .. m})
      /\ rows \in Seq({rows[i] : i \in 1 .. n})
  <2>1. first \in Seq({first[1], first[2]})
    BY <1>3
  <2>2. ids = [i \in 1 .. m |-> ids[i]]
    BY <1>3
  <2>3. ids \in Seq({ids[i] : i \in 1 .. m})
    BY <2>2, OfItsOwn
  <2>4. rows = [i \in 1 .. n |-> rows[i]]
    BY <1>3
  <2>5. rows \in Seq({rows[i] : i \in 1 .. n})
    BY <2>4, OfItsOwn
  <2> QED BY <2>1, <2>3, <2>5
<1>6. first \o ids \in Seq({first[1], first[2]} \cup {ids[i] : i \in 1 .. m})
  BY <1>5
<1>7. /\ DOMAIN (first \o ids \o rows) \subseteq Nat
      /\ AllOk(first \o ids \o rows) <=> AllOk(first \o ids) /\ AllOk(rows)
  BY <1>5, <1>6, AllOkBehind
<1>8. AllOk(first \o ids) <=> AllOk(first) /\ AllOk(ids)
  BY <1>5, AllOkBehind
<1>9. AllOk(first) /\ AllOk(rows)
  BY <1>4, <1>7, <1>8, TryHolds
<1>10. t.fields /= <<>>
  <2>1. Check(t.fields /= <<>>, "InvalidArgument").ok
    BY <1>3, <1>9, AllOkOf
  <2> QED BY <2>1, BadIs DEF Check
<1>11. \A i \in 1 .. n : Len(t.rows[i]) = m
  <2> TAKE i \in 1 .. n
  <2>1. rows[i].ok
    BY <1>3, <1>9 DEF AllOk
  <2> QED BY <1>3, <2>1, BadIs
<1> QED BY <1>2, <1>10, <1>11 DEF IsWhole

LEMMA AcceptedImageIs ==
  ASSUME NEW p, IsPending(p), NEW images, CheckImage(images, p).ok
  PROVE  IsAccepted(p)
<1>1. PICK keywords \in Seq(Identifiers), tables \in Seq(Tables) : keywords = p.keywords /\ tables = p.tables
  BY DEF IsPending
<1>2. PICK m \in Nat, n \in Nat : /\ m = Len(keywords) /\ DOMAIN keywords = 1 .. m
                                  /\ n = Len(tables) /\ DOMAIN tables = 1 .. n
  OBVIOUS
<1>3. PICK a, b, c, d, e, f : /\ a = Check(p.image.id = None
                                              \/ p.image.id \notin {images[i].image.id : i \in DOMAIN images},
                                            "InvalidArgument")
                              /\ b = Check(RequiresBounds(p.image.format) => p.image.bounds /= None, "InvalidArgument")
                              /\ c = Optional(p.image.id, CheckImageId) /\ d = Optional(p.image.uuid, CheckUuid)
                              /\ e = CheckBytes(p) /\ f = Optional(p.thumbnail, CheckThumbnail)
  OBVIOUS
<1>4. PICK first, ks, ts : /\ first = <<a, b, c, d, e, f>>
                           /\ ks = [i \in 1 .. m |-> CheckFitsName(keywords[i])]
                           /\ ts = [i \in 1 .. n |-> CheckTable(tables[i])]
  OBVIOUS
<1>5. CheckImage(images, p) = Try(first \o ks \o ts, p)
  BY <1>1, <1>2, <1>3, <1>4 DEF CheckImage
<1>6. first \in Seq({a, b, c, d, e, f}) /\ ks \in Seq({ks[i] : i \in 1 .. m}) /\ ts \in Seq({ts[i] : i \in 1 .. n})
  <2>1. first \in Seq({a, b, c, d, e, f})
    BY <1>4
  <2>2. ks = [i \in 1 .. m |-> ks[i]]
    BY <1>4
  <2>3. ts = [i \in 1 .. n |-> ts[i]]
    BY <1>4
  <2> QED BY <2>1, <2>2, <2>3, OfItsOwn
<1>7. first \o ks \in Seq({a, b, c, d, e, f} \cup {ks[i] : i \in 1 .. m})
  BY <1>6
<1>8. /\ DOMAIN (first \o ks \o ts) \subseteq Nat
      /\ AllOk(first \o ks \o ts) <=> AllOk(first \o ks) /\ AllOk(ts)
  BY <1>6, <1>7, AllOkBehind
<1>9. AllOk(first \o ks) <=> AllOk(first) /\ AllOk(ks)
  BY <1>6, AllOkBehind
<1>10. AllOk(first) /\ AllOk(ts)
  BY <1>5, <1>8, <1>9, TryHolds
<1>11. ASSUME p.thumbnail /= None
       PROVE  p.thumbnail.image.bounds = None
  <2>1. f.ok
    <3>1. 6 \in DOMAIN first /\ first[6] = f
      BY <1>4
    <3> QED BY <1>10, <3>1 DEF AllOk
  <2>2. PICK t : t = p.thumbnail
    OBVIOUS
  <2>3. PICK s : s = <<CheckBytes(t),
        Check(Len(t.image.dimensions) = 2, "InvalidArgument"),
        Check(t.image.format \in {"UInt8", "UInt16"}, "InvalidArgument"),
        Check(t.image.bounds = None, "InvalidArgument"),
        Check(t.image.space \in {"Gray", "RGB"}, "InvalidArgument")>>
    OBVIOUS
  <2>4. f = Try(s, t)
    BY <1>3, <1>11, <2>2, <2>3 DEF Optional, CheckThumbnail
  <2>5. DOMAIN s \subseteq Nat
    BY <2>3
  <2>6. AllOk(s)
    BY <2>1, <2>4, <2>5, TryHolds
  <2>7. Check(t.image.bounds = None, "InvalidArgument").ok
    BY <2>3, <2>6, AllOkOf
  <2> QED BY <2>2, <2>7, BadIs DEF Check
<1>12. \A i \in 1 .. n : IsWhole(tables[i])
  <2> TAKE i \in 1 .. n
  <2>1. CheckTable(tables[i]).ok
    BY <1>4, <1>10 DEF AllOk
  <2>2. tables[i] \in Tables
    BY <1>2
  <2> QED BY <2>1, <2>2, AcceptedTableIs
<1> QED BY <1>1, <1>2, <1>11, <1>12 DEF IsAccepted

-----------------------------------------------------------------------------
(* A header's elements are of their types.                                 *)

ElementFields ==
  {"element", "block", "location", "keywords", "resolutions", "spaces", "functions", "filters",
   "profiles", "thumbnails", "previews", "tables"}

Alone(xs) == xs = <<>> \/ \E x : xs = <<x>>

\* What is rendered of an image, or was changed since.
IsElement(e) ==
  /\ e = [k \in ElementFields |-> e[k]]
  /\ Alone(e.profiles) /\ Alone(e.previews) /\ (e.previews = <<>> <=> e.thumbnails = <<>>)
  /\ Fits(e.element, ImageFields, ImageTexts)
  /\ e.keywords \in Seq(Identifiers)
  /\ AreParts(e.resolutions, ResolutionFields, Texts.resolutions)
  /\ AreParts(e.spaces, SpaceFields, Texts.spaces)
  /\ AreParts(e.functions, FunctionFields, Texts.functions)
  /\ AreParts(e.filters, FilterFields, Texts.filters)
  /\ AreParts(e.thumbnails, ImageFields, Texts.thumbnails)
  /\ AreParts(e.tables, TableFields, Texts.tables)

LEMMA NoParts == ASSUME NEW F, NEW T PROVE AreParts(<<>>, F, T)
<1>1. PICK xs : xs = <<>>
  OBVIOUS
<1>2. Len(xs) = 0 /\ xs = [i \in 1 .. 0 |-> xs[i]] /\ 1 .. 0 = {}
  BY <1>1
<1> QED BY <1>1, <1>2 DEF AreParts

LEMMA OnePart == ASSUME NEW F, NEW T, NEW x, Fits(x, F, T) PROVE AreParts(<<x>>, F, T)
<1>1. PICK xs : xs = <<x>>
  OBVIOUS
<1>2. Len(xs) = 1 /\ xs = [i \in 1 .. 1 |-> xs[i]] /\ \A i \in 1 .. 1 : xs[i] = x
  BY <1>1, OneIs
<1> QED BY <1>1, <1>2 DEF AreParts

LEMMA ImageFits ==
  ASSUME NEW i \in Image
  PROVE  Fits(ImageElement(i), ImageFields, ImageTexts)
<1>1. PICK g, b, t, o :
        /\ g = Append(i.dimensions, i.channels)
        /\ b = IF i.bounds = None THEN None ELSE <<i.bounds.low, i.bounds.high>>
        /\ t = IF i.type = None THEN None ELSE i.type.name
        /\ o = IF i.orientation = None THEN None ELSE ToAttribute(i.orientation)
  OBVIOUS
<1>2. PICK e : e = [geometry |-> g, sampleFormat |-> i.format, colorSpace |-> i.space, pixelStorage |-> i.storage,
                    bounds |-> b, id |-> i.id, uuid |-> i.uuid, imageType |-> t, offset |-> i.offset,
                    orientation |-> o]
  OBVIOUS
<1>3. ImageElement(i) = e
  BY <1>1, <1>2 DEF ImageElement
<1>4. e = [k \in ImageFields |-> e[k]]
  BY <1>2 DEF ImageFields
<1>5. g \in Opt(Seq(Int \cup {Word}))
  <2>1. \A x \in Lengths : x \in Int \cup {Word}
    BY BoundAssumption DEF Lengths
  <2>2. PICK d \in Seq(Lengths), c \in Lengths : d = i.dimensions /\ c = i.channels
    BY DEF Image
  <2>3. d \in Seq(Int \cup {Word})
    <3>1. Len(d) \in Nat /\ d = [k \in 1 .. Len(d) |-> d[k]] /\ \A k \in 1 .. Len(d) : d[k] \in Lengths
      OBVIOUS
    <3>2. d \in [1 .. Len(d) -> Int \cup {Word}]
      BY <2>1, <3>1
    <3> QED BY <3>1, <3>2, SeqDef
  <2>4. Append(d, c) \in Seq(Int \cup {Word})
    BY <2>1, <2>3
  <2> QED BY <1>1, <2>2, <2>4 DEF Opt
<1>6. b \in Opt(Seq(Number \cup {Word}))
  <2>1. i.bounds /= None => i.bounds.low \in Number /\ i.bounds.high \in Number
    BY DEF Image, Opt
  <2>2. \A x, y \in Number : <<x, y>> \in Seq(Number \cup {Word})
    OBVIOUS
  <2> QED BY <1>1, <2>1, <2>2 DEF Opt
<1>7. i.id \in Opt(Identifiers) /\ i.uuid \in Opt(Seq(Seq(Int))) /\ t \in Opt(STRING)
  BY <1>1 DEF Image, Opt
<1>8. o \in Opt([rotation : Opt(Int), flip : BOOLEAN])
  <2>1. CASE i.orientation = None
    BY <1>1, <2>1 DEF Opt
  <2>2. CASE i.orientation /= None
    <3>1. PICK a \in [rotation : Int, flip : BOOLEAN] : a = i.orientation
      BY <2>2 DEF Image, Opt
    <3>2. ToAttribute(a) \in [rotation : Opt(Int), flip : BOOLEAN]
      BY DEF ToAttribute, Opt
    <3> QED BY <1>1, <2>2, <3>1, <3>2 DEF Opt
  <2> QED BY <2>1, <2>2
<1>9. \A k \in DOMAIN ImageTexts : k \in ImageFields /\ e[k] \in ImageTexts[k]
  <2>1. PICK T : T = ImageTexts
    OBVIOUS
  <2>2. DOMAIN T = {"geometry", "bounds", "id", "uuid", "imageType", "orientation"}
    BY <2>1 DEF ImageTexts
  <2>3. /\ T["geometry"] = Opt(Seq(Int \cup {Word})) /\ T["bounds"] = Opt(Seq(Number \cup {Word}))
        /\ T["id"] = Opt(Identifiers) /\ T["uuid"] = Opt(Seq(Seq(Int))) /\ T["imageType"] = Opt(STRING)
        /\ T["orientation"] = Opt([rotation : Opt(Int), flip : BOOLEAN])
    BY <2>1 DEF ImageTexts
  <2>4. /\ e["geometry"] = g /\ e["bounds"] = b /\ e["id"] = i.id /\ e["uuid"] = i.uuid
        /\ e["imageType"] = t /\ e["orientation"] = o
    BY <1>2
  <2> QED BY <1>5, <1>6, <1>7, <1>8, <2>1, <2>2, <2>3, <2>4 DEF ImageFields
<1> QED BY <1>3, <1>4, <1>9 DEF Fits

LEMMA FitsFurther ==
  ASSUME NEW F, NEW T, NEW x, Fits(x, F, T), NEW field, NEW text, field \in DOMAIN T => text \in T[field],
         NEW y, y = [x EXCEPT ![field] = text]
  PROVE  Fits(y, F, T)
<1>1. x = [k \in F |-> x[k]] /\ \A k \in DOMAIN T : k \in F /\ x[k] \in T[k]
  BY DEF Fits
<1>2. DOMAIN x = F
  BY <1>1
<1>3. y = [k \in F |-> IF k = field THEN text ELSE x[k]]
  BY <1>2
<1>4. y = [k \in F |-> y[k]] /\ \A k \in F : y[k] = IF k = field THEN text ELSE x[k]
  BY <1>3
<1> QED BY <1>1, <1>4 DEF Fits

LEMMA PartsFurther ==
  ASSUME NEW F, NEW T, NEW xs, AreParts(xs, F, T), xs /= <<>>, NEW y, Fits(y, F, T),
         NEW ys, ys = [xs EXCEPT ![1] = y]
  PROVE  AreParts(ys, F, T)
<1>1. PICK n \in Nat : n = Len(xs)
  BY DEF AreParts
<1>2. xs = [i \in 1 .. n |-> xs[i]] /\ \A i \in 1 .. n : Fits(xs[i], F, T)
  BY <1>1 DEF AreParts
<1>3. DOMAIN xs = 1 .. n
  BY <1>2
<1>4. ys = [i \in 1 .. n |-> IF i = 1 THEN y ELSE xs[i]]
  BY <1>3
<1>5. ys = [i \in 1 .. n |-> ys[i]] /\ \A i \in 1 .. n : ys[i] = IF i = 1 THEN y ELSE xs[i]
  BY <1>4
<1>6. Len(ys) = n
  BY <1>5
<1> QED BY <1>2, <1>5, <1>6 DEF AreParts

LEMMA ThumbnailFits ==
  ASSUME NEW i \in Image
  PROVE  Fits(ThumbnailElement(i), ImageFields, ImageTexts)
<1>1. PICK e, f, g : /\ e = ImageElement(i) /\ f = [e EXCEPT !["bounds"] = None]
                     /\ g = [f EXCEPT !["orientation"] = None]
  OBVIOUS
<1>2. None \in ImageTexts["bounds"] /\ None \in ImageTexts["orientation"]
  BY DEF ImageTexts, Opt
<1>3. Fits(e, ImageFields, ImageTexts)
  BY <1>1, ImageFits
<1>4. Fits(f, ImageFields, ImageTexts)
  <2>1. PICK k : k = "bounds"
    OBVIOUS
  <2>2. f = [e EXCEPT ![k] = None]
    BY <1>1, <2>1
  <2> QED BY <1>2, <1>3, <2>1, <2>2, FitsFurther
<1>5. Fits(g, ImageFields, ImageTexts)
  <2>1. PICK k : k = "orientation"
    OBVIOUS
  <2>2. g = [f EXCEPT ![k] = None]
    BY <1>1, <2>1
  <2> QED BY <1>2, <1>4, <2>1, <2>2, FitsFurther
<1>6. ThumbnailElement(i) = f \/ ThumbnailElement(i) = g
  BY <1>1 DEF ThumbnailElement
<1> QED BY <1>4, <1>5, <1>6

LEMMA TableFits ==
  ASSUME NEW t \in Tables
  PROVE  Fits(TableElement(t), TableFields, Texts.tables)
<1>1. PICK s, b : /\ s = [i \in DOMAIN t.fields |-> FieldElement(t.fields[i])]
                  /\ b = [n \in DOMAIN t.rows |-> [k \in DOMAIN t.rows[n] |-> CellElement(t.rows[n][k])]]
  OBVIOUS
<1>2. PICK e : e = [id |-> t.id, caption |-> t.caption, comment |-> t.comment, rows |-> Len(t.rows),
                    columns |-> Len(t.fields), structure |-> s, body |-> b]
  OBVIOUS
<1>3. TableElement(t) = e
  BY <1>1, <1>2 DEF TableElement, FieldElement
<1>4. e = [k \in TableFields |-> e[k]]
  BY <1>2 DEF TableFields
<1>5. /\ s \in Seq(StructureTexts) /\ Len(s) \in Lengths
      /\ b \in Seq(Seq(Cells)) /\ Len(b) \in Lengths
  BY <1>1, TableTextsAre
<1>6. t.id \in Opt(Identifiers) /\ t.caption \in Opt(STRING) /\ t.comment \in Opt(STRING)
  BY DEF Tables, Opt
<1>7. PICK T : T = Texts.tables
  OBVIOUS
<1>8. T = [id |-> Opt(Identifiers), caption |-> Opt(STRING), comment |-> Opt(STRING),
           structure |-> Opt({x \in Seq(StructureTexts) : Len(x) \in Lengths}),
           body |-> {x \in Seq(Seq(Cells)) : Len(x) \in Lengths}]
  BY <1>7 DEF Texts
<1>9. DOMAIN T = {"id", "caption", "comment", "structure", "body"}
  BY <1>8
<1>10. /\ e["id"] \in T["id"] /\ e["caption"] \in T["caption"] /\ e["comment"] \in T["comment"]
       /\ e["structure"] \in T["structure"] /\ e["body"] \in T["body"]
  <2>1. /\ e["id"] = t.id /\ e["caption"] = t.caption /\ e["comment"] = t.comment
        /\ e["structure"] = s /\ e["body"] = b
    BY <1>2
  <2>2. s \in Opt({x \in Seq(StructureTexts) : Len(x) \in Lengths}) /\ b \in {x \in Seq(Seq(Cells)) : Len(x) \in Lengths}
    BY <1>5 DEF Opt
  <2>3. /\ T["id"] = Opt(Identifiers) /\ T["caption"] = Opt(STRING) /\ T["comment"] = Opt(STRING)
        /\ T["structure"] = Opt({x \in Seq(StructureTexts) : Len(x) \in Lengths})
        /\ T["body"] = {x \in Seq(Seq(Cells)) : Len(x) \in Lengths}
    BY <1>8
  <2> QED BY <1>6, <2>1, <2>2, <2>3
<1>11. \A k \in DOMAIN T : k \in TableFields /\ e[k] \in T[k]
  BY <1>9, <1>10 DEF TableFields
<1> QED BY <1>3, <1>4, <1>7, <1>11 DEF Fits

LEMMA RenderedIsElement ==
  ASSUME NEW p, IsPending(p), NEW n, NEW k, NEW r, r = RenderImage(p, n, k), r.ok
  PROVE  IsElement(r.value)
<1>1. PICK z : z = Optional(p.space, WorkingSpaceElement)
  OBVIOUS
<1>2. PICK e : e = r.value
  OBVIOUS
<1>3. z.ok /\ e = Rendered(p, n, k, z)
  BY <1>1, <1>2, RenderedIs
<1>4. e = [x \in ElementFields |-> e[x]]
  BY <1>3 DEF Rendered, ElementFields
<1>13. Alone(e.profiles) /\ Alone(e.previews) /\ (e.previews = <<>> <=> e.thumbnails = <<>>)
  <2>1. PICK x, y, t : x = BlockElement(Profile(p), n, k[2]) /\ y = BlockElement(p.thumbnail, n, k[3])
                       /\ t = ThumbnailElement(p.thumbnail.image)
    OBVIOUS
  <2>2. /\ e.profiles = (IF p.profile = None THEN <<>> ELSE <<x>>)
        /\ e.previews = (IF p.thumbnail = None THEN <<>> ELSE <<y>>)
        /\ e.thumbnails = (IF p.thumbnail = None THEN <<>> ELSE <<t>>)
    BY <1>3, <2>1 DEF Rendered
  <2>3. <<y>> # <<>> /\ <<t>> # <<>>
    OBVIOUS
  <2> QED BY <2>2, <2>3 DEF Alone
<1>5. Fits(e.element, ImageFields, ImageTexts)
  <2>1. e.element = ImageElement(p.image)
    BY <1>3 DEF Rendered
  <2> QED BY <2>1, ImageFits DEF IsPending
<1>6. e.keywords \in Seq(Identifiers)
  <2>1. e.keywords = p.keywords
    BY <1>3 DEF Rendered
  <2> QED BY <2>1 DEF IsPending
<1>7. AreParts(e.resolutions, ResolutionFields, Texts.resolutions)
  <2>1. e.resolutions = OneOrNone(p.resolution)
    BY <1>3 DEF Rendered
  <2>2. CASE p.resolution = None
    BY <2>1, <2>2, NoParts DEF OneOrNone
  <2>3. CASE p.resolution /= None
    <3>1. PICK x \in Resolution : x = p.resolution
      BY <2>3 DEF IsPending, Opt
    <3>2. PICK T : T = Texts.resolutions
      OBVIOUS
    <3>3. T = [horizontal |-> Opt(Number \cup {Word}), vertical |-> Opt(Number \cup {Word})]
      BY <3>2 DEF Texts
    <3>4. DOMAIN T = {"horizontal", "vertical"}
      BY <3>3
    <3>5. x["horizontal"] \in T["horizontal"] /\ x["vertical"] \in T["vertical"]
      BY <3>3 DEF Resolution, Opt
    <3>6. x = [f \in ResolutionFields |-> x[f]]
      BY DEF Resolution, ResolutionFields
    <3>7. Fits(x, ResolutionFields, T)
      BY <3>4, <3>5, <3>6 DEF Fits, ResolutionFields
    <3> QED BY <2>1, <2>3, <3>1, <3>2, <3>7, OnePart DEF OneOrNone
  <2> QED BY <2>2, <2>3
<1>8. AreParts(e.spaces, SpaceFields, Texts.spaces)
  <2>1. e.spaces = OneOrNone(z.value)
    BY <1>3 DEF Rendered
  <2>2. CASE z.value = None
    BY <2>1, <2>2, NoParts DEF OneOrNone
  <2>3. CASE z.value /= None
    <3>1. p.space \in WorkingSpace /\ z = WorkingSpaceElement(p.space)
      BY <1>1, <2>3, GoodIs DEF IsPending, Opt, Optional
    <3>2. PICK s \in WorkingSpace : s = p.space
      BY <3>1
    <3>3. PICK x : x = z.value
      OBVIOUS
    <3>4. x \in WorkingSpace
      BY <1>3, <3>1, <3>2, <3>3, DerivedIs
    <3>5. PICK T : T = Texts.spaces
      OBVIOUS
    <3>6. T = [gamma |-> Opt([srgb : BOOLEAN, exponent : Opt(Number)]),
               x |-> NumberTexts, y |-> NumberTexts, Y |-> NumberTexts, name |-> Opt(STRING)]
      BY <3>5 DEF Texts
    <3>7. DOMAIN T = SpaceFields
      BY <3>6 DEF SpaceFields
    <3>8. x.x \in NumberTexts /\ x.y \in NumberTexts /\ x.Y \in NumberTexts
      <4>1. x.x \in Triples /\ x.y \in Triples /\ x.Y \in Triples
        BY <3>4 DEF WorkingSpace
      <4>2. 3 \in Nat
        OBVIOUS
      <4> QED BY <4>1, <4>2, NumberListsAreTexts DEF Triples
    <3>9. /\ x["gamma"] \in T["gamma"] /\ x["x"] \in T["x"] /\ x["y"] \in T["y"] /\ x["Y"] \in T["Y"]
          /\ x["name"] \in T["name"]
      BY <3>4, <3>6, <3>8 DEF WorkingSpace, Opt
    <3>10. x = [f \in SpaceFields |-> x[f]]
      BY <3>4 DEF WorkingSpace, SpaceFields
    <3>11. Fits(x, SpaceFields, T)
      BY <3>7, <3>9, <3>10 DEF Fits, SpaceFields
    <3> QED BY <2>1, <2>3, <3>3, <3>5, <3>11, OnePart DEF OneOrNone
  <2> QED BY <2>2, <2>3
<1>9. AreParts(e.functions, FunctionFields, Texts.functions)
  <2>1. e.functions = OneOrNone(p.function)
    BY <1>3 DEF Rendered
  <2>2. CASE p.function = None
    BY <2>1, <2>2, NoParts DEF OneOrNone
  <2>3. CASE p.function /= None
    <3>1. PICK x \in DisplayFunction : x = p.function
      BY <2>3 DEF IsPending, Opt
    <3>2. PICK T : T = Texts.functions
      OBVIOUS
    <3>3. T = [m |-> NumberTexts, s |-> NumberTexts, h |-> NumberTexts, l |-> NumberTexts,
               r |-> NumberTexts, name |-> Opt(STRING)]
      BY <3>2 DEF Texts
    <3>4. DOMAIN T = FunctionFields
      BY <3>3 DEF FunctionFields
    <3>5. x.m \in NumberTexts /\ x.s \in NumberTexts /\ x.h \in NumberTexts /\ x.l \in NumberTexts /\ x.r \in NumberTexts
      <4>1. x.m \in Quads /\ x.s \in Quads /\ x.h \in Quads /\ x.l \in Quads /\ x.r \in Quads
        BY DEF DisplayFunction
      <4>2. 4 \in Nat
        OBVIOUS
      <4> QED BY <4>1, <4>2, NumberListsAreTexts DEF Quads
    <3>6. /\ x["m"] \in T["m"] /\ x["s"] \in T["s"] /\ x["h"] \in T["h"] /\ x["l"] \in T["l"]
          /\ x["r"] \in T["r"] /\ x["name"] \in T["name"]
      BY <3>3, <3>5 DEF DisplayFunction
    <3>7. x = [f \in FunctionFields |-> x[f]]
      BY DEF DisplayFunction, FunctionFields
    <3>8. Fits(x, FunctionFields, T)
      BY <3>4, <3>6, <3>7 DEF Fits, FunctionFields
    <3> QED BY <2>1, <2>3, <3>1, <3>2, <3>8, OnePart DEF OneOrNone
  <2> QED BY <2>2, <2>3
<1>10. AreParts(e.filters, FilterFields, Texts.filters)
  <2>1. e.filters = OneOrNone(p.filter)
    BY <1>3 DEF Rendered
  <2>2. CASE p.filter = None
    BY <2>1, <2>2, NoParts DEF OneOrNone
  <2>3. CASE p.filter /= None
    <3>1. PICK x \in FilterArray : x = p.filter
      BY <2>3 DEF IsPending, Opt
    <3>2. PICK T : T = Texts.filters
      OBVIOUS
    <3>3. T = [pattern |-> Opt(Seq(CfaElements \cup {Word})), name |-> Opt(STRING)]
      BY <3>2 DEF Texts
    <3>4. DOMAIN T = {"pattern", "name"}
      BY <3>3
    <3>5. x.pattern \in Seq(CfaElements \cup {Word}) /\ x.name \in Opt(STRING)
      BY DEF FilterArray
    <3>6. x["pattern"] \in T["pattern"] /\ x["name"] \in T["name"]
      BY <3>3, <3>5 DEF Opt
    <3>7. x = [f \in FilterFields |-> x[f]]
      BY DEF FilterArray, FilterFields
    <3>8. Fits(x, FilterFields, T)
      BY <3>4, <3>6, <3>7 DEF Fits, FilterFields
    <3> QED BY <2>1, <2>3, <3>1, <3>2, <3>8, OnePart DEF OneOrNone
  <2> QED BY <2>2, <2>3
<1>11. AreParts(e.thumbnails, ImageFields, Texts.thumbnails)
  <2>1. e.thumbnails = IF p.thumbnail = None THEN <<>> ELSE <<ThumbnailElement(p.thumbnail.image)>>
    BY <1>3 DEF Rendered
  <2>2. CASE p.thumbnail = None
    BY <2>1, <2>2, NoParts
  <2>3. CASE p.thumbnail /= None
    <3>1. PICK i \in Image : i = p.thumbnail.image
      BY <2>3 DEF IsPending
    <3>2. PICK x : x = ThumbnailElement(i)
      OBVIOUS
    <3>3. Texts.thumbnails = ImageTexts
      BY DEF Texts
    <3>4. Fits(x, ImageFields, ImageTexts)
      BY <3>2, ThumbnailFits
    <3> QED BY <2>1, <2>3, <3>1, <3>2, <3>3, <3>4, OnePart
  <2> QED BY <2>2, <2>3
<1>12. AreParts(e.tables, TableFields, Texts.tables)
  <2>1. PICK ts \in Seq(Tables) : ts = p.tables
    BY DEF IsPending
  <2>2. PICK m \in Nat : DOMAIN ts = 1 .. m /\ m = Len(ts)
    OBVIOUS
  <2>3. PICK xs : xs = [i \in 1 .. m |-> TableElement(ts[i])]
    OBVIOUS
  <2>4. e.tables = xs
    BY <1>3, <2>1, <2>2, <2>3 DEF Rendered
  <2>5. xs = [i \in 1 .. m |-> xs[i]] /\ Len(xs) = m
    BY <2>3
  <2>6. \A i \in 1 .. m : Fits(xs[i], TableFields, Texts.tables)
    <3> TAKE i \in 1 .. m
    <3>1. PICK t \in Tables : t = ts[i]
      BY <2>2
    <3> QED BY <2>3, <3>1, TableFits
  <2> QED BY <2>4, <2>5, <2>6 DEF AreParts
<1> QED BY <1>2, <1>4, <1>5, <1>6, <1>7, <1>8, <1>9, <1>10, <1>11, <1>12, <1>13 DEF IsElement

LEMMA KeepsGood ==
  /\ \A x \in Opt(GoodResolutions) : Keep(x, LAMBDA r : Positive(r.horizontal) /\ Positive(r.vertical)) = x
  /\ \A x \in Opt(GoodSpaces) : Keep(x, LAMBDA s : s.gamma.srgb \/ Positive(s.gamma.exponent)) = x
  /\ \A x \in Opt(GoodFunctions) :
       Keep(x, LAMBDA f : \A k \in 1 .. 4 : \A v \in {f.m, f.s, f.h, f.l, f.r} : Finite(v[k])) = x
  /\ \A x \in Opt(GoodFilters) :
       Keep(x, LAMBDA f : f.width * f.height = Len(f.pattern) /\ f.pattern /= <<>>) = x
BY DEF Keep, Opt, GoodResolutions, GoodSpaces, GoodFunctions, IsFiniteFunction, GoodFilters

LEMMA PreviewStays == ASSUME NEW i \in Image, Describable(i) PROVE Preview(i) /= None
<1>1. PICK a : a = AsTyped(i)
  OBVIOUS
<1>2. a \in Image
  <2>1. CASE i.type = None
    BY <1>1, <2>1 DEF AsTyped
  <2>2. CASE i.type /= None
    <3>1. PICK t \in [standard : BOOLEAN, name : STRING] : t = i.type
      BY <2>2 DEF Image, Opt
    <3>2. PICK b : b = (t.name \in ImageTypes)
      OBVIOUS
    <3>6. b \in BOOLEAN
      <4>1. CASE t.name \in ImageTypes
        <5>1. b = TRUE
          BY <3>2, <4>1, Zenon
        <5> QED BY <5>1
      <4>2. CASE t.name \notin ImageTypes
        <5>1. (t.name \in ImageTypes) = FALSE
          BY <4>2
        <5> QED BY <3>2, <5>1
      <4> QED BY <4>1, <4>2
    <3>7. PICK u : u = [t EXCEPT !.standard = b]
      OBVIOUS
    <3>3. u \in [standard : BOOLEAN, name : STRING]
      BY <3>6, <3>7
    <3>4. a = [i EXCEPT !.type = u]
      BY <1>1, <2>2, <3>1, <3>2, <3>7 DEF AsTyped
    <3>5. [i EXCEPT !.type = u] \in Image
      BY <3>3 DEF Image, Opt
    <3> QED BY <3>4, <3>5
  <2> QED BY <2>1, <2>2
<1>3. PICK o, b : o = None /\ b = [a EXCEPT !.orientation = o]
  OBVIOUS
<1>4. b \in Image
  BY <1>2, <1>3 DEF Image, Opt
<1>5. Preview(i) \in {a, b}
  BY <1>1, <1>3, AbsenceAssumption DEF Preview
<1> QED BY <1>2, <1>4, <1>5, AbsenceAssumption

\* What is read of an image can be given to a writer, and described again.
LEMMA GivenIs ==
  ASSUME NEW e, IsElement(e), ParseImage(e.element).ok, NEW im, im = ImageOf(e), NEW p, p = Given(im)
  PROVE  /\ IsPending(p) /\ Describable(p.image)
         /\ [ImageFound(p) EXCEPT !.space = AsDerived(@)] = Settled(im)
<1>1. PICK i, b, l, k, r, s, f, c, g, t, v, ts :
        /\ i = ParseImage(e.element).value
        /\ b = ParseBlock(e.block).value /\ l = ParseLocation(e.location).value /\ k = e.keywords
        /\ r = FirstGood(Each(e.resolutions, ParseResolution))
        /\ s = FirstGood(Each(e.spaces, ParseWorkingSpace))
        /\ f = FirstGood(Each(e.functions, ParseDisplayFunction))
        /\ c = FirstGood(Each(e.filters, ParseFilterArray))
        /\ t = ParseThumbnail(e.thumbnails) /\ ts = Parsed(Each(e.tables, ParseTable))
        /\ g = DataOf(e.profiles) /\ v = IF t = None THEN <<>> ELSE DataOf(e.previews)
  OBVIOUS
<1>2. i \in Image /\ Describable(i) /\ AsTyped(i) = i
  <2>1. FitsTexts(e.element, ImageTexts)
    BY DEF IsElement, Fits, FitsTexts
  <2> QED BY <1>1, <2>1, TypedImages, ImageIsTyped
<1>3. k \in Seq(Identifiers)
  BY <1>1 DEF IsElement
<1>4. r \in Opt(GoodResolutions)
  BY <1>1, ResolutionIsTyped DEF IsElement
<1>5. s \in Opt(GoodSpaces)
  BY <1>1, SpaceIsTyped DEF IsElement
<1>6. f \in Opt(GoodFunctions)
  BY <1>1, FunctionIsTyped DEF IsElement
<1>7. c \in Opt(GoodFilters)
  BY <1>1, FilterIsTyped DEF IsElement
<1>8. t \in Opt(Image)
  BY <1>1, ThumbnailIsTyped DEF IsElement
<1>9. ts \in Seq(Tables)
  <2>1. ts \in Seq(Whole)
    BY <1>1, TablesAreTyped DEF IsElement
  <2>2. Len(ts) \in Nat /\ ts = [j \in 1 .. Len(ts) |-> ts[j]] /\ \A j \in 1 .. Len(ts) : ts[j] \in Tables
    BY <2>1 DEF Whole
  <2>3. ts \in [1 .. Len(ts) -> Tables]
    BY <2>2
  <2> QED BY <2>2, <2>3, SeqDef
<1>10. im = [image |-> i, block |-> b, location |-> l, keywords |-> k, resolution |-> r, space |-> s,
             function |-> f, filter |-> c, profiles |-> g, thumbnail |-> t, previews |-> v, tables |-> ts]
  BY <1>1 DEF ImageOf
<1>11. PICK o, q, d, a : /\ o = Unasked
                         /\ d = DataSize(i)
                         /\ q = IF t = None THEN None ELSE [image |-> t, bytes |-> DataSize(t), options |-> o]
                         /\ a = IF g = <<>> THEN None ELSE ProfileHeader
  OBVIOUS
<1>12. p = [image |-> i, bytes |-> d, options |-> o, profile |-> a, resolution |-> r, space |-> s,
            function |-> f, filter |-> c, keywords |-> k, tables |-> ts, thumbnail |-> q]
  <2>1. /\ im.image = i /\ im.resolution = r /\ im.space = s /\ im.function = f /\ im.filter = c
        /\ im.keywords = k /\ im.tables = ts /\ im.thumbnail = t /\ im.profiles = g
    BY <1>10
  <2> QED BY <1>11, <2>1 DEF Given
<1>13. /\ p.image = i /\ p.bytes = d /\ p.options = o /\ p.profile = a /\ p.resolution = r /\ p.space = s
       /\ p.function = f /\ p.filter = c /\ p.keywords = k /\ p.tables = ts /\ p.thumbnail = q
  BY <1>12
<1>14. o.compression = None /\ o.checksum = None
  BY <1>11 DEF Unasked
<1>21. a \in Opt(Lengths) /\ (a = None <=> g = <<>>)
  BY <1>11, AbsenceAssumption, BoundAssumption DEF ProfileHeader, Lengths, Opt, Number
<1>22. /\ g = <<>> \/ \E x : g = <<x>>
       /\ IF t = None THEN v = <<>> ELSE \E x : v = <<x>>
  <2>1. ASSUME NEW xs, Alone(xs)
        PROVE  IF xs = <<>> THEN DataOf(xs) = <<>> ELSE \E x : DataOf(xs) = <<x>>
    <3>1. CASE xs = <<>>
      BY <3>1, NothingFound
    <3>2. CASE xs # <<>>
      <4>1. PICK y : xs = <<y>>
        BY <2>1, <3>2 DEF Alone
      <4>2. PICK x : x = ParseBlock(y.block).value
        OBVIOUS
      <4>3. DOMAIN xs = 1 .. 1 /\ \A j \in 1 .. 1 : ParseBlock(xs[j].block).value = x
        BY <4>1, <4>2
      <4>4. DataOf(xs) = [j \in 1 .. 1 |-> x]
        BY <4>3 DEF DataOf
      <4>5. DataOf(xs) = <<x>>
        BY <4>4, OneIs
      <4> QED BY <3>2, <4>5
    <3> QED BY <3>1, <3>2
  <2>2. Alone(e.profiles) /\ Alone(e.previews) /\ (e.previews = <<>> <=> e.thumbnails = <<>>)
    BY DEF IsElement
  <2>3. e.thumbnails = <<>> => t = None
    BY <1>1 DEF ParseThumbnail
  <2> QED BY <1>1, <2>1, <2>2, <2>3
<1>15. t /= None => q /= None /\ q.image = t /\ q.options = o
  <2>1. ASSUME t /= None
        PROVE  q /= None /\ q.image = t /\ q.options = o
    <3>1. t \in Image
      BY <1>8, <2>1 DEF Opt
    <3>2. PICK n \in Opt(Lengths) : n = DataSize(t)
      BY <3>1, SizeIs
    <3>3. q = [image |-> t, bytes |-> n, options |-> o]
      BY <1>11, <2>1, <3>2
    <3>4. [image |-> t, bytes |-> n, options |-> o] \in [image : Image, bytes : Opt(Lengths), options : {Unasked}]
      BY <1>11, <3>1
    <3> QED BY <3>3, <3>4, AbsenceAssumption
  <2> QED BY <2>1
<1>16. t = None => q = None
  BY <1>11
<1>17. IsPending(p)
  <2>1. r \in Opt(Resolution) /\ s \in Opt(WorkingSpace) /\ f \in Opt(DisplayFunction) /\ c \in Opt(FilterArray)
    BY <1>4, <1>5, <1>6, <1>7 DEF Opt, GoodResolutions, GoodSpaces, GoodFunctions, GoodFilters
  <2>2. p.options.compression = None /\ p.options.checksum = None
    BY <1>13, <1>14
  <2>4. None \in Opt(Compressions) /\ None \in Opt(Algorithms)
    BY DEF Opt
  <2>3. p.thumbnail /= None => p.thumbnail.image \in Image /\ IsBlock(p.thumbnail)
    BY <1>8, <1>13, <1>14, <1>15, <1>16, <2>4 DEF Opt, IsBlock
  <2>5. IsBlock(p)
    BY <2>2, <2>4 DEF IsBlock
  <2> QED BY <1>2, <1>3, <1>9, <1>13, <1>21, <2>1, <2>3, <2>5 DEF IsPending
<1>23. PICK g2, t2, v2 : /\ g2 = (IF g = <<>> THEN <<>> ELSE <<o>>) /\ t2 = Preview(t)
                         /\ v2 = (IF t = None THEN <<>> ELSE <<o>>)
  OBVIOUS
<1>24. PreviewFound(p.thumbnail) = t2 /\ (t2 = None <=> t = None)
  <2>1. Preview(None) = None
    BY DEF Preview
  <2>2. PreviewFound(p.thumbnail) = t2
    BY <1>13, <1>15, <1>16, <1>23, <2>1 DEF PreviewFound
  <2>3. t /= None => t2 /= None
    <3> SUFFICES ASSUME t /= None PROVE t2 /= None
      OBVIOUS
    <3>2. PICK xs : xs = e.thumbnails
      OBVIOUS
    <3>3. AreParts(xs, ImageFields, Texts.thumbnails) /\ t = ParseThumbnail(xs)
      BY <1>1, <3>2 DEF IsElement
    <3>1. t \in Image /\ Describable(t)
      BY <3>3, ThumbnailIsTyped DEF Opt
    <3> QED BY <1>23, <3>1, PreviewStays
  <2> QED BY <1>23, <2>1, <2>2, <2>3
<1>25. ASSUME NEW b2, b2.options = o
       PROVE  BlockFound(b2) = o
  <2>1. StoredCompression(b2) = None /\ StoredChecksum(b2) = None
    BY <1>14, <1>25 DEF StoredCompression, StoredChecksum
  <2> QED BY <1>11, <2>1 DEF BlockFound, Unasked
<1>18. ImageFound(p) = ShownOf(i, o, k, r, s, f, c, g2, t2, v2, TablesFound(ts))
  <2>1. BlockFound(p) = o
    BY <1>13, <1>25
  <2>2. (IF p.profile = None THEN <<>> ELSE <<Unasked>>) = g2
    BY <1>11, <1>13, <1>21, <1>23
  <2>3. (IF PreviewFound(p.thumbnail) = None THEN <<>> ELSE <<BlockFound(p.thumbnail)>>) = v2
    BY <1>13, <1>15, <1>23, <1>24, <1>25
  <2>4. PICK w : w = TablesFound(ts)
    OBVIOUS
  <2>5. /\ Keep(p.resolution, LAMBDA x : Positive(x.horizontal) /\ Positive(x.vertical)) = r
        /\ Keep(p.space, LAMBDA x : x.gamma.srgb \/ Positive(x.gamma.exponent)) = s
        /\ Keep(p.function, LAMBDA x : \A n \in 1 .. 4 : \A y \in {x.m, x.s, x.h, x.l, x.r} : Finite(y[n])) = f
        /\ Keep(p.filter, LAMBDA x : x.width * x.height = Len(x.pattern) /\ x.pattern /= <<>>) = c
    BY <1>4, <1>5, <1>6, <1>7, <1>13, KeepsGood
  <2>6. AsTyped(p.image) = i /\ TablesFound(p.tables) = w
    BY <1>2, <1>13, <2>4
  <2> QED BY <1>13, <1>24, <2>1, <2>2, <2>3, <2>4, <2>5, <2>6 DEF ImageFound, ShownOf
<1>19. [ImageFound(p) EXCEPT !.space = AsDerived(@)] = ShownOf(i, o, k, r, AsDerived(s), f, c, g2, t2, v2, TablesFound(ts))
  <2>1. ImageFound(p).space = s
    BY <1>18 DEF ShownOf
  <2> QED BY <1>18, <2>1, ShownWith
<1>20. Settled(im) = ShownOf(i, o, k, r, AsDerived(s), f, c, g2, t2, v2, TablesFound(ts))
  <2>1. PICK x : x = ShownOf(i, b, k, r, s, f, c, g, t, v, ts)
    OBVIOUS
  <2>2. Shown(im) = x
    BY <1>10, <2>1, ShownIs
  <2>3. x.space = s /\ x.thumbnail = t /\ x.tables = ts /\ x.profiles = g /\ x.previews = v
    BY <2>1 DEF ShownOf
  <2>4. PICK s2, ts2 : s2 = AsDerived(s) /\ ts2 = TablesFound(ts)
    OBVIOUS
  <2>14. [j \in DOMAIN g |-> o] = g2 /\ [j \in DOMAIN v |-> o] = v2
    <3>1. ASSUME NEW xs, xs = <<>> \/ \E y : xs = <<y>>
          PROVE  [j \in DOMAIN xs |-> o] = IF xs = <<>> THEN <<>> ELSE <<o>>
      <4>1. CASE xs = <<>>
        BY <4>1
      <4>2. CASE xs # <<>>
        <5>1. DOMAIN xs = 1 .. 1
          BY <3>1, <4>2
        <5> QED BY <4>2, <5>1, OneIs
      <4> QED BY <4>1, <4>2
    <3>2. \A y : <<y>> # <<>>
      OBVIOUS
    <3>3. v = <<>> <=> t = None
      BY <1>22, <3>2
    <3> QED BY <1>22, <1>23, <3>1, <3>3
  <2>5. Settled(im) = [x EXCEPT !.block = o, !.profiles = g2, !.previews = v2, !.space = s2,
                                !.thumbnail = t2, !.tables = ts2]
    <3>1. Settled(im) = [x EXCEPT !.block = o, !.profiles = [j \in DOMAIN x.profiles |-> o],
                                  !.previews = [j \in DOMAIN x.previews |-> o],
                                  !.space = AsDerived(x.space), !.thumbnail = Preview(x.thumbnail),
                                  !.tables = TablesFound(x.tables)]
      BY <1>11, <2>1, <2>2 DEF Settled, ShownOf
    <3> QED BY <1>23, <2>3, <2>4, <2>14, <3>1
  <2>6. PICK y1, y2, x1, x2, x3, x4 :
          /\ y1 = ShownOf(i, o, k, r, s, f, c, g, t, v, ts) /\ y2 = ShownOf(i, o, k, r, s, f, c, g2, t, v, ts)
          /\ x1 = ShownOf(i, o, k, r, s, f, c, g2, t, v2, ts) /\ x2 = ShownOf(i, o, k, r, s2, f, c, g2, t, v2, ts)
          /\ x3 = ShownOf(i, o, k, r, s2, f, c, g2, t2, v2, ts)
          /\ x4 = ShownOf(i, o, k, r, s2, f, c, g2, t2, v2, ts2)
    OBVIOUS
  <2>7. [x EXCEPT !.block = o] = y1
    BY <2>1, <2>6 DEF ShownOf
  <2>15. [y1 EXCEPT !.profiles = g2] = y2
    BY <2>6 DEF ShownOf
  <2>16. [y2 EXCEPT !.previews = v2] = x1
    BY <2>6 DEF ShownOf
  <2>8. [x1 EXCEPT !.space = s2] = x2
    BY <2>6 DEF ShownOf
  <2>9. [x2 EXCEPT !.thumbnail = t2] = x3
    BY <2>6 DEF ShownOf
  <2>10. [x3 EXCEPT !.tables = ts2] = x4
    BY <2>6 DEF ShownOf
  <2>11. [x EXCEPT !.block = o, !.profiles = g2, !.previews = v2, !.space = s2, !.thumbnail = t2, !.tables = ts2] =
           [[[[[[x EXCEPT !.block = o] EXCEPT !.profiles = g2] EXCEPT !.previews = v2] EXCEPT !.space = s2]
               EXCEPT !.thumbnail = t2] EXCEPT !.tables = ts2]
    OBVIOUS
  <2>12. Settled(im) =
           [[[[[[x EXCEPT !.block = o] EXCEPT !.profiles = g2] EXCEPT !.previews = v2] EXCEPT !.space = s2]
               EXCEPT !.thumbnail = t2] EXCEPT !.tables = ts2]
    BY <2>5, <2>11
  <2>13. Settled(im) = x4
    BY <2>7, <2>8, <2>9, <2>10, <2>12, <2>15, <2>16
  <2> QED BY <2>4, <2>6, <2>13
<1> QED BY <1>2, <1>13, <1>17, <1>19, <1>20

-----------------------------------------------------------------------------
(* What is read of a unit's properties.                                    *)

\* The indices of the elements in a set.
Of(s, G) == {i \in 1 .. Len(s) : s[i] \in G}

LEMMA KeptOfBoth ==
  ASSUME NEW S, NEW s \in Seq(S), NEW t \in Seq(S), NEW G, NEW u, IsBehind(u, s, t)
  PROVE  IsBehind(Kept(u, Of(u, G)), Kept(s, Of(s, G)), Kept(t, Of(t, G)))
<1>1. PICK m \in Nat, n \in Nat : m = Len(s) /\ n = Len(t)
  OBVIOUS
<1>2. /\ Len(u) = m + n /\ (\A i \in 1 .. m : u[i] = s[i]) /\ (\A i \in 1 .. n : u[i + m] = t[i])
  BY <1>1 DEF IsBehind
<1>3. IsFront(Of(s, G), s, Of(u, G))
  <2>1. \A i \in 1 .. m : i \in 1 .. m + n
    BY <1>1
  <2> QED BY <1>1, <1>2, <2>1 DEF Of, IsFront
<1>4. IsBack(Of(t, G), s, t, Of(u, G))
  <2>1. \A i \in 1 .. n : i + m \in 1 .. m + n
    BY <1>1
  <2> QED BY <1>1, <1>2, <2>1 DEF Of, IsBack
<1> QED BY <1>3, <1>4, KeptBehind

LEMMA OneMore ==
  ASSUME NEW S, NEW y \in Seq(S), NEW z \in S
  PROVE  /\ y \o <<z>> \in Seq(S) /\ Len(y \o <<z>>) = Len(y) + 1 /\ (y \o <<z>>)[Len(y) + 1] = z
         /\ \A i \in 1 .. Len(y) : (y \o <<z>>)[i] = y[i]
OBVIOUS

LEMMA Regrouped ==
  ASSUME NEW S, NEW s \in Seq(S), NEW t \in Seq(S), NEW u \in Seq(S),
         NEW x, IsBehind(x, s, t), NEW y, IsBehind(y, t, u), NEW w, IsBehind(w, x, u)
  PROVE  IsBehind(w, s, y)
<1>1. (s \o t) \o u = s \o (t \o u)
  BY ConcatAssociative
<1> QED BY <1>1 DEF IsBehind

LEMMA KeptOfOne ==
  ASSUME NEW G, NEW x \in G
  PROVE  Kept(<<x>>, Of(<<x>>, G)) = <<x>>
<1>1. PICK s : s = <<x>>
  OBVIOUS
<1>2. s \in Seq({x}) /\ 1 .. Len(s) \subseteq Of(s, G)
  BY <1>1 DEF Of
<1> QED BY <1>1, <1>2, KeptAll

LEMMA KeptIn ==
  ASSUME NEW S, NEW s \in Seq(S), NEW keep
  PROVE  Kept(s, keep) \in Seq(S)
BY KeptTogether

\* What is kept between two that are, and before the last ones.
Around(s, a, b, v, z) == s = (<<a>> \o b) \o v \o <<z>>

LEMMA KeptBetween ==
  ASSUME NEW S, NEW G, NEW a \in S, a \in G, NEW z \in S, z \in G,
         NEW l \in Seq(S), NEW k \in Seq(S), NEW u \in Seq(S), NEW s, Around(s, a, l \o k, u, z)
  PROVE  \E b \in Seq(S) : Around(Kept(s, Of(s, G)), a, b, Kept(u, Of(u, G)), z)
<1>1. PICK f, g, s1, s2, s3, s4, b1, b2, v, b :
        /\ f = <<a>> /\ g = <<z>> /\ s1 = f \o l /\ s2 = s1 \o k /\ s3 = s2 \o u /\ s4 = s3 \o g
        /\ b1 = Kept(l, Of(l, G)) /\ b2 = Kept(k, Of(k, G)) /\ v = Kept(u, Of(u, G)) /\ b = b1 \o b2
  OBVIOUS
<1>2. f \in Seq(S) /\ g \in Seq(S)
  BY <1>1
<1>3. b1 \in Seq(S) /\ b2 \in Seq(S) /\ v \in Seq(S)
  BY <1>1, KeptIn
<1>4. s1 \in Seq(S) /\ b \in Seq(S)
  BY <1>1, <1>2, <1>3
<1>5. s2 \in Seq(S)
  BY <1>1, <1>4
<1>6. s3 \in Seq(S)
  BY <1>1, <1>5
<1>7. Kept(f, Of(f, G)) = f /\ Kept(g, Of(g, G)) = g
  BY <1>1, KeptOfOne
<1>8. Kept(s1, Of(s1, G)) = f \o b1
  <2>1. IsBehind(s1, f, l)
    BY <1>1 DEF IsBehind
  <2>2. IsBehind(Kept(s1, Of(s1, G)), f, b1)
    BY <1>1, <1>2, <1>7, <2>1, KeptOfBoth
  <2> QED BY <2>2 DEF IsBehind
<1>9. Kept(s2, Of(s2, G)) = (f \o b1) \o b2
  <2>1. IsBehind(s2, s1, k)
    BY <1>1 DEF IsBehind
  <2>2. IsBehind(Kept(s2, Of(s2, G)), f \o b1, b2)
    BY <1>1, <1>4, <1>8, <2>1, KeptOfBoth
  <2> QED BY <2>2 DEF IsBehind
<1>10. Kept(s3, Of(s3, G)) = ((f \o b1) \o b2) \o v
  <2>1. IsBehind(s3, s2, u)
    BY <1>1 DEF IsBehind
  <2>2. IsBehind(Kept(s3, Of(s3, G)), (f \o b1) \o b2, v)
    BY <1>1, <1>5, <1>9, <2>1, KeptOfBoth
  <2> QED BY <2>2 DEF IsBehind
<1>11. Kept(s4, Of(s4, G)) = (((f \o b1) \o b2) \o v) \o g
  <2>1. IsBehind(s4, s3, g)
    BY <1>1 DEF IsBehind
  <2>2. IsBehind(Kept(s4, Of(s4, G)), ((f \o b1) \o b2) \o v, g)
    BY <1>2, <1>6, <1>7, <1>10, <2>1, KeptOfBoth
  <2> QED BY <2>2 DEF IsBehind
<1>12. (f \o b1) \o b2 = f \o b
  <2>1. IsBehind(f \o b1, f, b1) /\ IsBehind(b, b1, b2) /\ IsBehind((f \o b1) \o b2, f \o b1, b2)
    BY <1>1 DEF IsBehind
  <2>2. IsBehind((f \o b1) \o b2, f, b)
    BY <1>2, <1>3, <2>1, Regrouped
  <2> QED BY <2>2 DEF IsBehind
<1>13. s4 = s
  <2>1. s = (f \o (l \o k)) \o u \o g
    BY <1>1 DEF Around
  <2>2. l \in Seq(S) /\ k \in Seq(S) /\ f \in Seq(S)
    BY <1>2
  <2>3. (f \o l) \o k = f \o (l \o k)
    <3>1. /\ IsBehind(f \o l, f, l) /\ IsBehind(l \o k, l, k)
          /\ IsBehind((f \o l) \o k, f \o l, k)
      BY DEF IsBehind
    <3>2. IsBehind((f \o l) \o k, f, l \o k)
      BY <2>2, <3>1, Regrouped
    <3> QED BY <3>2 DEF IsBehind
  <2> QED BY <1>1, <2>1, <2>3
<1>14. Kept(s4, Of(s4, G)) = (<<a>> \o b) \o v \o <<z>>
  BY <1>1, <1>11, <1>12
<1>15. Around(Kept(s, Of(s, G)), a, b, Kept(u, Of(u, G)), z)
  BY <1>1, <1>13, <1>14 DEF Around
<1> QED BY <1>4, <1>15

\* The place of what is between.
LEMMA PlaceBetween ==
  ASSUME NEW S, NEW a \in S, NEW b \in Seq(S), NEW v \in Seq(S), NEW z \in S,
         NEW s, Around(s, a, b, v, z)
  PROVE  /\ Len(s) \in Nat /\ Len(s) >= Len(v) + 2 /\ s[1] = a /\ s[Len(s)] = z /\ DOMAIN s = 1 .. Len(s)
         /\ \A i \in 1 .. Len(v) : s[Len(s) - Len(v) - 1 + i] = v[i]
<1>1. PICK m \in Nat, n \in Nat : m = Len(b) /\ n = Len(v)
  OBVIOUS
<1>2. PICK x, y : x = <<a>> \o b /\ y = x \o v
  OBVIOUS
<1>3. x \in Seq(S) /\ Len(x) = 1 + m /\ x[1] = a
  BY <1>1, <1>2
<1>4. y \in Seq(S) /\ Len(y) = 1 + m + n /\ y[1] = a /\ \A i \in 1 .. n : y[1 + m + i] = v[i]
  BY <1>1, <1>2, <1>3
<1>6. s \in Seq(S) /\ Len(s) = 2 + m + n /\ s[2 + m + n] = z /\ \A i \in 1 .. 1 + m + n : s[i] = y[i]
  <2>1. PICK l : l = Len(y)
    OBVIOUS
  <2>2. l = 1 + m + n /\ y \in Seq(S)
    BY <1>4, <2>1
  <2>3. s = y \o <<z>>
    BY <1>2 DEF Around
  <2>5. s \in Seq(S) /\ Len(s) = l + 1 /\ s[l + 1] = z /\ \A i \in 1 .. l : s[i] = y[i]
    <3>1. y \in Seq(S) /\ z \in S
      BY <2>2
    <3>2. /\ y \o <<z>> \in Seq(S) /\ Len(y \o <<z>>) = Len(y) + 1 /\ (y \o <<z>>)[Len(y) + 1] = z
          /\ \A i \in 1 .. Len(y) : (y \o <<z>>)[i] = y[i]
      BY <3>1, OneMore
    <3> QED BY <2>1, <2>3, <3>2
  <2>6. l + 1 = 2 + m + n
    BY <1>1, <2>2
  <2> QED BY <2>2, <2>5, <2>6
<1>7. \A i \in 1 .. n : s[1 + m + i] = v[i]
  BY <1>1, <1>4, <1>6
<1>8. \A i \in 1 .. n : s[Len(s) - n - 1 + i] = v[i]
  <2>1. \A i \in 1 .. n : Len(s) - n - 1 + i = 1 + m + i
    BY <1>1, <1>6
  <2> QED BY <1>7, <2>1
<1>9. s[1] = a
  BY <1>1, <1>4, <1>6
<1>10. Len(s) \in Nat /\ Len(s) >= n + 2 /\ s[Len(s)] = z /\ DOMAIN s = 1 .. Len(s)
  BY <1>1, <1>6
<1> QED BY <1>1, <1>8, <1>9, <1>10

\* The statement of a property, and the text found in it.
LEMMA PropertyIs ==
  ASSUME NEW p, p.value /= None
  PROVE  LET e == PropertyElement(p.id, p.type, p.value)
         IN  /\ e.id = p.id
             /\ TextOf(e) /= None <=> p.type /= "String" \/ p.value /= Empty
             /\ TextOf(e) /= None => TextOf(e) = p.value
<1>1. PICK e : e = PropertyElement(p.id, p.type, p.value)
  OBVIOUS
<1>2. /\ e.id = p.id /\ e.value = (IF p.type = "String" THEN None ELSE p.value)
      /\ e.text = (IF p.type = "String" /\ p.value /= Empty THEN p.value ELSE None)
  BY <1>1 DEF PropertyElement
<1> QED BY <1>1, <1>2 DEF TextOf

LEMMA StatementsAre ==
  LET first == PropertyElement("XISF:CreationTime", "TimePoint", Time)
      last == PropertyElement("XISF:CreatorApplication", "String", Creator)
  IN  /\ first.id = "XISF:CreationTime" /\ TextOf(first) = Time /\ Time /= None
      /\ last.id = "XISF:CreatorApplication" /\ TextOf(last) = Creator /\ Creator /= None
<1>1. PICK e, f : /\ e = PropertyElement("XISF:CreationTime", "TimePoint", Time)
                  /\ f = PropertyElement("XISF:CreatorApplication", "String", Creator)
  OBVIOUS
<1>2. e.id = "XISF:CreationTime" /\ e.value = Time
  BY <1>1 DEF PropertyElement
<1>3. f.id = "XISF:CreatorApplication" /\ f.value = None /\ f.text = Creator
  BY <1>1, TextAssumption DEF PropertyElement
<1> QED BY <1>1, <1>2, <1>3, TextAssumption DEF TextOf

Statements(u) ==
  [i \in DOMAIN u.metadata |-> PropertyElement(u.metadata[i].id, u.metadata[i].type, u.metadata[i].value)]

LEMMA MetadataIs ==
  ASSUME NEW u, u.time = Time, u.creator = Creator
  PROVE  \E x, y : \E l \in {<<>>, <<x>>} : \E k \in {<<>>, <<y>>} :
           MetadataElements(u) =
             <<PropertyElement("XISF:CreationTime", "TimePoint", Time)>> \o l \o k \o Statements(u)
               \o <<PropertyElement("XISF:CreatorApplication", "String", Creator)>>
<1> DEFINE stored == Filter(Blocks(u.images), LAMBDA b : b /= None)
           blocks == [i \in DOMAIN stored |-> BlockAttrs(stored[i])]
           algorithms == Mentioned([i \in DOMAIN blocks |->
                           IF blocks[i].checksum = None THEN None ELSE blocks[i].checksum.name])
           codecs == Mentioned([i \in DOMAIN blocks |->
                       IF blocks[i].compression = None THEN None ELSE blocks[i].compression.codec])
           x == PropertyElement("XISF:ChecksumAlgorithms", "String", algorithms)
           y == PropertyElement("XISF:CompressionCodecs", "String", codecs)
           l == IF algorithms = <<>> THEN <<>> ELSE <<x>>
           k == IF codecs = <<>> THEN <<>> ELSE <<y>>
<1>1. MetadataElements(u) =
        <<PropertyElement("XISF:CreationTime", "TimePoint", Time)>> \o l \o k \o Statements(u)
          \o <<PropertyElement("XISF:CreatorApplication", "String", Creator)>>
  BY DEF MetadataElements, Statements
<1> HIDE DEF algorithms, codecs, x, y
<1>2. l \in {<<>>, <<x>>} /\ k \in {<<>>, <<y>>}
  OBVIOUS
<1> HIDE DEF l, k
<1> QED BY <1>1, <1>2

HasText(e) == TextOf(e) /= None

\* What a reader tells of properties.
Told(properties) ==
  LET kept == Filter(properties, HasText)
  IN  [i \in DOMAIN kept |-> <<kept[i].id, TextOf(kept[i])>>]

IsToldOf(p) == p.type /= "String" \/ p.value /= Empty

LEMMA StatementsTold ==
  ASSUME NEW u, u.metadata \in Seq(GivenProperties), NEW G,
         \A i \in DOMAIN u.metadata : Statements(u)[i] \in G <=> HasText(Statements(u)[i])
  PROVE  LET v == Kept(Statements(u), Of(Statements(u), G))
             user == Filter(u.metadata, IsToldOf)
         IN  /\ Len(v) = Len(user) /\ Len(v) \in Nat /\ user \in Seq(GivenProperties)
             /\ \A i \in 1 .. Len(v) : v[i].id = user[i].id /\ TextOf(v[i]) = user[i].value
<1>1. PICK m, s : m = u.metadata /\ s = Statements(u)
  OBVIOUS
<1>2. m \in Seq(GivenProperties) /\ DOMAIN m = 1 .. Len(m) /\ Len(m) \in Nat
  BY <1>1
<1>3. s = [i \in 1 .. Len(m) |-> PropertyElement(m[i].id, m[i].type, m[i].value)]
  BY <1>1, <1>2 DEF Statements
<1>4. DOMAIN s = 1 .. Len(m) /\ \A i \in 1 .. Len(m) : s[i] = PropertyElement(m[i].id, m[i].type, m[i].value)
  BY <1>3
<1>5. s = [i \in 1 .. Len(m) |-> s[i]]
  BY <1>3
<1> DEFINE S == {s[i] : i \in 1 .. Len(m)}
<1>6. s \in Seq(S) /\ Len(s) = Len(m)
  <2>1. s \in [1 .. Len(m) -> S]
    BY <1>5
  <2> HIDE DEF S
  <2> QED BY <1>2, <2>1
<1>7. ASSUME NEW i \in 1 .. Len(m)
      PROVE  /\ s[i].id = m[i].id
             /\ HasText(s[i]) <=> IsToldOf(m[i])
             /\ HasText(s[i]) => TextOf(s[i]) = m[i].value
  <2>1. PICK p : p = m[i]
    OBVIOUS
  <2>2. p.value /= None
    BY <1>2, <2>1, GivenAssumption
  <2>3. s[i] = PropertyElement(p.id, p.type, p.value)
    BY <1>4, <2>1
  <2> QED BY <2>1, <2>2, <2>3, PropertyIs DEF HasText, IsToldOf
<1>8. Of(s, G) = {i \in DOMAIN m : IsToldOf(m[i])}
  <2>1. \A i \in 1 .. Len(m) : s[i] \in G <=> IsToldOf(m[i])
    <3>1. \A i \in DOMAIN m : s[i] \in G <=> HasText(s[i])
      BY <1>1
    <3> QED BY <1>2, <1>7, <3>1
  <2>2. Of(s, G) = {i \in 1 .. Len(m) : s[i] \in G}
    BY <1>6 DEF Of
  <2> QED BY <1>2, <2>1, <2>2
<1>9. PICK keep, v, user : keep = Of(s, G) /\ v = Kept(s, keep) /\ user = Kept(m, keep)
  OBVIOUS
<1>10. /\ v \in Seq(S) /\ user \in Seq(GivenProperties) /\ Paired(v, user, s, m, keep)
  <2> HIDE DEF S
  <2>1. Len(s) = Len(m)
    BY <1>6
  <2> QED BY <1>2, <1>6, <1>9, <2>1, KeptTogether
<1>11. user = Filter(u.metadata, IsToldOf)
  BY <1>1, <1>8, <1>9 DEF Filter
<1>12. ASSUME NEW j \in 1 .. Len(v)
       PROVE  v[j].id = user[j].id /\ TextOf(v[j]) = user[j].value
  <2>1. PICK i \in 1 .. Len(s) : i \in keep /\ v[j] = s[i] /\ user[j] = m[i]
    BY <1>10 DEF Paired
  <2>2. IsToldOf(m[i])
    BY <1>8, <1>9, <2>1
  <2> QED BY <1>6, <1>7, <2>1, <2>2
<1>13. Len(v) = Len(user) /\ Len(v) \in Nat
  <2> HIDE DEF S
  <2> QED BY <1>10 DEF Paired
<1> QED BY <1>1, <1>9, <1>10, <1>11, <1>12, <1>13

LEMMA MetadataIsFound ==
  ASSUME NEW u, u.time = Time, u.creator = Creator, u.metadata \in Seq(GivenProperties)
  PROVE  LET told == Told(MetadataElements(u))
             user == Filter(u.metadata, IsToldOf)
         IN  /\ told[1] = <<"XISF:CreationTime", Time>>
             /\ told[Len(told)] = <<"XISF:CreatorApplication", Creator>>
             /\ SubSeq(told, Len(told) - Len(user), Len(told) - 1) =
                  [k \in DOMAIN user |-> <<user[k].id, user[k].value>>]
<1>1. PICK a, z : /\ a = PropertyElement("XISF:CreationTime", "TimePoint", Time)
                  /\ z = PropertyElement("XISF:CreatorApplication", "String", Creator)
  OBVIOUS
<1>2. PICK s, r : s = MetadataElements(u) /\ r = Statements(u)
  OBVIOUS
<1>3. PICK x, y, l, k : /\ l \in {<<>>, <<x>>} /\ k \in {<<>>, <<y>>}
                        /\ s = <<a>> \o l \o k \o r \o <<z>>
  <2>1. PICK x, y : \E l \in {<<>>, <<x>>} : \E k \in {<<>>, <<y>>} :
                      MetadataElements(u) =
             <<PropertyElement("XISF:CreationTime", "TimePoint", Time)>> \o l \o k \o Statements(u)
               \o <<PropertyElement("XISF:CreatorApplication", "String", Creator)>>
    BY MetadataIs
  <2>2. PICK l \in {<<>>, <<x>>}, k \in {<<>>, <<y>>} :
          MetadataElements(u) =
             <<PropertyElement("XISF:CreationTime", "TimePoint", Time)>> \o l \o k \o Statements(u)
               \o <<PropertyElement("XISF:CreatorApplication", "String", Creator)>>
    BY <2>1
  <2>3. s = <<a>> \o l \o k \o r \o <<z>>
    BY <1>1, <1>2, <2>2
  <2> QED BY <2>2, <2>3
<1> DEFINE S == {a, z, x, y} \cup {r[i] : i \in DOMAIN u.metadata}
           G == {e \in S : HasText(e)}
<1>4. a \in S /\ z \in S /\ a \in G /\ z \in G
  BY <1>1, StatementsAre DEF HasText
<1>5. l \in Seq(S) /\ k \in Seq(S)
  <2>1. x \in S /\ y \in S
    OBVIOUS
  <2> HIDE DEF S
  <2>2. <<x>> \in Seq(S) /\ <<y>> \in Seq(S) /\ <<>> \in Seq(S)
    BY <2>1
  <2> QED BY <1>3, <2>2
<1>6. r \in Seq(S)
  <2>1. PICK n \in Nat : n = Len(u.metadata) /\ DOMAIN u.metadata = 1 .. n
    OBVIOUS
  <2>2. \A i \in 1 .. n : r[i] \in S
    BY <2>1
  <2>3. r = [i \in 1 .. n |-> r[i]]
    BY <1>2, <2>1 DEF Statements
  <2> HIDE DEF S
  <2>4. r \in [1 .. n -> S]
    BY <2>2, <2>3
  <2> QED BY <2>4
<1>7. \A i \in DOMAIN u.metadata : r[i] \in G <=> HasText(r[i])
  OBVIOUS
<1>8. Filter(s, HasText) = Kept(s, Of(s, G)) /\ s \in Seq(S)
  <2>1. s \in Seq(S)
    <3>1. <<a>> \in Seq(S) /\ <<z>> \in Seq(S)
      BY <1>4
    <3> HIDE DEF S, G
    <3>2. <<a>> \o l \in Seq(S)
      BY <1>5, <3>1
    <3>3. <<a>> \o l \o k \in Seq(S)
      BY <1>5, <3>2
    <3>4. <<a>> \o l \o k \o r \in Seq(S)
      BY <1>6, <3>3
    <3> QED BY <1>3, <3>1, <3>4
  <2>2. DOMAIN s = 1 .. Len(s) /\ \A i \in 1 .. Len(s) : s[i] \in S
    <3> HIDE DEF S
    <3> QED BY <2>1
  <2>3. Of(s, G) = {i \in DOMAIN s : HasText(s[i])}
    <3>1. \A e \in S : e \in G <=> HasText(e)
      OBVIOUS
    <3> HIDE DEF S, G
    <3> QED BY <2>2, <3>1 DEF Of
  <2> QED BY <2>1, <2>3 DEF Filter
<1> HIDE DEF S, G
<1>9. PICK kept, v, user : /\ kept = Filter(s, HasText) /\ v = Kept(r, Of(r, G))
                           /\ user = Filter(u.metadata, IsToldOf)
  OBVIOUS
<1>10. PICK b \in Seq(S) : Around(kept, a, b, v, z)
  <2>1. Around(s, a, l \o k, r, z)
    <3>1. PICK g : g = <<a>>
      OBVIOUS
    <3>2. g \in Seq(S)
      BY <1>4, <3>1
    <3>3. IsBehind(g \o l, g, l) /\ IsBehind(l \o k, l, k) /\ IsBehind((g \o l) \o k, g \o l, k)
      BY DEF IsBehind
    <3>4. IsBehind((g \o l) \o k, g, l \o k)
      BY <1>5, <3>2, <3>3, Regrouped
    <3> QED BY <1>3, <3>1, <3>4 DEF Around, IsBehind
  <2>2. \E b \in Seq(S) : Around(Kept(s, Of(s, G)), a, b, Kept(r, Of(r, G)), z)
    BY <1>4, <1>5, <1>6, <2>1, KeptBetween
  <2> QED BY <1>8, <1>9, <2>2
<1>11. v \in Seq(S)
  BY <1>6, <1>9, KeptIn
<1>12. /\ Len(v) = Len(user) /\ Len(v) \in Nat /\ user \in Seq(GivenProperties)
       /\ \A i \in 1 .. Len(v) : v[i].id = user[i].id /\ TextOf(v[i]) = user[i].value
  BY <1>2, <1>7, <1>9, StatementsTold
<1>13. /\ Len(kept) \in Nat /\ Len(kept) >= Len(v) + 2 /\ kept[1] = a /\ kept[Len(kept)] = z
       /\ DOMAIN kept = 1 .. Len(kept)
       /\ \A i \in 1 .. Len(v) : kept[Len(kept) - Len(v) - 1 + i] = v[i]
  BY <1>4, <1>10, <1>11, PlaceBetween
<1>14. PICK told : told = Told(s)
  OBVIOUS
<1>15. told = [i \in 1 .. Len(kept) |-> <<kept[i].id, TextOf(kept[i])>>]
  BY <1>9, <1>13, <1>14 DEF Told
<1>16. PICK n \in Nat, m \in Nat : n = Len(kept) /\ m = Len(v)
  BY <1>12, <1>13
<1>17. Len(told) = n /\ \A i \in 1 .. n : told[i] = <<kept[i].id, TextOf(kept[i])>>
  BY <1>15, <1>16
<1>18. 1 \in 1 .. n /\ n \in 1 .. n /\ n - m >= 2 /\ n - m \in Nat
  BY <1>13, <1>16
<1>19. told[1] = <<"XISF:CreationTime", Time>> /\ told[n] = <<"XISF:CreatorApplication", Creator>>
  BY <1>1, <1>13, <1>16, <1>17, <1>18, StatementsAre
<1>20. SubSeq(told, n - m, n - 1) = [j \in DOMAIN user |-> <<user[j].id, user[j].value>>]
  <2>1. DOMAIN user = 1 .. m
    BY <1>12, <1>16
  <2>2. (n - 1) - (n - m) + 1 = m
    OBVIOUS
  <2>3. SubSeq(told, n - m, n - 1) = [j \in 1 .. m |-> told[n - m + j - 1]]
    BY <2>2 DEF SubSeq
  <2>4. \A j \in 1 .. m : told[n - m + j - 1] = <<user[j].id, user[j].value>>
    <3> TAKE j \in 1 .. m
    <3>1. n - m + j - 1 = n - m - 1 + j /\ n - m + j - 1 \in 1 .. n
      BY <1>18
    <3>2. kept[n - m + j - 1] = v[j]
      BY <1>13, <1>16, <3>1
    <3>3. v[j].id = user[j].id /\ TextOf(v[j]) = user[j].value
      BY <1>12, <1>16
    <3> QED BY <1>17, <3>1, <3>2, <3>3
  <2> QED BY <2>1, <2>3, <2>4
<1> QED BY <1>2, <1>9, <1>12, <1>14, <1>16, <1>17, <1>19, <1>20

-----------------------------------------------------------------------------
(* What is read of a header.                                               *)

\* What add_image, add_table and add_property take.
IsUnit(u) ==
  /\ u = [images |-> u.images, metadata |-> u.metadata, tables |-> u.tables, time |-> Time, creator |-> Creator]
  /\ Len(u.images) \in 0 .. MaxImages
  /\ u.images = [i \in 1 .. Len(u.images) |-> u.images[i]]
  /\ \A i \in 1 .. Len(u.images) : IsPending(u.images[i]) /\ IsAccepted(u.images[i])
  /\ u.tables \in Seq(Tables)
  /\ \A i \in DOMAIN u.tables : IsWhole(u.tables[i])
  /\ u.metadata \in Seq(GivenProperties)

IsHeader(h) ==
  /\ h = [images |-> h.images, tables |-> h.tables, properties |-> h.properties]
  /\ Len(h.images) \in 0 .. MaxImages
  /\ h.images = [i \in 1 .. Len(h.images) |-> h.images[i]]
  /\ \A i \in 1 .. Len(h.images) : IsElement(h.images[i])

\* The elements of a unit's header.
IsHeaderOf(h, u, n) ==
  /\ Len(h.images) = Len(u.images)
  /\ \A i \in 1 .. Len(u.images) :
       LET r == RenderImage(u.images[i], n, BlockIds(u.images, i))
       IN  r.ok /\ h.images[i] = r.value
  /\ h.tables = [i \in DOMAIN u.tables |-> TableElement(u.tables[i])]
  /\ h.properties = MetadataElements(u)

LEMMA HeaderIs ==
  ASSUME NEW u, IsUnit(u), NEW n, NEW r, r = Render(u, n), r.ok
  PROVE  r = Good(r.value) /\ IsHeader(r.value) /\ IsHeaderOf(r.value, u, n)
<1>1. PICK m \in 0 .. MaxImages : m = Len(u.images)
  BY DEF IsUnit
<1>2. m \in Nat /\ DOMAIN u.images = 1 .. m
  <2>1. u.images = [i \in 1 .. m |-> u.images[i]]
    BY <1>1 DEF IsUnit
  <2> QED BY <1>1, <2>1, BoundAssumption
<1>3. PICK rs : rs = [i \in 1 .. m |-> RenderImage(u.images[i], n, BlockIds(u.images, i))]
  OBVIOUS
<1>4. DOMAIN rs = 1 .. m /\ \A i \in 1 .. m : rs[i] = RenderImage(u.images[i], n, BlockIds(u.images, i))
  BY <1>3
<1>5. PICK c, b, g : /\ c = Collect(rs) /\ b = Optional(n, CheckBlocksName)
                     /\ g = Collect([i \in 1 .. m |-> Optional(u.images[i].profile, CheckProfile)])
  OBVIOUS
<1>6. PICK ts, ps : ts = [i \in DOMAIN u.tables |-> TableElement(u.tables[i])] /\ ps = MetadataElements(u)
  OBVIOUS
<1>7. PICK v : v = [images |-> c.value, tables |-> ts, properties |-> ps]
  OBVIOUS
<1>8. PICK s : s = <<b, g, c>>
  OBVIOUS
<1>9. r = Try(s, v)
  BY <1>2, <1>3, <1>5, <1>6, <1>7, <1>8 DEF Render
<1>10. DOMAIN s \subseteq Nat /\ (AllOk(s) <=> b.ok /\ g.ok /\ c.ok)
  BY <1>8, AllOkOf
<1>11. r = Good(v) /\ c.ok
  BY <1>9, <1>10, TryHolds
<1>12. AllOk(rs) /\ c = Good([i \in DOMAIN rs |-> rs[i].value])
  <2>1. DOMAIN rs \subseteq Nat
    BY <1>4
  <2> QED BY <1>5, <1>11, <2>1, CollectIs
<1>13. r.value = v
  BY <1>11, GoodIs
<1>14. PICK is : is = v.images
  OBVIOUS
<1>15. is = [i \in 1 .. m |-> rs[i].value]
  BY <1>4, <1>7, <1>12, <1>14, GoodIs
<1>16. /\ Len(is) = m /\ \A i \in 1 .. m : is[i] = rs[i].value
  BY <1>2, <1>15
<1>17. is = [i \in 1 .. m |-> is[i]]
  BY <1>15
<1>18. ASSUME NEW i \in 1 .. m
       PROVE  rs[i].ok /\ IsElement(is[i])
  <2>1. IsPending(u.images[i]) /\ rs[i].ok
    BY <1>1, <1>4, <1>12 DEF IsUnit, AllOk
  <2> QED BY <1>4, <1>16, <2>1, RenderedIsElement
<1>19. v = [images |-> is, tables |-> v.tables, properties |-> v.properties] /\ v.tables = ts /\ v.properties = ps
  BY <1>7, <1>14
<1>20. IsHeader(v)
  BY <1>14, <1>16, <1>17, <1>18, <1>19 DEF IsHeader
<1>21. IsHeaderOf(v, u, n)
  BY <1>1, <1>4, <1>6, <1>14, <1>16, <1>18, <1>19 DEF IsHeaderOf
<1> QED BY <1>11, <1>13, <1>20, <1>21

IsShown(e) == ParseImage(e.element).ok

\* What a reader finds, if it finds anything.
FoundIn(h) ==
  LET shown == Filter(h.images, IsShown)
  IN  [images |-> [i \in DOMAIN shown |-> ImageOf(shown[i])],
       unavailable |-> Len(h.images) - Len(shown),
       tables |-> Parsed(Each(h.tables, ParseTable)),
       properties |-> Parsed(Each(h.properties, ParseProperty)),
       metadata |-> Told(h.properties)]

IsSound(e) == HasData(e) /\ OneWithData(e.profiles) /\ OneWithData(e.previews)

LEMMA DataIsParsed ==
  /\ \A e : HasData(e) => ParseData(e).ok
  /\ \A es : OneWithData(es) => Collect(Each(es, ParseData)).ok
<1>1. ASSUME NEW e, HasData(e)
      PROVE  ParseData(e).ok
  <2>1. PICK s : s = <<ParseBlock(e.block), ParseLocation(e.location)>>
    OBVIOUS
  <2>2. DOMAIN s \subseteq Nat /\ AllOk(s)
    BY <1>1, <2>1, AllOkOf DEF HasData
  <2>3. ParseData(e) = Try(s, None)
    BY <2>1 DEF ParseData
  <2> QED BY <2>2, <2>3, TryHolds, GoodIs
<1>2. ASSUME NEW es, OneWithData(es)
      PROVE  Collect(Each(es, ParseData)).ok
  <2>1. PICK rs : rs = Each(es, ParseData)
    OBVIOUS
  <2>2. DOMAIN es \subseteq Nat /\ \A i \in DOMAIN es : HasData(es[i])
    <3>1. CASE es = <<>>
      BY <3>1
    <3>2. CASE \E e : HasData(e) /\ es = <<e>>
      <4>1. PICK e : HasData(e) /\ es = <<e>>
        BY <3>2
      <4>2. DOMAIN es = 1 .. 1 /\ \A i \in 1 .. 1 : es[i] = e
        BY <4>1
      <4> QED BY <4>1, <4>2
    <3> QED BY <1>2, <3>1, <3>2 DEF OneWithData
  <2>3. DOMAIN rs = DOMAIN es /\ \A i \in DOMAIN es : rs[i] = ParseData(es[i])
    BY <2>1 DEF Each
  <2>4. AllOk(rs) /\ DOMAIN rs \subseteq Nat
    BY <1>1, <2>2, <2>3 DEF AllOk
  <2>5. PICK r : r = Collect(rs)
    OBVIOUS
  <2>6. r = Good([i \in DOMAIN rs |-> rs[i].value])
    BY <2>4, <2>5, CollectIs
  <2>7. r.ok
    BY <2>6 DEF Good
  <2> QED BY <2>1, <2>5, <2>7
<1> QED BY <1>1, <1>2

LEMMA FindIs ==
  ASSUME NEW h, h.images = [i \in 1 .. Len(h.images) |-> h.images[i]], Len(h.images) \in Nat
  PROVE  LET r == Find(h)
         IN  /\ r.ok => r = Good(FoundIn(h))
             /\ (\A i \in 1 .. Len(h.images) : IsSound(h.images[i])) => r = Good(FoundIn(h))
<1>1. PICK is : is = h.images
  OBVIOUS
<1>2. PICK m \in Nat : m = Len(is) /\ DOMAIN is = 1 .. m
  BY <1>1
<1>3. PICK bs : bs = [i \in 1 .. m |-> Try(<<ParseData(is[i]), Collect(Each(is[i].profiles, ParseData)),
                                         Collect(Each(is[i].previews, ParseData))>>, None)]
  OBVIOUS
<1>4. PICK v : v = FoundIn(h)
  OBVIOUS
<1>5. Find(h) = Try(bs, v)
  BY <1>1, <1>2, <1>3, <1>4 DEF Find, FoundIn, IsShown, Told, HasText, Filter
<1>6. DOMAIN bs \subseteq Nat
  BY <1>3
<1>7. ASSUME \A i \in 1 .. m : IsSound(is[i])
      PROVE  AllOk(bs)
  <2>1. ASSUME NEW i \in 1 .. m
        PROVE  bs[i].ok
    <3>1. PICK x, y, z, s : /\ x = ParseData(is[i]) /\ y = Collect(Each(is[i].profiles, ParseData))
                            /\ z = Collect(Each(is[i].previews, ParseData)) /\ s = <<x, y, z>>
      OBVIOUS
    <3>4. x.ok /\ y.ok /\ z.ok
      BY <1>7, <3>1, DataIsParsed DEF IsSound
    <3>5. AllOk(s)
      BY <3>1, <3>4, AllOkOf
    <3>6. DOMAIN s \subseteq Nat
      BY <3>1
    <3>2. DOMAIN s \subseteq Nat /\ AllOk(s)
      BY <3>5, <3>6
    <3>3. bs[i] = Try(s, None)
      BY <1>3, <3>1
    <3> QED BY <3>2, <3>3, TryHolds, GoodIs
  <2>2. DOMAIN bs = 1 .. m
    BY <1>3
  <2> QED BY <2>1, <2>2 DEF AllOk
<1>8. /\ Try(bs, v).ok => Try(bs, v) = Good(v)
      /\ (\A i \in 1 .. m : IsSound(is[i])) => Try(bs, v) = Good(v)
  BY <1>6, <1>7, TryHolds
<1> QED BY <1>1, <1>2, <1>4, <1>5, <1>8

\* Of a place of a blocks file.
IsPlaced(im, n) ==
  LET l == im.location.locator
  IN  (l.name = n.saved /\ ~l.climbs) <=> (n.trimmed = n.saved /\ ~n.dots)

CanBeShown(p) == Describable(p.image)

IsFoundAs(im, p, n) ==
  /\ Shown(im) = [ImageFound(p) EXCEPT !.space = AsDerived(@)]
  /\ n /= None => IsPlaced(im, n)

\* A unit of five images has no more than fifteen blocks.
LEMMA BlockIdsAre ==
  ASSUME NEW images, NEW i \in 1 .. 5
  PROVE  BlockIds(images, i) \in [1 .. 3 -> 0 .. 15]
<1>1. ASSUME NEW k \in 1 .. 3
      PROVE  Cardinality({m \in 1 .. 3 * (i - 1) + k : Blocks(images)[m] /= None}) \in 0 .. 15
  <2>6. PICK l \in Nat : l = 3 * (i - 1) + k /\ l <= 15
    OBVIOUS
  <2>1. PICK S : S = {m \in 1 .. l : Blocks(images)[m] /= None}
    OBVIOUS
  <2>2. IsFiniteSet(1 .. l) /\ Cardinality(1 .. l) = l
    <3>1. IsFiniteSet(1 .. l) /\ Cardinality(1 .. l) = IF 1 <= l THEN l - 1 + 1 ELSE 0
      BY FS_Interval
    <3> QED BY <3>1
  <2>3. S \subseteq 1 .. l
    BY <2>1
  <2>4. IsFiniteSet(S) /\ Cardinality(S) <= l
    BY <2>2, <2>3, FS_Subset
  <2>5. Cardinality(S) \in Nat
    BY <2>4, FS_CardinalityType
  <2> QED BY <2>1, <2>4, <2>5, <2>6
<1> QED BY <1>1 DEF BlockIds

\* The element of an image of a unit, and the image found in it.
LEMMA ElementIsFound ==
  ASSUME NEW u, IsUnit(u), NEW n \in Names \cup {None}, NEW h, IsHeaderOf(h, u, n),
         NEW i \in 1 .. Len(u.images)
  PROVE  /\ IsSound(h.images[i])
         /\ IsShown(h.images[i]) <=> CanBeShown(u.images[i])
         /\ CanBeShown(u.images[i]) => IsFoundAs(ImageOf(h.images[i]), u.images[i], n)
<1>1. PICK p, k, r, e : /\ p = u.images[i] /\ k = BlockIds(u.images, i)
                        /\ r = RenderImage(p, n, k) /\ e = h.images[i]
  OBVIOUS
<1>2. IsPending(p) /\ IsAccepted(p) /\ k \in [1 .. 3 -> 0 .. 15]
  <2>1. IsPending(p) /\ IsAccepted(p)
    BY <1>1 DEF IsUnit
  <2>2. PICK m \in 0 .. MaxImages : m = Len(u.images)
    BY DEF IsUnit
  <2>3. i \in 1 .. 5
    BY <2>2, BoundAssumption
  <2> QED BY <1>1, <2>1, <2>3, BlockIdsAre
<1>3. r.ok /\ e = r.value
  BY <1>1 DEF IsHeaderOf
<1>4. /\ HasData(e) /\ OneWithData(e.profiles) /\ OneWithData(e.previews)
      /\ ParseImage(e.element).ok <=> Describable(p.image)
      /\ Describable(p.image) => Shown(ImageOf(e)) = [ImageFound(p) EXCEPT !.space = AsDerived(@)]
      /\ n /= None => ImageOf(e).location.locator =
                        [token |-> TRUE, name |-> n.trimmed, climbs |-> n.dots]
  BY <1>1, <1>2, <1>3, ImageIsFound
<1>5. n /= None => IsPlaced(ImageOf(e), n)
  <2> SUFFICES ASSUME n /= None PROVE IsPlaced(ImageOf(e), n)
    OBVIOUS
  <2>1. PICK l : l = ImageOf(e).location.locator
    OBVIOUS
  <2>2. l.name = n.trimmed /\ l.climbs = n.dots
    BY <1>4, <2>1
  <2> QED BY <2>1, <2>2 DEF IsPlaced
<1> QED BY <1>1, <1>4, <1>5 DEF IsSound, IsShown, CanBeShown, IsFoundAs

\* What is found of a unit's images.
ImagesFound(images, u, n) ==
  LET given == Filter(u.images, CanBeShown)
  IN  /\ Len(images) = Len(given)
      /\ \A i \in DOMAIN given : IsFoundAs(images[i], given[i], n)

LEMMA ImagesAreFound ==
  ASSUME NEW u, IsUnit(u), NEW n \in Names \cup {None}, NEW h, IsHeader(h), IsHeaderOf(h, u, n)
  PROVE  /\ Find(h) = Good(FoundIn(h))
         /\ ImagesFound(FoundIn(h).images, u, n)
         /\ FoundIn(h).unavailable = Len(u.images) - Len(Filter(u.images, CanBeShown))
<1>1. PICK m, is, gs : m = Len(u.images) /\ is = h.images /\ gs = u.images
  OBVIOUS
<1>2. m \in Nat /\ Len(is) = m /\ is = [i \in 1 .. m |-> is[i]] /\ gs = [i \in 1 .. m |-> gs[i]] /\ Len(gs) = m
  BY <1>1, BoundAssumption DEF IsUnit, IsHeader, IsHeaderOf
<1>3. \A i \in 1 .. m : /\ IsSound(is[i])
                        /\ IsShown(is[i]) <=> CanBeShown(gs[i])
                        /\ CanBeShown(gs[i]) => IsFoundAs(ImageOf(is[i]), gs[i], n)
  BY <1>1, ElementIsFound
<1>4. Find(h) = Good(FoundIn(h))
  BY <1>1, <1>2, <1>3, FindIs
<1>5. DOMAIN is = 1 .. m /\ DOMAIN gs = 1 .. m
  BY <1>2
<1>6. PICK keep : keep = {i \in 1 .. m : CanBeShown(gs[i])}
  OBVIOUS
<1>7. {i \in DOMAIN is : IsShown(is[i])} = keep /\ {i \in DOMAIN gs : CanBeShown(gs[i])} = keep
  BY <1>3, <1>5, <1>6
<1>8. PICK shown, given : shown = Kept(is, keep) /\ given = Kept(gs, keep)
  OBVIOUS
<1>9. Filter(h.images, IsShown) = shown /\ Filter(u.images, CanBeShown) = given
  BY <1>1, <1>7, <1>8 DEF Filter
<1>10. PICK S, T : S = {is[i] : i \in 1 .. m} /\ T = {gs[i] : i \in 1 .. m}
  OBVIOUS
<1>11. is \in Seq(S) /\ gs \in Seq(T)
  BY <1>2, <1>10, OfItsOwn
<1>12. shown \in Seq(S) /\ given \in Seq(T) /\ Paired(shown, given, is, gs, keep)
  BY <1>2, <1>8, <1>11, KeptTogether
<1>13. PICK k \in Nat : k = Len(shown) /\ k = Len(given) /\ DOMAIN shown = 1 .. k /\ DOMAIN given = 1 .. k
  BY <1>12 DEF Paired
<1>14. PICK images : images = [i \in 1 .. k |-> ImageOf(shown[i])]
  OBVIOUS
<1>15. FoundIn(h).images = images /\ FoundIn(h).unavailable = m - k
  BY <1>1, <1>2, <1>9, <1>13, <1>14 DEF FoundIn
<1>16. Len(images) = k /\ \A i \in 1 .. k : images[i] = ImageOf(shown[i])
  BY <1>14
<1>17. ASSUME NEW i \in 1 .. k
       PROVE  IsFoundAs(images[i], given[i], n)
  <2>1. PICK j \in 1 .. m : j \in keep /\ shown[i] = is[j] /\ given[i] = gs[j]
    BY <1>2, <1>12, <1>13 DEF Paired
  <2>2. CanBeShown(gs[j])
    BY <1>6, <2>1
  <2> QED BY <1>3, <1>16, <2>1, <2>2
<1>18. ImagesFound(images, u, n)
  BY <1>9, <1>13, <1>16, <1>17 DEF ImagesFound
<1> QED BY <1>1, <1>4, <1>9, <1>13, <1>15, <1>18

\* What was read of a header.
IsRead(images) ==
  /\ Len(images) \in 0 .. MaxImages
  /\ images = [i \in 1 .. Len(images) |-> images[i]]
  /\ \A i \in 1 .. Len(images) : \E e : IsElement(e) /\ IsShown(e) /\ images[i] = ImageOf(e)

LEMMA ReadIs ==
  ASSUME NEW h, IsHeader(h), Find(h).ok
  PROVE  Find(h) = Good(FoundIn(h)) /\ IsRead(FoundIn(h).images)
<1>1. PICK m, is : m = Len(h.images) /\ is = h.images
  OBVIOUS
<1>2. m \in 0 .. MaxImages /\ m \in Nat /\ is = [i \in 1 .. m |-> is[i]] /\ Len(is) = m
  BY <1>1, BoundAssumption DEF IsHeader
<1>3. Find(h) = Good(FoundIn(h))
  BY <1>1, <1>2, FindIs
<1>4. DOMAIN is = 1 .. m
  BY <1>2
<1>5. PICK S, keep, shown : /\ S = {is[i] : i \in 1 .. m} /\ keep = {i \in DOMAIN is : IsShown(is[i])}
                            /\ shown = Kept(is, keep)
  OBVIOUS
<1>6. is \in Seq(S)
  BY <1>2, <1>5, OfItsOwn
<1>7. shown \in Seq(S) /\ Len(shown) <= m /\ Paired(shown, shown, is, is, keep)
  BY <1>2, <1>5, <1>6, KeptTogether
<1>8. PICK k \in Nat : k = Len(shown) /\ DOMAIN shown = 1 .. k
  BY <1>7
<1>9. PICK images : images = [i \in 1 .. k |-> ImageOf(shown[i])]
  OBVIOUS
<1>10. FoundIn(h).images = images
  BY <1>1, <1>5, <1>8, <1>9 DEF FoundIn, Filter
<1>11. Len(images) = k /\ \A i \in 1 .. k : images[i] = ImageOf(shown[i])
  BY <1>9
<1>12. images = [i \in 1 .. k |-> images[i]]
  BY <1>9
<1>13. ASSUME NEW i \in 1 .. k
       PROVE  \E e : IsElement(e) /\ IsShown(e) /\ images[i] = ImageOf(e)
  <2>1. PICK j \in 1 .. m : j \in keep /\ shown[i] = is[j]
    BY <1>2, <1>7, <1>8 DEF Paired
  <2>2. IsElement(is[j]) /\ IsShown(is[j])
    BY <1>1, <1>5, <2>1 DEF IsHeader
  <2> QED BY <1>11, <2>1, <2>2
<1>14. k \in 0 .. MaxImages
  BY <1>2, <1>7, <1>8, BoundAssumption
<1> QED BY <1>3, <1>10, <1>11, <1>12, <1>13, <1>14 DEF IsRead

-----------------------------------------------------------------------------
(* The invariant.                                                          *)

\* What is given is of the declared types; a header is the rendering of the unit until
\* another program changes it, and a header all the same afterwards; what was found is in
\* the header; a unit that was copied is what was read.
IInv ==
  /\ IsUnit(unit)
  /\ name \in Names \cup {None}
  /\ (header /= None /\ header.ok) => header = Good(header.value) /\ IsHeader(header.value)
  /\ (header /= None /\ ~edited) => header = Render(unit, name)
  /\ found /= None => header /= None /\ header.ok /\ found = Find(header.value)
  /\ source /= None => /\ ~edited /\ IsRead(source.images)
                       /\ unit.images = [i \in 1 .. Len(source.images) |-> Given(source.images[i])]

LEMMA InitHolds == Init => IInv
<1> SUFFICES ASSUME Init PROVE IInv
  OBVIOUS
<1>1. IsUnit(NewUnit)
  <2>1. PICK u, e : u = NewUnit /\ e = <<>>
    OBVIOUS
  <2>2. u = [images |-> e, metadata |-> e, tables |-> e, time |-> Time, creator |-> Creator]
    BY <2>1 DEF NewUnit
  <2>3. /\ u.images = e /\ u.metadata = e /\ u.tables = e
        /\ u = [images |-> u.images, metadata |-> u.metadata, tables |-> u.tables, time |-> Time,
                creator |-> Creator]
    BY <2>2
  <2>4. Len(e) = 0 /\ e = [i \in 1 .. 0 |-> e[i]] /\ DOMAIN e = {} /\ 1 .. 0 = {}
        /\ e \in Seq(Tables) /\ e \in Seq(GivenProperties)
    BY <2>1
  <2> QED BY <2>1, <2>3, <2>4, BoundAssumption DEF IsUnit
<1> QED BY <1>1 DEF Init, IInv

\* One more of a list of a unit.
LEMMA UnitFurther ==
  ASSUME NEW u, IsUnit(u)
  PROVE  /\ \A p : (Len(u.images) < MaxImages /\ IsPending(p) /\ IsAccepted(p)) =>
                     IsUnit([u EXCEPT !.images = Append(@, p)])
         /\ \A t \in Tables : IsWhole(t) => IsUnit([u EXCEPT !.tables = Append(@, t)])
         /\ \A p \in GivenProperties : IsUnit([u EXCEPT !.metadata = Append(@, p)])
<1>1. PICK is, ts, ps : is = u.images /\ ts = u.tables /\ ps = u.metadata
  OBVIOUS
<1>2. u = [images |-> is, metadata |-> ps, tables |-> ts, time |-> Time, creator |-> Creator]
  BY <1>1 DEF IsUnit
<1>3. PICK m \in Nat : m = Len(is) /\ m <= MaxImages
  BY <1>1, BoundAssumption DEF IsUnit
<1>4. is = [i \in 1 .. m |-> is[i]] /\ \A i \in 1 .. m : IsPending(is[i]) /\ IsAccepted(is[i])
  BY <1>1, <1>3 DEF IsUnit
<1>5. ts \in Seq(Tables) /\ (\A i \in DOMAIN ts : IsWhole(ts[i])) /\ ps \in Seq(GivenProperties)
  BY <1>1 DEF IsUnit
<1>6. ASSUME NEW p, m < MaxImages, IsPending(p), IsAccepted(p)
      PROVE  IsUnit([u EXCEPT !.images = Append(@, p)])
  <2>1. PICK js, v : js = Append(is, p) /\ v = [u EXCEPT !.images = js]
    OBVIOUS
  <2>2. PICK S : S = {is[i] : i \in 1 .. m} \cup {p}
    OBVIOUS
  <2>3. is \in Seq(S) /\ p \in S
    <3>1. is \in Seq({is[i] : i \in 1 .. m})
      BY <1>4, OfItsOwn
    <3> QED BY <2>2, <3>1
  <2>4. /\ js \in Seq(S) /\ Len(js) = m + 1 /\ js[m + 1] = p /\ \A i \in 1 .. m : js[i] = is[i]
    BY <1>3, <2>1, <2>3
  <2>5. js = [i \in 1 .. m + 1 |-> js[i]]
    BY <2>4
  <2>6. \A i \in 1 .. m + 1 : i = m + 1 \/ i \in 1 .. m
    OBVIOUS
  <2>7. \A i \in 1 .. m + 1 : IsPending(js[i]) /\ IsAccepted(js[i])
    BY <1>4, <1>6, <2>4, <2>6
  <2>8. v = [images |-> js, metadata |-> ps, tables |-> ts, time |-> Time, creator |-> Creator]
    BY <1>2, <2>1
  <2>9. /\ v.images = js /\ v.metadata = ps /\ v.tables = ts
        /\ v = [images |-> v.images, metadata |-> v.metadata, tables |-> v.tables, time |-> Time,
                creator |-> Creator]
    BY <2>8
  <2>10. m + 1 \in 0 .. MaxImages
    BY <1>3, <1>6, BoundAssumption
  <2>11. IsUnit(v)
    BY <1>5, <2>4, <2>5, <2>7, <2>9, <2>10 DEF IsUnit
  <2> QED BY <1>1, <2>1, <2>11
<1>7. ASSUME NEW t \in Tables, IsWhole(t)
      PROVE  IsUnit([u EXCEPT !.tables = Append(@, t)])
  <2>1. PICK us, v : us = Append(ts, t) /\ v = [u EXCEPT !.tables = us]
    OBVIOUS
  <2>2. us \in Seq(Tables) /\ \A i \in DOMAIN us : IsWhole(us[i])
    BY <1>5, <1>7, <2>1
  <2>8. v = [images |-> is, metadata |-> ps, tables |-> us, time |-> Time, creator |-> Creator]
    BY <1>2, <2>1
  <2>9. /\ v.images = is /\ v.metadata = ps /\ v.tables = us
        /\ v = [images |-> v.images, metadata |-> v.metadata, tables |-> v.tables, time |-> Time,
                creator |-> Creator]
    BY <2>8
  <2>10. m \in 0 .. MaxImages /\ Len(v.images) = m
    BY <1>3, <2>9, BoundAssumption
  <2>11. IsUnit(v)
    BY <1>4, <1>5, <2>2, <2>9, <2>10 DEF IsUnit
  <2> QED BY <1>1, <2>1, <2>11
<1>8. ASSUME NEW p \in GivenProperties
      PROVE  IsUnit([u EXCEPT !.metadata = Append(@, p)])
  <2>1. PICK qs, v : qs = Append(ps, p) /\ v = [u EXCEPT !.metadata = qs]
    OBVIOUS
  <2>2. qs \in Seq(GivenProperties)
    BY <1>5, <2>1
  <2>8. v = [images |-> is, metadata |-> qs, tables |-> ts, time |-> Time, creator |-> Creator]
    BY <1>2, <2>1
  <2>9. /\ v.images = is /\ v.metadata = qs /\ v.tables = ts
        /\ v = [images |-> v.images, metadata |-> v.metadata, tables |-> v.tables, time |-> Time,
                creator |-> Creator]
    BY <2>8
  <2>10. m \in 0 .. MaxImages /\ Len(v.images) = m
    BY <1>3, <2>9, BoundAssumption
  <2>11. IsUnit(v)
    BY <1>4, <1>5, <2>2, <2>9, <2>10 DEF IsUnit
  <2> QED BY <1>1, <2>1, <2>11
<1> QED BY <1>1, <1>3, <1>6, <1>7, <1>8

\* A unit of what was read.
LEMMA UnitOfRead ==
  ASSUME NEW images, IsRead(images), NEW given, given = [i \in 1 .. Len(images) |-> Given(images[i])],
         \A i \in DOMAIN given : CheckImage(SubSeq(given, 1, i - 1), given[i]).ok
  PROVE  IsUnit([NewUnit EXCEPT !.images = given])
<1>1. PICK m \in Nat : m = Len(images) /\ m \in 0 .. MaxImages
  BY BoundAssumption DEF IsRead
<1>2. DOMAIN given = 1 .. m /\ Len(given) = m /\ \A i \in 1 .. m : given[i] = Given(images[i])
  BY <1>1
<1>3. given = [i \in 1 .. m |-> given[i]]
  BY <1>1
<1>4. ASSUME NEW i \in 1 .. m
      PROVE  IsPending(given[i]) /\ IsAccepted(given[i])
  <2>1. PICK e : IsElement(e) /\ IsShown(e) /\ images[i] = ImageOf(e)
    BY <1>1 DEF IsRead
  <2>2. IsPending(given[i])
    BY <1>2, <2>1, GivenIs DEF IsShown
  <2>3. CheckImage(SubSeq(given, 1, i - 1), given[i]).ok
    BY <1>2
  <2> QED BY <2>2, <2>3, AcceptedImageIs
<1>5. PICK u, e : u = [NewUnit EXCEPT !.images = given] /\ e = <<>>
  OBVIOUS
<1>6. u = [images |-> given, metadata |-> e, tables |-> e, time |-> Time, creator |-> Creator]
  BY <1>5 DEF NewUnit
<1>7. /\ u.images = given /\ u.metadata = e /\ u.tables = e
      /\ u = [images |-> u.images, metadata |-> u.metadata, tables |-> u.tables, time |-> Time,
              creator |-> Creator]
  BY <1>6
<1>8. DOMAIN e = {} /\ e \in Seq(Tables) /\ e \in Seq(GivenProperties)
  BY <1>5
<1>9. IsUnit(u)
  BY <1>1, <1>2, <1>3, <1>4, <1>7, <1>8 DEF IsUnit
<1> QED BY <1>5, <1>9

\* A field of a record changed.
Changed(x, field, text) == [x EXCEPT ![field] = text]

ImageParts == {"element", "thumbnails", "resolutions", "spaces", "functions", "filters", "tables"}

\* The parts of an element that hold more than one.
ListParts == ImageParts \ {"element"}

FieldsOf ==
  [part \in ImageParts |->
     IF part \in {"element", "thumbnails"} THEN ImageFields
     ELSE IF part = "resolutions" THEN ResolutionFields
     ELSE IF part = "spaces" THEN SpaceFields
     ELSE IF part = "functions" THEN FunctionFields
     ELSE IF part = "filters" THEN FilterFields
     ELSE TableFields]

LEMMA TextsOf ==
  /\ DOMAIN Texts = ImageParts \cup {"image", "block"}
  /\ Texts["element"] = ImageTexts
BY DEF Texts, ImageParts

\* An element by its parts.
LEMMA ElementParts ==
  ASSUME NEW e
  PROVE  IsElement(e) <=>
           /\ e = [k \in ElementFields |-> e[k]]
           /\ Alone(e["profiles"]) /\ Alone(e["previews"])
           /\ e["previews"] = <<>> <=> e["thumbnails"] = <<>>
           /\ Fits(e["element"], FieldsOf["element"], Texts["element"])
           /\ e["keywords"] \in Seq(Identifiers)
           /\ \A part \in ListParts : AreParts(e[part], FieldsOf[part], Texts[part])
<1>1. /\ FieldsOf["element"] = ImageFields /\ FieldsOf["thumbnails"] = ImageFields
      /\ FieldsOf["resolutions"] = ResolutionFields /\ FieldsOf["spaces"] = SpaceFields
      /\ FieldsOf["functions"] = FunctionFields /\ FieldsOf["filters"] = FilterFields
      /\ FieldsOf["tables"] = TableFields
  BY DEF FieldsOf, ImageParts
<1>2. \A H : (\A part \in ListParts : part \in H) <=>
               /\ "resolutions" \in H /\ "spaces" \in H /\ "functions" \in H /\ "filters" \in H
               /\ "thumbnails" \in H /\ "tables" \in H
  BY DEF ListParts, ImageParts
<1>3. PICK H : H = {part \in ListParts : AreParts(e[part], FieldsOf[part], Texts[part])}
  OBVIOUS
<1>4. \A part \in ListParts : part \in H <=> AreParts(e[part], FieldsOf[part], Texts[part])
  BY <1>3
<1>5. /\ "resolutions" \in ListParts /\ "spaces" \in ListParts /\ "functions" \in ListParts
      /\ "filters" \in ListParts /\ "thumbnails" \in ListParts /\ "tables" \in ListParts
  BY DEF ListParts, ImageParts
<1>6. (\A part \in ListParts : AreParts(e[part], FieldsOf[part], Texts[part])) <=>
        /\ AreParts(e.resolutions, ResolutionFields, Texts.resolutions)
        /\ AreParts(e.spaces, SpaceFields, Texts.spaces)
        /\ AreParts(e.functions, FunctionFields, Texts.functions)
        /\ AreParts(e.filters, FilterFields, Texts.filters)
        /\ AreParts(e.thumbnails, ImageFields, Texts.thumbnails)
        /\ AreParts(e.tables, TableFields, Texts.tables)
  BY <1>1, <1>2, <1>4, <1>5
<1> QED BY <1>1, <1>6, TextsOf DEF IsElement

\* What another program makes of an element.
EditOf(e, part, field, text) ==
  IF part = "image" THEN Changed(e, field, text)
  ELSE IF part \in {"element", "block"} THEN [e EXCEPT ![part] = Changed(@, field, text)]
  ELSE IF e[part] = <<>> THEN e ELSE [e EXCEPT ![part][1] = Changed(@, field, text)]

LEMMA EditIsElement ==
  ASSUME NEW e, IsElement(e), NEW part \in DOMAIN Edits, NEW field \in DOMAIN Edits[part],
         NEW text \in Edits[part][field]
  PROVE  IsElement(EditOf(e, part, field, text))
<1> DEFINE D == ElementFields
<1>1. /\ e = [k \in D |-> e[k]]
      /\ Alone(e["profiles"]) /\ Alone(e["previews"])
      /\ e["previews"] = <<>> <=> e["thumbnails"] = <<>>
      /\ Fits(e["element"], FieldsOf["element"], Texts["element"])
      /\ e["keywords"] \in Seq(Identifiers)
      /\ \A p \in ListParts : AreParts(e[p], FieldsOf[p], Texts[p])
  BY ElementParts
<1>2. /\ part \in DOMAIN Texts
      /\ field \in DOMAIN Texts[part] => text \in Texts[part][field]
      /\ part = "image" => field \in {"location", "keywords"}
  BY EditsAssumption
<1>3. PICK d : d = EditOf(e, part, field, text)
  OBVIOUS
<1>4. part \in ListParts \/ part \in {"image", "element", "block"}
  BY <1>2, TextsOf DEF ListParts
<1>5. "element" \in D /\ "keywords" \in D /\ "element" \notin ListParts /\ "keywords" \notin ListParts
      /\ "block" \notin ListParts /\ "image" \notin ListParts /\ "location" \notin ListParts
      /\ "block" \in D /\ "location" \in D /\ ListParts \subseteq D
      /\ "profiles" \in D /\ "previews" \in D /\ "profiles" \notin ListParts /\ "previews" \notin ListParts
      /\ "thumbnails" \in ListParts
  BY DEF ListParts, ImageParts, ElementFields
<1>6. CASE part = "image"
  <2>1. d = [e EXCEPT ![field] = text]
    BY <1>3, <1>6 DEF EditOf, Changed
  <2>2. field \in {"location", "keywords"}
    BY <1>2, <1>6
  <2>3. field = "keywords" => text \in Seq(Identifiers)
    <3>1. "keywords" \in DOMAIN Texts["image"] /\ Texts["image"]["keywords"] = Seq(Identifiers)
      BY DEF Texts
    <3> QED BY <1>2, <1>6, <3>1
  <2>4. d = [k \in D |-> IF k = field THEN text ELSE e[k]]
    <3> HIDE DEF D
    <3> QED BY <1>1, <2>1
  <2>5. d = [k \in D |-> d[k]] /\ \A k \in D : d[k] = IF k = field THEN text ELSE e[k]
    <3> HIDE DEF D
    <3> QED BY <2>4
  <2>6. d["element"] = e["element"] /\ d["keywords"] \in Seq(Identifiers)
        /\ d["profiles"] = e["profiles"] /\ d["previews"] = e["previews"]
        /\ \A p \in ListParts : d[p] = e[p]
    BY <1>1, <1>5, <2>2, <2>3, <2>5
  <2>7. IsElement(d)
    BY <1>1, <1>5, <2>5, <2>6, ElementParts
  <2> QED BY <1>3, <2>7
<1>7. CASE part \in {"element", "block"}
  <2>1. PICK y : y = Changed(e[part], field, text)
    OBVIOUS
  <2>2. d = [e EXCEPT ![part] = y]
    BY <1>3, <1>7, <2>1 DEF EditOf
  <2>3. part = "element" => Fits(y, FieldsOf["element"], Texts["element"])
    BY <1>1, <1>2, <2>1, FitsFurther DEF Changed
  <2>4. d = [k \in D |-> IF k = part THEN y ELSE e[k]]
    <3> HIDE DEF D
    <3> QED BY <1>1, <2>2
  <2>5. d = [k \in D |-> d[k]] /\ \A k \in D : d[k] = IF k = part THEN y ELSE e[k]
    <3> HIDE DEF D
    <3> QED BY <2>4
  <2>6. d["keywords"] = e["keywords"] /\ (\A p \in ListParts : d[p] = e[p])
        /\ d["profiles"] = e["profiles"] /\ d["previews"] = e["previews"]
        /\ d["element"] = IF part = "element" THEN y ELSE e["element"]
    BY <1>5, <1>7, <2>5
  <2>7. IsElement(d)
    BY <1>1, <1>5, <2>3, <2>5, <2>6, ElementParts
  <2> QED BY <1>3, <2>7
<1>8. CASE part \in ListParts /\ e[part] = <<>>
  <2>1. d = e
    BY <1>3, <1>5, <1>8 DEF EditOf
  <2> QED BY <1>3, <2>1
<1>9. CASE part \in ListParts /\ e[part] # <<>>
  <2>1. PICK xs, F, T : xs = e[part] /\ F = FieldsOf[part] /\ T = Texts[part]
    OBVIOUS
  <2>2. AreParts(xs, F, T) /\ xs # <<>>
    BY <1>1, <1>9, <2>1
  <2>3. PICK y, ys : y = [xs[1] EXCEPT ![field] = text] /\ ys = [xs EXCEPT ![1] = y]
    OBVIOUS
  <2>4. Fits(xs[1], F, T)
    <3>1. PICK n \in Nat : n = Len(xs) /\ xs = [i \in 1 .. n |-> xs[i]] /\ \A i \in 1 .. n : Fits(xs[i], F, T)
      BY <2>2 DEF AreParts
    <3>2. n # 0
      <4>1. n = 0 => xs = <<>>
        <5> SUFFICES ASSUME n = 0 PROVE xs = <<>>
          OBVIOUS
        <5>1. xs \in Seq({xs[i] : i \in 1 .. n})
          BY <3>1, OfItsOwn
        <5> QED BY <3>1, <5>1, EmptySeq
      <4> QED BY <2>2, <4>1
    <3> QED BY <3>1, <3>2
  <2>5. Fits(y, F, T)
    BY <1>2, <2>1, <2>3, <2>4, FitsFurther
  <2>6. AreParts(ys, F, T)
    BY <2>2, <2>3, <2>5, PartsFurther
  <2>7. d = [e EXCEPT ![part] = ys]
    <3>1. d = [e EXCEPT ![part][1] = Changed(@, field, text)]
      BY <1>3, <1>5, <1>9 DEF EditOf
    <3>2. [e EXCEPT ![part][1] = Changed(@, field, text)] =
            [e EXCEPT ![part] = [e[part] EXCEPT ![1] = Changed(e[part][1], field, text)]]
      OBVIOUS
    <3> QED BY <2>1, <2>3, <3>1, <3>2 DEF Changed
  <2>8. d = [k \in D |-> IF k = part THEN ys ELSE e[k]]
    <3> HIDE DEF D
    <3> QED BY <1>1, <2>7
  <2>9. d = [k \in D |-> d[k]] /\ \A k \in D : d[k] = IF k = part THEN ys ELSE e[k]
    <3> HIDE DEF D
    <3> QED BY <2>8
  <2>10. d["keywords"] = e["keywords"] /\ d["element"] = e["element"]
         /\ d["profiles"] = e["profiles"] /\ d["previews"] = e["previews"]
         /\ \A p \in ListParts : d[p] = IF p = part THEN ys ELSE e[p]
    BY <1>5, <1>9, <2>9
  <2>11. \A p \in ListParts : AreParts(d[p], FieldsOf[p], Texts[p])
    BY <1>1, <2>1, <2>6, <2>10
  <2>13. d["thumbnails"] = <<>> <=> e["thumbnails"] = <<>>
    <3>1. DOMAIN ys = DOMAIN xs
      BY <2>3
    <3>2. ys # <<>>
      <4>1. DOMAIN xs # {}
        <5>1. PICK n \in Nat : n = Len(xs) /\ xs = [i \in 1 .. n |-> xs[i]]
          BY <2>2 DEF AreParts
        <5>2. n = 0 => xs = <<>>
          <6> SUFFICES ASSUME n = 0 PROVE xs = <<>>
            OBVIOUS
          <6>1. xs \in Seq({xs[i] : i \in 1 .. n})
            BY <5>1, OfItsOwn
          <6> QED BY <5>1, <6>1, EmptySeq
        <5>3. 1 \in 1 .. n
          BY <2>2, <5>1, <5>2
        <5> QED BY <5>1, <5>3
      <4> QED BY <3>1, <4>1
    <3> QED BY <1>5, <1>9, <2>1, <2>10, <3>2
  <2>12. IsElement(d)
    BY <1>1, <2>9, <2>10, <2>11, <2>13, ElementParts
  <2> QED BY <1>3, <2>12
<1> QED BY <1>4, <1>6, <1>7, <1>8, <1>9

LEMMA NextHolds == IInv /\ [Next]_vars => IInv'
<1> SUFFICES ASSUME IInv, [Next]_vars PROVE IInv'
  OBVIOUS
<1>1. CASE AddImage
  <2>1. /\ header = None /\ source = None /\ Len(unit.images) < MaxImages
        /\ UNCHANGED <<name, header, edited, found, source>>
    BY <1>1 DEF AddImage, Telling
  <2>2. PICK p \in Pendings : CheckImage(unit.images, p).ok /\ unit' = [unit EXCEPT !.images = Append(@, p)]
    BY <1>1 DEF AddImage
  <2>3. IsPending(p) /\ IsAccepted(p)
    <3>1. IsPending(p)
      BY GivenAssumption
    <3> QED BY <2>2, <3>1, AcceptedImageIs
  <2>4. IsUnit(unit')
    BY <2>1, <2>2, <2>3, UnitFurther DEF IInv
  <2> QED BY <2>1, <2>4 DEF IInv
<1>2. CASE AddTable
  <2>1. header = None /\ source = None /\ UNCHANGED <<name, header, edited, found, source>>
    BY <1>2 DEF AddTable, Telling
  <2>2. PICK t \in GivenTables : CheckTable(t).ok /\ unit' = [unit EXCEPT !.tables = Append(@, t)]
    BY <1>2 DEF AddTable
  <2>3. t \in Tables /\ IsWhole(t)
    <3>1. t \in Tables
      BY GivenAssumption
    <3> QED BY <2>2, <3>1, AcceptedTableIs
  <2>4. IsUnit(unit')
    BY <2>2, <2>3, UnitFurther DEF IInv
  <2> QED BY <2>1, <2>4 DEF IInv
<1>3. CASE AddProperty
  <2>1. header = None /\ source = None /\ UNCHANGED <<name, header, edited, found, source>>
    BY <1>3 DEF AddProperty, Telling
  <2>2. PICK p \in GivenProperties : unit' = [unit EXCEPT !.metadata = Append(@, p)]
    BY <1>3 DEF AddProperty
  <2>3. IsUnit(unit')
    BY <2>2, UnitFurther DEF IInv
  <2> QED BY <2>1, <2>3 DEF IInv
<1>4. CASE Serialise
  <2>1. PICK n \in Names \cup {None} : name' = n /\ header' = Render(unit, n)
    BY <1>4 DEF Serialise
  <2>2. header = None /\ UNCHANGED <<unit, edited, found, source>>
    BY <1>4 DEF Serialise
  <2>3. header'.ok => header' = Good(header'.value) /\ IsHeader(header'.value)
    BY <2>1, HeaderIs DEF IInv
  <2>4. found' = None
    BY <2>2 DEF IInv
  <2> QED BY <2>1, <2>2, <2>3, <2>4 DEF IInv
<1>5. CASE Edit
  <2>1. /\ header /= None /\ header.ok /\ found = None /\ source = None /\ edited'
        /\ Len(header.value.images) \in 1 .. MaxEdited
        /\ UNCHANGED <<unit, name, found, source>>
    BY <1>5 DEF Edit
  <2>2. PICK h : h = header.value
    OBVIOUS
  <2>3. header = Good(h) /\ IsHeader(h)
    BY <2>1, <2>2 DEF IInv
  <2>4. PICK part, field, text :
          /\ part \in DOMAIN Edits /\ field \in DOMAIN Edits[part] /\ text \in Edits[part][field]
          /\ header' = [header EXCEPT !.value.images[1] = EditOf(h.images[1], part, field, text)]
    <3>1. PICK part \in DOMAIN Edits : \E field \in DOMAIN Edits[part] : \E text \in Edits[part][field] :
            LET e == header.value.images[1]
                Other(x) == [x EXCEPT ![field] = text]
                new == IF part = "image" THEN Other(e)
                       ELSE IF part \in {"element", "block"} THEN [e EXCEPT ![part] = Other(@)]
                       ELSE IF e[part] = <<>> THEN e ELSE [e EXCEPT ![part][1] = Other(@)]
            IN  header' = [header EXCEPT !.value.images[1] = new]
      BY <1>5, Zenon DEF Edit
    <3>2. PICK field \in DOMAIN Edits[part] : \E text \in Edits[part][field] :
            LET e == header.value.images[1]
                Other(x) == [x EXCEPT ![field] = text]
                new == IF part = "image" THEN Other(e)
                       ELSE IF part \in {"element", "block"} THEN [e EXCEPT ![part] = Other(@)]
                       ELSE IF e[part] = <<>> THEN e ELSE [e EXCEPT ![part][1] = Other(@)]
            IN  header' = [header EXCEPT !.value.images[1] = new]
      BY <3>1
    <3>3. PICK text \in Edits[part][field] :
            LET e == header.value.images[1]
                Other(x) == [x EXCEPT ![field] = text]
                new == IF part = "image" THEN Other(e)
                       ELSE IF part \in {"element", "block"} THEN [e EXCEPT ![part] = Other(@)]
                       ELSE IF e[part] = <<>> THEN e ELSE [e EXCEPT ![part][1] = Other(@)]
            IN  header' = [header EXCEPT !.value.images[1] = new]
      BY <3>2
    <3>4. PICK e, new : /\ e = header.value.images[1]
                        /\ new = IF part = "image" THEN [e EXCEPT ![field] = text]
                                 ELSE IF part \in {"element", "block"} THEN [e EXCEPT ![part] = [@ EXCEPT ![field] = text]]
                                 ELSE IF e[part] = <<>> THEN e ELSE [e EXCEPT ![part][1] = [@ EXCEPT ![field] = text]]
      OBVIOUS
    <3>5. header' = [header EXCEPT !.value.images[1] = new]
      BY <3>3, <3>4
    <3>6. new = EditOf(h.images[1], part, field, text)
      BY <2>2, <3>4 DEF EditOf, Changed
    <3> QED BY <3>5, <3>6
  <2>5. PICK y : y = EditOf(h.images[1], part, field, text)
    OBVIOUS
  <2>6. PICK is, js : is = h.images /\ js = [is EXCEPT ![1] = y]
    OBVIOUS
  <2>7. PICK m : m = Len(is)
    OBVIOUS
  <2>17. /\ m \in 0 .. MaxImages /\ m \in 1 .. MaxEdited
         /\ is = [i \in 1 .. m |-> is[i]] /\ \A i \in 1 .. m : IsElement(is[i])
    BY <2>1, <2>2, <2>3, <2>6, <2>7 DEF IsHeader
  <2>18. m \in Nat /\ 1 \in 1 .. m
    BY <2>17, BoundAssumption
  <2>8. IsElement(y)
    <3>1. PICK x : x = is[1]
      OBVIOUS
    <3>2. IsElement(x)
      BY <2>17, <2>18, <3>1
    <3>3. y = EditOf(x, part, field, text)
      BY <2>5, <2>6, <3>1
    <3> QED BY <2>4, <3>2, <3>3, EditIsElement
  <2>9. js = [i \in 1 .. m |-> IF i = 1 THEN y ELSE is[i]]
    <3>1. DOMAIN is = 1 .. m
      BY <2>17
    <3> QED BY <2>6, <3>1
  <2>10. Len(js) = m /\ js = [i \in 1 .. m |-> js[i]] /\ \A i \in 1 .. m : IsElement(js[i])
    <3>1. Len(js) = m /\ \A i \in 1 .. m : js[i] = IF i = 1 THEN y ELSE is[i]
      BY <2>9, <2>18
    <3>2. js = [i \in 1 .. m |-> js[i]]
      BY <2>9
    <3> QED BY <2>8, <2>17, <3>1, <3>2
  <2>11. PICK g : g = [h EXCEPT !.images = js]
    OBVIOUS
  <2>12. header' = Good(g)
    <3>1. header' = [header EXCEPT !.value.images[1] = y]
      BY <2>4, <2>5
    <3>2. [header EXCEPT !.value.images[1] = y] =
            [header EXCEPT !.value = [header.value EXCEPT !.images = [header.value.images EXCEPT ![1] = y]]]
      OBVIOUS
    <3>3. header' = [header EXCEPT !.value = g]
      BY <2>2, <2>6, <2>11, <3>1, <3>2
    <3> QED BY <2>3, <3>3 DEF Good
  <2>13. g = [images |-> js, tables |-> h.tables, properties |-> h.properties]
    <3>1. h = [images |-> h.images, tables |-> h.tables, properties |-> h.properties]
      BY <2>3 DEF IsHeader
    <3> QED BY <2>11, <3>1
  <2>14. g.images = js /\ g = [images |-> g.images, tables |-> g.tables, properties |-> g.properties]
    BY <2>13
  <2>15. IsHeader(g)
    BY <2>10, <2>14, <2>17 DEF IsHeader
  <2>16. header' = Good(header'.value) /\ IsHeader(header'.value)
    BY <2>12, <2>15, GoodIs
  <2> QED BY <2>1, <2>16 DEF IInv
<1>6. CASE Open
  BY <1>6 DEF Open, IInv
<1>7. CASE Copy
  <2>1. /\ found /= None /\ found.ok /\ source = None
        /\ source' = found.value /\ name' = None /\ header' = None /\ edited' = FALSE /\ found' = None
    BY <1>7 DEF Copy
  <2>2. PICK images, given : /\ images = found.value.images
                             /\ given = [i \in DOMAIN images |-> Given(images[i])]
    OBVIOUS
  <2>3. /\ \A i \in DOMAIN given : CheckImage(SubSeq(given, 1, i - 1), given[i]).ok
        /\ unit' = [NewUnit EXCEPT !.images = given]
    BY <1>7, <2>2 DEF Copy
  <2>4. IsRead(images)
    <3>1. PICK h : h = header.value
      OBVIOUS
    <3>2. IsHeader(h) /\ found = Find(h)
      BY <2>1, <3>1 DEF IInv
    <3>3. found = Good(FoundIn(h)) /\ IsRead(FoundIn(h).images)
      BY <2>1, <3>2, ReadIs
    <3> QED BY <2>2, <3>3, GoodIs
  <2>5. given = [i \in 1 .. Len(images) |-> Given(images[i])]
    <3>1. images = [i \in 1 .. Len(images) |-> images[i]]
      BY <2>4 DEF IsRead
    <3>2. DOMAIN images = 1 .. Len(images)
      BY <3>1
    <3> QED BY <2>2, <3>2
  <2>6. IsUnit(unit')
    BY <2>3, <2>4, <2>5, UnitOfRead
  <2>7. unit'.images = given
    BY <2>3 DEF NewUnit
  <2> QED BY <2>1, <2>2, <2>4, <2>5, <2>6, <2>7 DEF IInv
<1>8. CASE UNCHANGED vars
  BY <1>8 DEF vars, IInv
<1> QED BY <1>1, <1>2, <1>3, <1>4, <1>5, <1>6, <1>7, <1>8 DEF Next

\* Whatever is given, rendered, changed by another program, read and given again: a header
\* that was rendered and not changed is what Writer::render makes of the unit, one that was
\* changed still has the elements and texts of a header, what is found is what the reader
\* finds in it, and a unit that was copied is what was read (writer.rs:245-520, lib.rs:73-185).
THEOREM AcceptanceInvariant == Spec => []IInv
<1>1. Init => IInv
  BY InitHolds
<1>2. IInv /\ [Next]_vars => IInv'
  BY NextHolds
<1> QED BY <1>1, <1>2, PTL DEF Spec

-----------------------------------------------------------------------------
(* What is given is found, and what was read is written again.             *)

LEMMA InvariantReadsBack == IInv => ReadBackAsGiven
<1> SUFFICES ASSUME IInv, found /= None, ~edited PROVE ReadBackAsGiven
  BY DEF ReadBackAsGiven
<1>1. /\ IsUnit(unit) /\ name \in Names \cup {None}
      /\ header = Render(unit, name) /\ header.ok /\ found = Find(header.value)
  BY DEF IInv
<1>2. PICK h, f : h = header.value /\ f = FoundIn(h)
  OBVIOUS
<1>3. IsHeader(h) /\ IsHeaderOf(h, unit, name)
  BY <1>1, <1>2, HeaderIs
<1>4. PICK given, images : given = Filter(unit.images, CanBeShown) /\ images = f.images
  OBVIOUS
<1>5. found = Good(f) /\ ImagesFound(images, unit, name) /\ f.unavailable = Len(unit.images) - Len(given)
  BY <1>1, <1>2, <1>3, <1>4, ImagesAreFound
<1>6. Len(images) = Len(given) /\ \A i \in DOMAIN given : IsFoundAs(images[i], given[i], name)
  BY <1>4, <1>5 DEF ImagesFound
<1>7. f.tables = TablesFound(unit.tables)
  <2>1. f.tables = Parsed(Each(h.tables, ParseTable))
    BY <1>2 DEF FoundIn
  <2>2. h.tables = [i \in DOMAIN unit.tables |-> TableElement(unit.tables[i])]
    BY <1>3 DEF IsHeaderOf
  <2>3. unit.tables \in Seq(Tables) /\ \A i \in DOMAIN unit.tables : IsWhole(unit.tables[i])
    BY <1>1 DEF IsUnit
  <2> QED BY <2>1, <2>2, <2>3, TablesAre
<1>8. PICK told, user : told = f.metadata /\ user = Filter(unit.metadata, IsToldOf)
  OBVIOUS
<1>9. /\ told[1] = <<"XISF:CreationTime", Time>>
      /\ told[Len(told)] = <<"XISF:CreatorApplication", Creator>>
      /\ SubSeq(told, Len(told) - Len(user), Len(told) - 1) =
           [k \in DOMAIN user |-> <<user[k].id, user[k].value>>]
  <2>1. told = Told(MetadataElements(unit))
    BY <1>2, <1>3, <1>8 DEF FoundIn, IsHeaderOf
  <2>2. unit.time = Time /\ unit.creator = Creator /\ unit.metadata \in Seq(GivenProperties)
    <3>1. PICK u : u = [images |-> unit.images, metadata |-> unit.metadata, tables |-> unit.tables,
                        time |-> Time, creator |-> Creator]
      OBVIOUS
    <3>2. u = unit /\ unit.metadata \in Seq(GivenProperties)
      BY <1>1, <3>1 DEF IsUnit
    <3>3. u.time = Time /\ u.creator = Creator
      BY <3>1
    <3> QED BY <3>2, <3>3
  <2> QED BY <1>8, <2>1, <2>2, MetadataIsFound
<1>10. found.ok /\ found.value = f
  BY <1>5, GoodIs
<1>11. given = Kept(unit.images, {i \in DOMAIN unit.images : Describable(unit.images[i].image)})
  BY <1>4 DEF Filter, CanBeShown
<1>12. user = Kept(unit.metadata, {i \in DOMAIN unit.metadata :
                                     unit.metadata[i].type /= "String" \/ unit.metadata[i].value /= Empty})
  BY <1>8 DEF Filter, IsToldOf
<1>13. \A i \in DOMAIN given :
         LET expected == ImageFound(given[i])
         IN  /\ Shown(images[i]) = [expected EXCEPT !.space = AsDerived(@)]
             /\ (name /= None) =>
                  LET l == images[i].location.locator
                  IN  (l.name = name.saved /\ ~l.climbs) <=>
                        (name.trimmed = name.saved /\ ~name.dots)
  BY <1>6 DEF IsFoundAs, IsPlaced
<1>14. /\ found.ok /\ images = found.value.images /\ told = found.value.metadata
       /\ found.value.unavailable = Len(unit.images) - Len(given)
       /\ found.value.tables = TablesFound(unit.tables)
  BY <1>4, <1>5, <1>7, <1>8, <1>10
<1> QED BY <1>6, <1>9, <1>11, <1>12, <1>13, <1>14 DEF ReadBackAsGiven, Filter

\* All of what was read can be shown, and in its place.
LEMMA InvariantWritesAgain == IInv => WrittenAgainAsRead
<1> SUFFICES ASSUME IInv, source /= None, found /= None PROVE WrittenAgainAsRead
  BY DEF WrittenAgainAsRead
<1>1. /\ IsUnit(unit) /\ name \in Names \cup {None} /\ ~edited
      /\ header = Render(unit, name) /\ header.ok /\ found = Find(header.value)
  BY DEF IInv
<1>2. PICK read, ps : read = source.images /\ ps = unit.images
  OBVIOUS
<1>3. IsRead(read) /\ ps = [i \in 1 .. Len(read) |-> Given(read[i])]
  BY <1>2 DEF IInv
<1>4. PICK m \in Nat : m = Len(read) /\ DOMAIN read = 1 .. m
  <2>1. read = [i \in 1 .. Len(read) |-> read[i]] /\ Len(read) \in 0 .. MaxImages
    BY <1>3 DEF IsRead
  <2>2. Len(read) \in Nat /\ DOMAIN read = 1 .. Len(read)
    BY <2>1, BoundAssumption
  <2> QED BY <2>2
<1>5. DOMAIN ps = 1 .. m /\ Len(ps) = m /\ \A i \in 1 .. m : ps[i] = Given(read[i])
  BY <1>3, <1>4
<1>6. ASSUME NEW i \in 1 .. m
      PROVE  /\ CanBeShown(ps[i])
             /\ [ImageFound(ps[i]) EXCEPT !.space = AsDerived(@)] = Settled(read[i])
  <2>1. PICK e : IsElement(e) /\ IsShown(e) /\ read[i] = ImageOf(e)
    BY <1>3, <1>4 DEF IsRead
  <2>2. PICK p : p = Given(read[i])
    OBVIOUS
  <2>3. Describable(p.image) /\ [ImageFound(p) EXCEPT !.space = AsDerived(@)] = Settled(read[i])
    BY <2>1, <2>2, GivenIs DEF IsShown
  <2>4. ps[i] = p
    BY <1>5, <2>2
  <2> QED BY <2>3, <2>4 DEF CanBeShown
<1>7. Filter(ps, CanBeShown) = ps
  <2>1. PICK S : S = {ps[i] : i \in 1 .. m}
    OBVIOUS
  <2>2. ps \in Seq(S)
    <3>1. ps = [i \in 1 .. m |-> ps[i]]
      BY <1>3, <1>4
    <3> QED BY <2>1, <3>1, OfItsOwn
  <2>3. PICK keep : keep = {i \in DOMAIN ps : CanBeShown(ps[i])}
    OBVIOUS
  <2>4. 1 .. Len(ps) \subseteq keep
    BY <1>5, <1>6, <2>3
  <2>5. Kept(ps, keep) = ps
    BY <2>2, <2>4, KeptAll
  <2> QED BY <2>3, <2>5 DEF Filter
<1>8. PICK h, f : h = header.value /\ f = FoundIn(h)
  OBVIOUS
<1>9. IsHeader(h) /\ IsHeaderOf(h, unit, name)
  BY <1>1, <1>8, HeaderIs
<1>10. found = Good(f) /\ ImagesFound(f.images, unit, name)
  BY <1>1, <1>8, <1>9, ImagesAreFound
<1>11. Len(f.images) = m /\ \A i \in 1 .. m : IsFoundAs(f.images[i], ps[i], name)
  BY <1>2, <1>5, <1>7, <1>10 DEF ImagesFound
<1>12. found.ok /\ found.value.images = f.images
  BY <1>10, GoodIs
<1>13. \A i \in 1 .. m : Shown(f.images[i]) = Settled(read[i])
  BY <1>6, <1>11 DEF IsFoundAs
<1> QED BY <1>2, <1>4, <1>11, <1>12, <1>13 DEF WrittenAgainAsRead

\* For all images, tables and properties of the declared types: what add_image, add_table,
\* add_metadata and add_scalar_property accept is found by XisfFile in what to_bytes or
\* to_distributed made of it, in its place, as it was given as far as it can be described
\* (writer.rs:285-434, 602-847, image.rs:339-393, table.rs:145-216).
THEOREM GivenIsReadBack == Spec => []ReadBackAsGiven
<1>1. IInv => ReadBackAsGiven
  BY InvariantReadsBack
<1> QED BY <1>1, AcceptanceInvariant, PTL

\* For all changes by another program: images that were read from its header and that a
\* writer accepts are read from what this writer makes of them as they were the first time
\* (image.rs:339-393, table.rs:145-216, writer.rs:324-434, 602-847).
THEOREM ReadIsWrittenAgain == Spec => []WrittenAgainAsRead
<1>1. IInv => WrittenAgainAsRead
  BY InvariantWritesAgain
<1> QED BY <1>1, AcceptanceInvariant, PTL
=============================================================================
