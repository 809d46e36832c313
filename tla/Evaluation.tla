------------------------------ MODULE Evaluation ------------------------------
(***************************************************************************)
(* astrometry/eval.rs and spline.rs: the image-plane step of a solution,   *)
(* by the highest layer there is. A mapped point is a fraction; a residual *)
(* is the terms that make it up, the sum of their weights being a divisor. *)
(* Distances are rounded down, a weight is a fraction, [at, over].         *)
(***************************************************************************)
EXTENDS Solution

CONSTANT WeightUnit   \* a threshold counts such parts of the weight 1

ASSUME WeightAssumption == WeightUnit \in Nat \ {0}

\* One component of a spline at a point: what its kernels and its monomials are multiplied
\* by, each an index of the coefficients.
SplineTerms(spline, d) ==
  LET n == IF Len(spline.nodes) < Len(spline.coefficients) THEN Len(spline.nodes)
           ELSE Len(spline.coefficients)
      rest == Len(spline.coefficients) - n
      q == PolynomialTerms(d)
  IN  [radial |-> [k \in 1 .. n |-> <<spline.nodes[k], spline.coefficients[k]>>],
       polynomial |-> SubSeq(spline.coefficients, n + 1, n + IF q < rest THEN q ELSE rest)]

\* Total degree ascending, and within it the power of xi descending.
Monomials(order) ==
  LET OfDegree(degree) == [j \in 1 .. degree + 1 |-> <<degree - (j - 1), j - 1>>]
      below[m \in 0 .. order] == IF m = 0 THEN <<>> ELSE below[m - 1] \o OfDegree(m - 1)
  IN  IF order < 1 THEN <<>> ELSE below[order]

Abs(n) == IF n < 0 THEN -n ELSE n

Hypot(dx, dy) ==
  LET square == dx * dx + dy * dy
  IN  CHOOSE h \in 0 .. Abs(dx) + Abs(dy) : h * h <= square /\ square < (h + 1) * (h + 1)

\* W(distance / radius).
Wendland(distance, radius) ==
  LET u == radius - distance
  IN  IF distance >= radius THEN [at |-> 0, over |-> 1]
      ELSE [at |-> u * u * u * u * (4 * distance + radius),
            over |-> radius * radius * radius * radius * radius]

Plus(a, b) == [at |-> a.at * b.over + b.at * a.over, over |-> a.over * b.over]

(***************************************************************************)
(* R_D(p): the normalized sum, or the nearest Local term where every       *)
(* weight is zero. Nearest is by distance in radii, the first of equals.   *)
(***************************************************************************)
Distance(term, p) == Hypot(p[1] - term.center[1], p[2] - term.center[2])

Nearest(local, p) ==
  LET Before(i, j) ==
        LET di == Distance(local[i], p) * local[j].radius
            dj == Distance(local[j], p) * local[i].radius
        IN  di < dj \/ (di = dj /\ i < j)
  IN  IF local = <<>> THEN None
      ELSE CHOOSE i \in DOMAIN local : \A j \in DOMAIN local \ {i} : Before(i, j)

Residual(d, p) ==
  LET weight == [i \in DOMAIN d.local |-> Wendland(Distance(d.local[i], p), d.local[i].radius)]
      sum[i \in 0 .. Len(weight)] == IF i = 0 THEN [at |-> 0, over |-> 1] ELSE Plus(sum[i - 1], weight[i])
      coverage == sum[Len(weight)]
      covered == d.fallback /= None =>
                   coverage.at * WeightUnit >= d.fallback.threshold * coverage.over
      weighed == (IF d.global = None THEN {} ELSE {<<"Global", 0>>})
                   \cup {<<"Local", i>> : i \in {j \in DOMAIN d.local : weight[j].at > 0}}
                   \cup (IF covered THEN {} ELSE {<<"Fallback", 0>>})
  IN  [weighed |-> weighed, nearest |-> IF weighed = {} THEN Nearest(d.local, p) ELSE None]

(***************************************************************************)
(* The image-plane step.                                                   *)
(***************************************************************************)
NoResidual == [weighed |-> {}, nearest |-> None]

\* a x + b y + c, which is no number unless all of them are.
Affine(a, b, c, p) ==
  IF \A n \in {a, b, c, p[1], p[2]} : Finite(n) THEN a * p[1] + b * p[2] + c ELSE NaN

\* (P p) / w, or None for a point that is sent to infinity.
Projective(m, p) ==
  LET Row(r) == Affine(m[3 * r + 1], m[3 * r + 2], m[3 * r + 3], p)
  IN  IF Row(2) = 0 \/ ~Finite(Row(2)) THEN None ELSE [at |-> <<Row(0), Row(1)>>, over |-> Row(2)]

Linear(projection, p) ==
  LET m == projection.linear
      d == [k \in 1 .. 2 |-> Affine(p[k], projection.image[k], 0, <<1, -1>>)]
  IN  [at |-> <<Affine(m[1], m[2], 0, d), Affine(m[3], m[4], 0, d)>>, over |-> 1]

\* The inverse of the two by two matrix, exactly.
LinearInverse(projection, p) ==
  LET m == projection.linear
      det == IF \A k \in 1 .. 4 : Finite(m[k]) THEN m[1] * m[4] - m[2] * m[3] ELSE NaN
      x0 == projection.image
  IN  IF det = 0 \/ ~Finite(det) THEN None
      ELSE [at |-> <<Affine(m[4], -m[2], Affine(x0[1], 0, 0, <<det, 0>>), p),
                     Affine(-m[3], m[1], Affine(x0[2], 0, 0, <<det, 0>>), p)>>,
            over |-> det]

ImagePlaneStep(solution, which, p) ==
  LET base == IF solution.projective /= None THEN Projective(solution.projective[which], p)
              ELSE IF which = "ImageToProjection" THEN Linear(solution.projection, p)
              ELSE LinearInverse(solution.projection, p)
  IN  IF solution.distortion = None THEN [base |-> base, residual |-> NoResidual]
      ELSE IF solution.projective = None \/ base = None THEN [base |-> None, residual |-> NoResidual]
      ELSE [base |-> base, residual |-> Residual(solution.distortion[which], p)]
=============================================================================
