----------------------------- MODULE SolvedImage ------------------------------
(***************************************************************************)
(* The astrometric solution of an image as an encoder wrote it, perhaps    *)
(* altered since, is read and then evaluated at points of either plane.    *)
(***************************************************************************)
EXTENDS Evaluation

CONSTANTS
  Originals,    \* what encoders write: sequences of properties, each [key, located, e, written, values]
  Texts,        \* texts a value may be altered to, by the last name of its key
  Lists,        \* and arrays
  Points,       \* where solutions are evaluated
  Alterations   \* bound: how many of the properties of each are altered

VARIABLES
  original,   \* what the encoder wrote
  file,       \* what is there now
  touched,    \* the keys of the properties altered
  solution,   \* what reading it returned, None before
  place       \* [which, at, step] of an evaluation, None before

vars == <<original, file, touched, solution, place>>

Key(p) == Last(p.key)

(***************************************************************************)
(* What a file may hold, by type. A text that is read as a number is one,  *)
(* or Word; the centers of Local terms are points of the lattice.          *)
(***************************************************************************)
IsText(name, text) ==
  /\ name = "Order" => text \in Int \cup {Word, None}
  /\ name \in {"Threshold", "ShapeParameter"} => text \in Number \cup {Word, None}

ValuesUnder(name) == Seq(IF name = "Center" THEN Int ELSE Number)

IsStored(p) ==
  /\ p.written \in Scalars \ {"Boolean"}
  /\ p.values = None \/ p.values \in ValuesUnder(Key(p))

IsProperty(p) ==
  /\ DOMAIN p = {"key", "located", "e", "written", "values"}
  /\ p.located => IsStored(p)
  /\ ~p.located => /\ {"value", "text"} \subseteq DOMAIN p.e
                   /\ IsText(Key(p), p.e.value) /\ IsText(Key(p), p.e.text)

\* What becomes of a property is one.
ASSUME AlterationsAssumption ==
  /\ Misread \in Int
  /\ \A name \in DOMAIN Texts : \A text \in Texts[name] : IsText(name, text)
  /\ \A name \in DOMAIN Lists : Lists[name] \subseteq ValuesUnder(name)
  /\ Points \subseteq Int \X Int

\* An encoder writes every block, its shape and its texts.
ASSUME OriginalsAssumption ==
  \A o \in Originals :
    /\ o \in Seq(ToSet(o))
    /\ \A p \in ToSet(o) :
         /\ IsProperty(p)
         /\ p.located => p.values /= None /\ (p.e.length = None => p.e.columns \in Nat)
         /\ ~p.located => Stated(p) /= None /\ Key(p) \in DOMAIN Texts

\* The arrays of a component as read, in which whatever belongs to the i-th term is in the
\* i-th hundred, are packed in the order of the terms.
Of(number) == number \div 100

InOrder(p, d) ==
  /\ \A k \in DOMAIN p.nodes :
       /\ Of(p.nodes[k][1]) \in 1 .. Len(p.offsets)
       /\ \A i \in DOMAIN p.offsets : Of(p.nodes[k][1]) < i <=> k <= p.offsets[i]
  /\ \A k \in DOMAIN p.coefficients :
       /\ Of(p.coefficients[k]) \in 1 .. Len(p.offsets)
       /\ \A i \in DOMAIN p.offsets :
            Of(p.coefficients[k]) < i <=> k <= p.offsets[i] + (i - 1) * PolynomialTerms(d)

ASSUME PackingAssumption ==
  \A o \in Originals, w \in Directions :
    LET f == Gather(o)
        read == ReadDirection(f, w)
        key == <<"DistortionModel", w, "Local">>
        count == Len(Doubles(f, key \o <<"Radius">>).value)
        x == Packed(f, key \o <<"X">>, count, read.value)
        y == YComponent(f, key, x.value, Packed(f, key \o <<"Y">>, count, read.value))
    IN  (IF read.ok THEN "Local" \in read.value.terms ELSE FALSE) =>
          /\ x.ok => InOrder(x.value, read.value)
          /\ (IF x.ok THEN y.ok ELSE FALSE) => InOrder(y.value, read.value)

\* What is absent is no number, no spline and no term.
Spline == [normalization : Seq(Number), nodes : Seq(Number \X Number), coefficients : Seq(Number),
           shape : Number \cup {None}]

SplinePair == [x : Spline, y : Spline]

ASSUME AbsenceAssumption ==
  None \notin Nat \cup SplinePair \cup [threshold : Number, spline : SplinePair]

Init ==
  /\ original \in Originals
  /\ file = original
  /\ touched = {}
  /\ solution = None
  /\ place = None

\* One number fewer, or one row: stated and stored alike.
Shortened(p) ==
  IF p.e.length /= None
  THEN [p EXCEPT !.e.length = @ - 1, !.values = Front(@)]
  ELSE [p EXCEPT !.e.rows = @ - 1, !.values = SubSeq(@, 1, Len(@) - p.e.columns)]

\* As numbers of half the size, twice as many, in as many bytes.
Halved(p) ==
  [p EXCEPT !.e.type.prefix = "F32", !.written = "Float32",
            !.e.length = IF @ = None THEN None ELSE 2 * @,
            !.e.rows = IF @ = None THEN None ELSE 2 * @,
            !.values = @ \o @]

Altered(p) ==
  IF p.located
  THEN {[p EXCEPT !.values = None], [p EXCEPT !.values = Front(@)], Shortened(p)}
         \cup (IF p.written = "Float64" THEN {Halved(p)} ELSE {})
         \cup (IF Key(p) \notin DOMAIN Lists THEN {}
               ELSE {[p EXCEPT !.values = v] : v \in {l \in Lists[Key(p)] : Len(l) = Len(p.values)}})
  ELSE {[p EXCEPT !.e.value = t] : t \in Texts[Key(p)]}

Alter ==
  /\ solution = None /\ Cardinality(touched) < Alterations[original]
  /\ \E i \in DOMAIN file :
       /\ file[i].key \notin touched
       /\ file[i].values /= <<>>
       /\ \/ file' = RemoveAt(file, i)
          \/ \E p \in Altered(file[i]) : file' \in {ReplaceAt(file, i, p), Append(file, p)}
       /\ touched' = touched \cup {file[i].key}
  /\ UNCHANGED <<original, solution, place>>

Read ==
  /\ solution = None
  /\ solution' = ReadSolution(file)
  /\ UNCHANGED <<original, file, touched, place>>

Evaluate ==
  /\ solution /= None /\ place = None
  /\ solution.ok /\ solution.value /= None
  /\ \E which \in Directions, p \in Points :
       place' = [which |-> which, at |-> p, step |-> ImagePlaneStep(solution.value, which, p)]
  /\ UNCHANGED <<original, file, touched, solution>>

Next == Alter \/ Read \/ Evaluate

Spec == Init /\ [][Next]_vars

-----------------------------------------------------------------------------
LayerOf(key) ==
  CASE key[1] = "DistortionModel" -> 3
    [] key[1] = "ProjectiveTransformation" -> 2
    [] key[1] = "CreatorApplication" -> 4
    [] OTHER -> 1

Found == solution /= None /\ solution.ok /\ solution.value /= None

\* Whatever becomes of the properties of the distortion model, the two layers below it are
\* read as the encoder wrote them, unless the model is whole and the encoder wrote no
\* projective transformation: then the whole solution is refused. A model is never used by
\* halves, nor without the transformation it is a residual of; the layer a solution says is
\* usable is the one that evaluates; and a solution said to be complete uses the model that
\* the file holds, and none only where no text is of one, for a model of blocks alone is
\* ignored (mod.rs:640-648, 788-820, eval.rs:111-157).
LowerLayersStand ==
  /\ LET Stands(was) ==
           IF solution.ok
           THEN /\ solution.value.projection = was.projection
                /\ solution.value.projective = was.projective
                /\ solution.value.usable \in {4, IF was.projective = None THEN 1 ELSE 2}
           ELSE LET f == Gather(file)
                IN  was.projective = None /\ Mentions(f) /\ Distortion(f).ok
         Untouched(was) ==
           /\ touched = {} => solution = was
           /\ (IF was.ok THEN was.value /= None ELSE FALSE) => Stands(was.value)
     IN  (solution /= None /\ \A key \in touched : LayerOf(key) >= 3) => Untouched(ReadSolution(original))
  /\ Found =>
       LET s == solution.value
       IN  /\ s.usable < 4 => s.distortion = None
           /\ s.usable = 1 => s.projective = None
           /\ s.usable = 4 =>
                s.distortion = IF Mentions(Gather(file)) THEN Distortion(Gather(file)).value ELSE None
           /\ s.distortion /= None =>
                /\ s.projective /= None
                /\ \A w \in Directions :
                     LET d == s.distortion[w]
                     IN  /\ ("Global" \in d.terms) <=> (d.global /= None)
                         /\ ("Fallback" \in d.terms) <=> (d.fallback /= None)
                         /\ d.local /= <<>> => "Local" \in d.terms

\* The layering rule as the documentation of Availability gives it: a layer that cannot be used
\* costs that layer and the ones above it, never the ones below. Whatever becomes of the
\* projective transformation, the projection below it is read as the encoder wrote it
\* (mod.rs:399-400, 771-781).
ProjectionStands ==
  LET Stands(was) ==
        (IF was.ok THEN was.value /= None ELSE FALSE) =>
           /\ solution.ok
           /\ solution.value.projection = was.value.projection
  IN  (solution /= None /\ \A key \in touched : LayerOf(key) = 2) => Stands(ReadSolution(original))

Splines(d) ==
  LET pairs == ToSet([i \in DOMAIN d.local |-> d.local[i].spline])
                 \cup (IF d.global = None THEN {} ELSE {d.global})
                 \cup (IF d.fallback = None THEN {} ELSE {d.fallback.spline})
  IN  {pair.x : pair \in pairs} \cup {pair.y : pair \in pairs}

\* A spline that was loaded has one coefficient for each of its nodes and one for each
\* monomial, none left over and none short, whatever the arrays and the offsets hold. Where
\* nobody altered the direction, each Local term has the nodes and the coefficients that the
\* encoder packed for it, which are numbered by the hundred here (load.rs:193-343).
TermsAreWhole ==
  (Found /\ solution.value.distortion /= None) =>
    \A w \in Directions :
      LET d == solution.value.distortion[w]
      IN  /\ \A s \in Splines(d) :
               LET used == SplineTerms(s, d)
               IN  /\ Len(used.radial) = Len(s.nodes)
                   /\ Len(used.polynomial) = Len(Monomials(d.order)) \/ ~d.polynomial
                   /\ Len(used.radial) + Len(used.polynomial) = Len(s.coefficients)
          /\ (\A key \in touched : ~IsPrefix(<<"DistortionModel", w>>, key)) =>
               \A i \in DOMAIN d.local : \A s \in {d.local[i].spline.x, d.local[i].spline.y} :
                 /\ \A k \in DOMAIN s.nodes : Of(s.nodes[k][1]) = i
                 /\ \A k \in DOMAIN s.coefficients : Of(s.coefficients[k]) = i

\* With a Fallback term no point is left to the nearest Local term alone, however far it is
\* from all of them; without one, a point is left to it only outside of every Local term and
\* where there is no Global one; and where there are terms there is a value
\* (eval.rs:81-103, load.rs:106-122).
FallbackCoversTheField ==
  (place /= None /\ solution.value.distortion /= None /\ place.step.base /= None) =>
    LET d == solution.value.distortion[place.which]
        r == place.step.residual
    IN  /\ r.nearest /= None =>
             /\ d.fallback = None /\ d.global = None
             /\ \A i \in DOMAIN d.local : Distance(d.local[i], place.at) >= d.local[i].radius
        /\ (r.weighed = {} /\ r.nearest = None) => d.terms \subseteq {"Local"} /\ d.local = <<>>
=============================================================================
