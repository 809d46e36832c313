------------------------------- MODULE Solution -------------------------------
(***************************************************************************)
(* astrometry/: the AstrometricSolution properties of an image, read layer *)
(* by layer, and the image-plane step that evaluates what was read.        *)
(*                                                                         *)
(* A property is named by what its colons split its identifier into, its   *)
(* namespace left out. Numbers are whole.                                  *)
(***************************************************************************)
EXTENDS ImageAttributes, Values

CONSTANT Misread   \* what comes of bytes read as numbers that they are not

Directions == {"ImageToProjection", "ProjectionToImage"}

Systems ==
  {"Gnomonic", "Stereographic", "ZenithalEqualArea", "Orthographic", "PlateCarree", "Mercator",
   "HammerAitoff"}

Zenithal(system) == system \in {"Gnomonic", "Stereographic", "ZenithalEqualArea", "Orthographic"}

DefaultReferenceNative(system) == IF Zenithal(system) THEN <<0, 90>> ELSE <<0, 0>>

\* A version is the numbers around its dot, two or it is none; a number with a sign is none.
ParseVersion(text) ==
  Check(Len(text) = 2 /\ (\A i \in DOMAIN text : text[i] \in Nat), "BadAttribute")

Supports(version) == version[1] = 1

(***************************************************************************)
(* The vocabulary of a distortion model.                                   *)
(***************************************************************************)
Logarithmic == {"ThinPlateSpline", "VariableOrder"}
Shaped == {"Gaussian", "Multiquadric", "InverseMultiquadric", "InverseQuadratic"}

MinimumOrder(basis) ==
  CASE basis = "ThinPlateSpline" -> 2 [] basis = "VariableOrder" -> 3 [] OTHER -> 0

TermKinds == {"Global", "Local", "Fallback"}

ParseTerms(lines) ==
  Try(<<Check(ToSet(lines) \subseteq TermKinds, "Unsupported"),
        Check(lines /= <<>>, "BadHeader"),
        Check("Fallback" \in ToSet(lines) => "Local" \in ToSet(lines), "BadHeader")>>,
      ToSet(lines))

Validate(d) ==
  Try(<<Check(d.order >= MinimumOrder(d.basis), "BadHeader"),
        Check(d.basis \in Logarithmic => d.polynomial, "BadHeader")>>, d)

\* Q = m (m + 1) / 2.
PolynomialTerms(d) == IF d.polynomial /\ d.order >= 1 THEN (d.order * (d.order + 1)) \div 2 ELSE 0

(***************************************************************************)
(* The properties of the namespace: those in a block by themselves. The    *)
(* last of one name counts.                                                *)
(***************************************************************************)
Stated(p) == IF p.e.value /= None THEN p.e.value ELSE p.e.text

Gather(file) ==
  LET located == {i \in DOMAIN file : file[i].located}
      said == {i \in DOMAIN file : ~file[i].located /\ Stated(file[i]) /= None}
      Keys(entries) == {file[i].key : i \in entries}
      Latest(entries, key) == file[Max({i \in entries : file[i].key = key})]
  IN  [scalars |-> [key \in Keys(said) |-> Stated(Latest(said, key))],
       blocks |-> [key \in Keys(located) |-> Latest(located, key)]]

Text(f, key) == IF key \in DOMAIN f.scalars THEN f.scalars[key] ELSE None

\* The numbers of a block of one of the shapes, whose bytes must be as many as its shape has:
\* as `scalar`s, whatever type the property states.
BlockWords(b, property, scalar, shapes) ==
  LET bytes == Len(b.values) * ScalarSize(b.written)
      stated == PropertyDataSize(property)
  IN  IF property.kind.shape \notin shapes THEN Bad("BadHeader")
      ELSE IF b.values = None THEN Bad("Io")
      ELSE IF bytes /= (IF stated = None THEN 0 ELSE stated) THEN Bad("Truncated")
      ELSE IF b.written = scalar THEN Good(b.values)
      ELSE Good([i \in 1 .. bytes \div ScalarSize(scalar) |-> Misread])

Words(f, key, scalar, shapes) ==
  IF key \notin DOMAIN f.blocks THEN Good(None)
  ELSE AndThen(ParseProperty(f.blocks[key].e),
               LAMBDA property : BlockWords(f.blocks[key], property, scalar, shapes))

Needed(result) == AndThen(result, LAMBDA value : Present(value, Good))

OfLength(list, n) == IF Len(list) = n THEN Good(list) ELSE Bad("BadHeader")

(***************************************************************************)
(* The first two layers.                                                   *)
(***************************************************************************)
Numbers(f, key) == Words(f, key, "Float64", {"Vector", "Matrix"})

RequiredNumbers(f, key, n) == AndThen(Needed(Numbers(f, key)), LAMBDA list : OfLength(list, n))

\* The two optional coordinates are taken out of however many numbers there are: to index
\* past the end of them is to panic.
OptionalPair(f, key) ==
  AndThen(Numbers(f, key),
          LAMBDA list : IF list = None THEN Good(None)
                        ELSE IF Len(list) < 2 THEN Bad("Panic")
                        ELSE Good(SubSeq(list, 1, 2)))

ReadProjection(f) ==
  LET reference == Text(f, <<"CelestialReferenceSystem">>)
  IN  Fields(<<"system", "linear", "celestial", "image", "native", "pole">>,
        [system |-> Present(Text(f, <<"ProjectionSystem">>), LAMBDA t : Known(Systems, t, "Unsupported")),
         linear |-> RequiredNumbers(f, <<"LinearTransformationMatrix">>, 4),
         celestial |-> RequiredNumbers(f, <<"ReferenceCelestialCoordinates">>, 2),
         image |-> RequiredNumbers(f, <<"ReferenceImageCoordinates">>, 2),
         native |-> OptionalPair(f, <<"ReferenceNativeCoordinates">>),
         pole |-> OptionalPair(f, <<"CelestialPoleNativeCoordinates">>),
         reference |-> Good(IF reference = None THEN "ICRS" ELSE reference)])

BothDirections == <<"ImageToProjection", "ProjectionToImage">>

ReadProjective(f) ==
  LET Nine(list) == IF list = None THEN FALSE ELSE Len(list) = 9
  IN  AndThen(
        Fields(BothDirections, [w \in Directions |-> Numbers(f, <<"ProjectiveTransformation", w>>)]),
        LAMBDA both : IF \A w \in Directions : both[w] = None THEN Good(None)
                      ELSE IF \A w \in Directions : Nine(both[w]) THEN Good(both)
                      ELSE Bad("BadHeader"))

(***************************************************************************)
(* The third layer. f is what was gathered, at the prefix of a term's keys.*)
(***************************************************************************)
ReadDirection(f, which) ==
  LET Leaf(leaf) == Text(f, <<"DistortionModel", which, leaf>>)
      polynomial == IF Leaf("Polynomial") = None THEN "true" ELSE Leaf("Polynomial")
  IN  AndThen(
        Fields(<<"basis", "order", "polynomial", "terms">>,
          [basis |-> Present(Leaf("BasisFunction"), LAMBDA t : Known(Logarithmic \cup Shaped, t, "Unsupported")),
           order |-> Present(Leaf("Order"), LAMBDA t : IF t = Word THEN Bad("BadAttribute") ELSE Good(t)),
           polynomial |-> MapOk(Known({"true", "1", "false", "0"}, polynomial, "BadAttribute"),
                                LAMBDA t : t \in {"true", "1"}),
           terms |-> Present(Leaf("Terms"), ParseTerms)]),
        LAMBDA d : Validate(Joined([global |-> None, local |-> <<>>, fallback |-> None], d)))

AnyShape == {"Scalar", "String", "TimePoint", "Vector", "Matrix", "Table"}

Doubles(f, key) == Needed(Words(f, key, "Float64", AnyShape))

Pairs(numbers) == [i \in 1 .. Len(numbers) \div 2 |-> <<numbers[2 * i - 1], numbers[2 * i]>>]

ScalarNumber(f, key) ==
  IF Text(f, key) = Word THEN Bad("BadAttribute") ELSE Good(Text(f, key))

\* One component of a single term, but for its normalization's length.
Component(f, key, d) ==
  Fields(<<"normalization", "nodes", "coefficients", "shape">>,
    [normalization |-> Doubles(f, key \o <<"Normalization">>),
     nodes |-> MapOk(Doubles(f, key \o <<"Nodes">>), Pairs),
     coefficients |-> Doubles(f, key \o <<"Coefficients">>),
     shape |-> IF d.basis \in Shaped THEN ScalarNumber(f, key \o <<"ShapeParameter">>) ELSE Good(None)])

\* Y is X with its own coefficients, unless it has nodes of its own.
YComponent(f, key, x, own) ==
  IF key \o <<"Y", "Nodes">> \in DOMAIN f.blocks THEN own
  ELSE MapOk(Doubles(f, key \o <<"Y", "Coefficients">>), LAMBDA list : [x EXCEPT !.coefficients = list])

CheckLength(spline, d) ==
  Try(<<Check(Len(spline.normalization) = 3, "BadHeader"),
        Check(Len(spline.coefficients) = Len(spline.nodes) + PolynomialTerms(d), "BadHeader")>>, spline)

SingleTerm(f, key, d) ==
  AndThen(Component(f, key \o <<"X">>, d), LAMBDA x :
  AndThen(YComponent(f, key, x, Component(f, key \o <<"Y">>, d)), LAMBDA y :
    Try(<<CheckLength(x, d), CheckLength(y, d)>>, [x |-> x, y |-> y])))

(***************************************************************************)
(* Local terms share their arrays: term i has the nodes from its offset to *)
(* the next one's, and as many coefficients and Q more.                    *)
(***************************************************************************)
Packed(f, key, count, d) ==
  Fields(<<"normalizations", "offsets", "nodes", "coefficients", "shapes">>,
    [normalizations |-> Doubles(f, key \o <<"Normalization">>),
     offsets |-> AndThen(Needed(Words(f, key \o <<"NodeOffsets">>, "Int32", AnyShape)),
                         LAMBDA list : OfLength(list, count)),
     nodes |-> MapOk(Doubles(f, key \o <<"Nodes">>), Pairs),
     coefficients |-> Doubles(f, key \o <<"Coefficients">>),
     shapes |-> IF d.basis \notin Shaped THEN Good(<<>>)
                ELSE MapOk(Words(f, key \o <<"ShapeParameter">>, "Float64", AnyShape),
                           LAMBDA list : IF list = None THEN <<>> ELSE list)])

\* Mutant of CutTerm: the polynomial coefficients of the terms before are not passed over.
CutTermFlush(p, i, d) ==
  LET start == p.offsets[i]
      end == IF i < Len(p.offsets) THEN p.offsets[i + 1] ELSE Len(p.nodes)
      last == end + PolynomialTerms(d)
  IN  IF /\ start \in Nat /\ end \in Nat /\ start <= end /\ end <= Len(p.nodes)
         /\ last <= Len(p.coefficients)
         /\ 3 * i <= Len(p.normalizations)
      THEN Good([normalization |-> SubSeq(p.normalizations, 3 * i - 2, 3 * i),
                 nodes |-> SubSeq(p.nodes, start + 1, end),
                 coefficients |-> SubSeq(p.coefficients, start + 1, last),
                 shape |-> IF i \in DOMAIN p.shapes THEN p.shapes[i] ELSE None])
      ELSE Bad("BadHeader")

CutTerm(p, i, d) ==
  LET start == p.offsets[i]
      end == IF i < Len(p.offsets) THEN p.offsets[i + 1] ELSE Len(p.nodes)
      q == PolynomialTerms(d)
      last == end + i * q
  IN  IF /\ start \in Nat /\ end \in Nat /\ start <= end /\ end <= Len(p.nodes)
         /\ last <= Len(p.coefficients)
         /\ 3 * i <= Len(p.normalizations)
      THEN Good([normalization |-> SubSeq(p.normalizations, 3 * i - 2, 3 * i),
                 nodes |-> SubSeq(p.nodes, start + 1, end),
                 coefficients |-> SubSeq(p.coefficients, start + (i - 1) * q + 1, last),
                 shape |-> IF i \in DOMAIN p.shapes THEN p.shapes[i] ELSE None])
      ELSE Bad("BadHeader")

LocalTerm(disks, x, y, i, d) ==
  MapOk(Fields(<<"radius", "x", "y">>,
          [radius |-> Check(Positive(disks.radii[i]), "BadHeader"), x |-> CutTerm(x, i, d), y |-> CutTerm(y, i, d)]),
        LAMBDA cut : [center |-> disks.centers[i], radius |-> disks.radii[i],
                      spline |-> [x |-> cut.x, y |-> cut.y]])

LocalTerms(f, key, d) ==
  AndThen(Fields(<<"centers", "radii">>,
            [centers |-> MapOk(Doubles(f, key \o <<"Center">>), Pairs), radii |-> Doubles(f, key \o <<"Radius">>)]),
  LAMBDA disks :
    LET count == Len(disks.radii)
    IN  IF Len(disks.centers) /= count THEN Bad("BadHeader")
        ELSE AndThen(Packed(f, key \o <<"X">>, count, d), LAMBDA x :
             AndThen(YComponent(f, key, x, Packed(f, key \o <<"Y">>, count, d)), LAMBDA y :
               Collect([i \in 1 .. count |-> LocalTerm(disks, x, y, i, d)]))))

\* Mutant of ParseThreshold: any finite number will do.
ParseThresholdAny(text) ==
  Try(<<Check(text /= Word, "BadAttribute"), Check(Finite(text), "BadHeader")>>, text)

ParseThreshold(text) ==
  Try(<<Check(text /= Word, "BadAttribute"), Check(Positive(text), "BadHeader")>>, text)

Load(f, which, d) ==
  LET Key(kind) == <<"DistortionModel", which, kind>>
      fallback == Fields(<<"threshold", "spline">>,
                    [threshold |-> Present(Text(f, Key("Fallback") \o <<"Threshold">>), ParseThreshold),
                     spline |-> SingleTerm(f, Key("Fallback"), d)])
  IN  MapOk(Fields(<<"global", "local", "fallback">>,
              [global |-> IF "Global" \in d.terms THEN SingleTerm(f, Key("Global"), d) ELSE Good(None),
               local |-> IF "Local" \in d.terms THEN LocalTerms(f, Key("Local"), d) ELSE Good(<<>>),
               fallback |-> IF "Fallback" \in d.terms THEN fallback ELSE Good(None)]),
            LAMBDA terms : Joined(terms, d))

\* Both directions, read and then loaded.
Distortion(f) ==
  Fields(BothDirections,
         [w \in Directions |-> AndThen(ReadDirection(f, w), LAMBDA d : Load(f, w, d))])

(***************************************************************************)
(* read: the solution, None if the image has none, or an error for what    *)
(* costs all of it.                                                        *)
(***************************************************************************)
Mentions(f) == \E key \in DOMAIN f.scalars : key[1] = "DistortionModel"

\* Mutant of ThirdLayer: what breaks the distortion model breaks the solution.
ThirdLayerRequired(f, projective) ==
  LET Model(distortion) == [distortion |-> distortion, usable |-> 4]
  IN  IF ~Mentions(f) THEN Good(Model(None))
      ELSE AndThen(Distortion(f),
             LAMBDA d : IF projective = None THEN Bad("BadHeader") ELSE Good(Model(d)))

ThirdLayer(f, projective) ==
  LET Layer(model) ==
        IF ~model.ok
        THEN Good([distortion |-> None, usable |-> IF projective = None THEN 1 ELSE 2])
        ELSE Try(<<Check(projective /= None, "BadHeader")>>, [distortion |-> model.value, usable |-> 4])
  IN  IF Mentions(f) THEN Layer(Distortion(f)) ELSE Good([distortion |-> None, usable |-> 4])

ReadSolution(file) ==
  LET f == Gather(file)
      text == Text(f, <<"Version">>)
      version == Present(text, LAMBDA t :
                   AndThen(ParseVersion(t), LAMBDA parsed : Check(Supports(t), "Unsupported")))
      layers == Fields(<<"projection", "projective">>,
                  [projection |-> ReadProjection(f), projective |-> ReadProjective(f)])
  IN  IF DOMAIN f.scalars = {} /\ DOMAIN f.blocks = {} THEN Good(None)
      ELSE AndThen(version, LAMBDA supported : AndThen(layers, LAMBDA lower :
             MapOk(ThirdLayer(f, lower.projective), LAMBDA third :
               Joined([version |-> text, creator |-> Text(f, <<"CreatorApplication">>)],
                      Joined(lower, third)))))
=============================================================================
