---------------------------- MODULE MCSolvedImage -----------------------------
(***************************************************************************)
(* Solutions of one, two and three layers, with every kind of term, a      *)
(* kernel of either family, and Y components that share and that do not.   *)
(* The numbers of Local term i are in the i-th hundred.                    *)
(***************************************************************************)
EXTENDS SolvedImage

MCWhite == <<96, 100, 83>>

Element_(prefix, suffix, value, length, rows, columns) ==
  [id |-> "id", type |-> [prefix |-> prefix, suffix |-> suffix], value |-> value, text |-> None,
   length |-> length, rows |-> rows, columns |-> columns]

Said(key, text) ==
  [key |-> key, located |-> FALSE, e |-> Element_("String", "", text, None, None, None),
   written |-> None, values |-> None]

Vector(key, values) ==
  [key |-> key, located |-> TRUE, e |-> Element_("F64", "Vector", None, Len(values), None, None),
   written |-> "Float64", values |-> values]

Matrix(key, columns, values) ==
  [key |-> key, located |-> TRUE,
   e |-> Element_("F64", "Matrix", None, None, Len(values) \div columns, columns),
   written |-> "Float64", values |-> values]

Offsets(key, values) ==
  [key |-> key, located |-> TRUE, e |-> Element_("I32", "Vector", None, Len(values), None, None),
   written |-> "Int32", values |-> values]

First ==
  <<Said(<<"Version">>, <<1, 0>>), Said(<<"ProjectionSystem">>, "Gnomonic"),
    Matrix(<<"LinearTransformationMatrix">>, 2, <<1, 2, 3, 5>>),
    Vector(<<"ReferenceCelestialCoordinates">>, <<10, 20>>),
    Vector(<<"ReferenceImageCoordinates">>, <<1, 1>>)>>

Optionals ==
  <<Vector(<<"ReferenceNativeCoordinates">>, <<0, 90>>),
    Vector(<<"CelestialPoleNativeCoordinates">>, <<180, 90>>),
    Said(<<"CelestialReferenceSystem">>, "GCRS"), Said(<<"CreatorApplication">>, "encoder")>>

Second ==
  <<Matrix(<<"ProjectiveTransformation", "ImageToProjection">>, 3, <<1, 0, 0, 0, 1, 0, 0, 0, 1>>),
    Matrix(<<"ProjectiveTransformation", "ProjectionToImage">>, 3, <<1, 0, 2, 0, 1, 3, 1, 0, -1>>)>>

Third(which, said, terms) ==
  LET Under(p) == [p EXCEPT !.key = <<"DistortionModel", which>> \o @]
      parts == said \o terms
  IN  [i \in DOMAIN parts |-> Under(parts[i])]

Kernel(basis, order, terms) ==
  <<Said(<<"BasisFunction">>, basis), Said(<<"Order">>, order), Said(<<"Terms">>, terms)>>

\* One node; q polynomial coefficients.
Single(kind, c, q) ==
  <<Vector(<<kind, c, "Normalization">>, <<0, 0, 1>>), Matrix(<<kind, c, "Nodes">>, 2, <<3, 4>>),
    Vector(<<kind, c, "Coefficients">>, [k \in 1 .. 1 + q |-> k])>>

\* Two terms, of one node and of two.
Centers ==
  <<Matrix(<<"Local", "Center">>, 2, <<0, 0, 4, 0>>), Vector(<<"Local", "Radius">>, <<1, 2>>)>>

Coefficients(c, q) ==
  Vector(<<"Local", c, "Coefficients">>,
         [k \in 1 .. 1 + q |-> 110 + k] \o [k \in 1 .. 2 + q |-> 210 + k])

Local(c, q) ==
  <<Vector(<<"Local", c, "Normalization">>, <<0, 0, 1, 4, 0, 2>>),
    Offsets(<<"Local", c, "NodeOffsets">>, <<0, 1>>),
    Matrix(<<"Local", c, "Nodes">>, 2, <<101, 102, 201, 202, 203, 204>>), Coefficients(c, q)>>

\* Y shares the nodes of X.
Plate(which) ==
  Third(which, Kernel("ThinPlateSpline", 2, <<"Global", "Local">>),
        Single("Global", "X", 3) \o <<Vector(<<"Global", "Y", "Coefficients">>, <<9, 8, 7, 6>>)>>
          \o Centers \o Local("X", 3) \o <<Coefficients("Y", 3)>>)

\* Y has its own.
Gauss(which) ==
  Third(which, Append(Kernel("Gaussian", 1, <<"Local", "Fallback">>), Said(<<"Polynomial">>, "false")),
        Centers \o Local("X", 0) \o Local("Y", 0)
          \o <<Vector(<<"Local", "X", "ShapeParameter">>, <<5, 6>>),
               Said(<<"Fallback", "Threshold">>, 32), Said(<<"Fallback", "X", "ShapeParameter">>, 5)>>
          \o Single("Fallback", "X", 0) \o Single("Fallback", "Y", 0))

Quadric(which, basis) ==
  Third(which, Kernel(basis, 0, <<"Local">>), Centers \o Local("X", 0) \o <<Coefficients("Y", 0)>>)

Quadrics(basis) == Quadric("ImageToProjection", "InverseQuadratic") \o Quadric("ProjectionToImage", basis)

\* A model has nothing below it: it costs the solution, or is none and an alteration makes it one.
MCOriginals ==
  {<<>>, First, First \o Optionals, First \o Second,
   First \o Second \o Plate("ImageToProjection") \o Gauss("ProjectionToImage"),
   First \o Second \o Gauss("ImageToProjection") \o Quadric("ProjectionToImage", "InverseQuadratic"),
   First \o Quadrics("InverseQuadratic"), First \o Quadrics("Bessel"),
   First \o Second \o Quadrics("InverseQuadratic")}

\* The larger ones once.
MCAlterations == [o \in MCOriginals |-> IF Len(o) <= 10 THEN 2 ELSE 1]

MCTexts ==
  [Version |-> {<<1, 9>>, <<2, 0>>, <<1>>, <<1, Word>>, <<1, -1>>}, ProjectionSystem |-> {"Mercator", "TSC"},
   CelestialReferenceSystem |-> {"ICRS", "FK4"}, CreatorApplication |-> {"other"},
   BasisFunction |-> {"VariableOrder", "ThinPlateSpline", "Multiquadric", "Bessel"},
   Order |-> {-1, 1, 3, Word}, Polynomial |-> {"1", "0", "maybe"},
   Terms |-> {<<"Global">>, <<"Fallback">>, <<"Local", "Local">>, <<"Far">>, <<>>},
   Threshold |-> {0, -1, NaN, 1, Word}, ShapeParameter |-> {7, Word}]

MCLists ==
  [LinearTransformationMatrix |-> {<<1, 2, 2, 4>>, <<1, Inf, 3, 5>>},
   ReferenceImageCoordinates |-> {<<NaN, 1>>},
   ImageToProjection |-> {<<1, 0, 0, 0, Inf, 0, 0, 0, 1>>, <<1, 0, 0, 0, 1, 0, NaN, 0, 1>>},
   Radius |-> {<<2, 1>>, <<0, 1>>, <<1, NaN>>},
   NodeOffsets |-> {<<0, 0>>, <<1, 0>>, <<1, 1>>, <<0, 3>>, <<0, 4>>, <<-1, 1>>, <<3, 3>>}]

MCPoints == {<<0, 0>>, <<3, 0>>, <<1, 0>>, <<2, 0>>, <<50, 0>>}

\* Terms are as many as the monomials, and in their order.
ASSUME MonomialsAreCounted ==
  \A m \in 0 .. 6 : Len(Monomials(m)) = PolynomialTerms([order |-> m, polynomial |-> TRUE])

ASSUME MonomialsAreOrdered ==
  Monomials(3) = <<<<0, 0>>, <<1, 0>>, <<0, 1>>, <<2, 0>>, <<1, 1>>, <<0, 2>>>>

\* The weight runs from one at the centre to zero at the edge and stays there.
ASSUME WeightRunsFromOneToZero ==
  /\ \A r \in 1 .. 9 : LET centre == Wendland(0, r)
                        IN  centre.at = centre.over /\ \A d \in r .. 9 : Wendland(d, r).at = 0
  /\ Wendland(1, 2) = [at |-> 6, over |-> 32]

\* The first layer, there and back.
ASSUME LinearInverts ==
  LET projection == [linear |-> <<1, 2, 3, 5>>, image |-> <<1, 1>>]
  IN  \A x, y \in -3 .. 3 :
        LET plane == Linear(projection, <<x, y>>).at
            back == LinearInverse(projection, plane)
        IN  back.at = <<x * back.over, y * back.over>>
=============================================================================
