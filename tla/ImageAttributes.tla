---------------------------- MODULE ImageAttributes ----------------------------
(***************************************************************************)
(* image.rs: an Image and the elements associated with it, as their        *)
(* attributes describe them. A floating point number is an integer here,   *)
(* or one of those no attribute may hold; a list of numbers is the         *)
(* sequence its colons split it into.                                      *)
(***************************************************************************)
EXTENDS Attributes

CONSTANTS
  NaN, Inf,     \* numbers that are not finite
  One,          \* the unit of a chromaticity: 1.0
  White         \* D50_WHITE, in that unit

Number == Int \cup {NaN, Inf}

Finite(x) == x \in Int

ParseNumber(text) == Check(text /= Word, "BadAttribute")

ParseFinite(text) == Check(Finite(text), "BadAttribute")

Positive(x) == Finite(x) /\ (Finite(x) => x > 0)

(***************************************************************************)
(* The enumerations.                                                       *)
(***************************************************************************)
Formats == {"UInt8", "UInt16", "UInt32", "UInt64", "Float32", "Float64", "Complex32", "Complex64"}

FormatSize(format) ==
  CASE format = "UInt8" -> 1
    [] format = "UInt16" -> 2
    [] format \in {"UInt32", "Float32"} -> 4
    [] format \in {"UInt64", "Float64", "Complex32"} -> 8
    [] format = "Complex64" -> 16

RequiresBounds(format) == format \in {"Float32", "Float64"}

ColorSpaces == {"Gray", "RGB", "CIELab"}

NominalChannels(space) == IF space = "Gray" THEN 1 ELSE 3

Storages == {"Planar", "Normal"}

ImageTypes ==
  {"Bias", "Dark", "Flat", "Light", "MasterBias", "MasterDark", "MasterFlat", "MasterLight",
   "DefectMap", "RejectionMapHigh", "RejectionMapLow", "BinaryRejectionMapHigh",
   "BinaryRejectionMapLow", "SlopeMap", "WeightMap"}

\* Any other name is kept, and none is refused.
ParseImageType(text) == [standard |-> text \in ImageTypes, name |-> text]

(***************************************************************************)
(* Orientation: [rotation, flip], the text `flip` alone having no rotation.*)
(***************************************************************************)
ParseOrientation(text) ==
  LET rotation == IF text.rotation = None THEN 0 ELSE text.rotation
  IN  Try(<<Check(rotation \in {0, 90, 180, -90}, "BadAttribute"),
            Check(text.rotation = None => text.flip, "BadAttribute")>>,
          [rotation |-> rotation, flip |-> text.flip])

\* Mutant of ToAttribute: the rotation of any orientation that flips is left out.
ToAttributeBare(o) == IF o.flip THEN [o EXCEPT !.rotation = None] ELSE o

ToAttribute(o) == IF o.rotation = 0 /\ o.flip THEN [o EXCEPT !.rotation = None] ELSE o

IsIdentity(o) == o.rotation = 0 /\ ~o.flip

(***************************************************************************)
(* Image::parse, in the order the attributes are looked at.                *)
(***************************************************************************)
ParseGeometry(fields) ==
  Try([i \in DOMAIN fields |-> ParseU64(fields[i])]
        \o <<Check(Len(fields) >= 2, "BadAttribute"),
             Check(\A i \in DOMAIN fields : fields[i] /= 0, "BadAttribute")>>,
      [dimensions |-> Front(fields), channels |-> Last(fields)])

ParseBounds(texts) ==
  Try(<<Check(Len(texts) = 2, "BadAttribute")>>
        \o [i \in DOMAIN texts |-> ParseFinite(texts[i])]
        \o <<Check(Len(texts) = 2 /\ (\A i \in DOMAIN texts : Finite(texts[i]))
                     /\ texts[1] < texts[2], "BadAttribute")>>,
      [low |-> texts[1], high |-> texts[2]])

ParseOffset(text) ==
  Try(<<ParseFinite(text), Check(Finite(text) /\ text >= 0, "BadAttribute")>>, text)

ParseImage(e) ==
  LET geometry == Present(e.geometry, ParseGeometry)
      format == Present(e.sampleFormat, LAMBDA t : Known(Formats, t, "Unsupported"))
      space == IF e.colorSpace = None THEN Good("Gray")
               ELSE Known(ColorSpaces, e.colorSpace, "Unsupported")
      storage == IF e.pixelStorage = None THEN Good("Planar")
                 ELSE Known(Storages, e.pixelStorage, "Unsupported")
      bounds == Optional(e.bounds, ParseBounds)
      offset == Optional(e.offset, ParseOffset)
      orientation == Optional(e.orientation, ParseOrientation)
  IN  Try(<<geometry, format, space, storage, bounds, offset, orientation>>,
          [dimensions |-> geometry.value.dimensions, channels |-> geometry.value.channels,
           format |-> format.value, space |-> space.value, storage |-> storage.value,
           bounds |-> bounds.value, id |-> e.id, uuid |-> e.uuid,
           type |-> IF e.imageType = None THEN None ELSE ParseImageType(e.imageType),
           offset |-> offset.value, orientation |-> orientation.value])

\* A product of 64-bit numbers, None where it overflows: the dimensions first, from the left.
CheckedProduct(factors) ==
  LET product[i \in 0 .. Len(factors)] ==
        IF i = 0 THEN 1 ELSE CheckedTimes(product[i - 1], factors[i])
  IN  product[Len(factors)]

DataSize(image) ==
  CheckedProduct(Append(Append(image.dimensions, image.channels), FormatSize(image.format)))

ChannelsSuffice(image) == image.channels >= NominalChannels(image.space)

(***************************************************************************)
(* What is associated with an image.                                       *)
(***************************************************************************)
ParsePositive(text) ==
  Try(<<ParseNumber(text), Check(Positive(text), "BadAttribute")>>, text)

ParseResolution(e) ==
  LET unit == IF e.unit = None THEN Good("inch") ELSE Known({"inch", "cm"}, e.unit, "Unsupported")
  IN  Try(<<unit, Present(e.horizontal, ParsePositive), Present(e.vertical, ParsePositive)>>,
          [horizontal |-> e.horizontal, vertical |-> e.vertical, unit |-> unit.value])

ColonNumbers(n, texts) ==
  Try([i \in DOMAIN texts |-> ParseFinite(texts[i])] \o <<Check(Len(texts) = n, "BadAttribute")>>,
      texts)

Triple(text) == Present(text, LAMBDA t : ColonNumbers(3, t))

ParseWorkingSpace(e) ==
  Try(<<Present(e.gamma, LAMBDA g : IF g.srgb THEN Good(None) ELSE ParsePositive(g.exponent)),
        Triple(e.x), Triple(e.y), Triple(e.Y)>>,
      e)

ParseDisplayFunction(e) ==
  LET Quad(text) == Present(text, LAMBDA t : ColonNumbers(4, t))
  IN  Try(<<Quad(e.m), Quad(e.s), Quad(e.h), Quad(e.l), Quad(e.r)>>, e)

CfaElements == {"0", "R", "G", "B", "W", "C", "M", "Y"}

\* The pattern is the matrix: the two must agree.
ParseFilterArray(e) ==
  LET Pattern(text) == Check(\A i \in DOMAIN text : text[i] \in CfaElements, "BadAttribute")
      Dimension(text) == Try(<<ParseU64(text), Check(text /= 0, "BadAttribute")>>, text)
      fields == Try(<<Present(e.pattern, Pattern),
                      Present(e.width, Dimension), Present(e.height, Dimension)>>, e)
  IN  IF fields.ok /\ CheckedTimes(e.width, e.height) /= Len(e.pattern)
      THEN Bad("BadAttribute")
      ELSE fields

ElementAt(cfa, x, y) == cfa.pattern[(y % cfa.height) * cfa.width + (x % cfa.width) + 1]

(***************************************************************************)
(* derive_luminance: Cramer's rule for the primaries against the white     *)
(* point, on columns multiplied by their y; None for degenerate ones. The  *)
(* coefficients are fractions.                                             *)
(***************************************************************************)
Det(m) ==
    m[1][1] * (m[2][2] * m[3][3] - m[3][2] * m[2][3])
  - m[2][1] * (m[1][2] * m[3][3] - m[3][2] * m[1][3])
  + m[3][1] * (m[1][2] * m[2][3] - m[2][2] * m[1][3])

\* The code calls the primaries collinear below a determinant of 1e-12; in whole hundredths a
\* determinant that is not zero is far above that.
DeriveLuminance(x, y) ==
  LET columns == [i \in 1 .. 3 |-> <<x[i], y[i], One - x[i] - y[i]>>]
      base == Det(columns)
      sign == IF base < 0 THEN -1 ELSE 1
  IN  IF (\E i \in 1 .. 3 : ~Finite(x[i]) \/ ~Finite(y[i])) THEN None
      ELSE IF (\E i \in 1 .. 3 : y[i] = 0) \/ base = 0 THEN None
      ELSE [k \in 1 .. 3 |-> [num |-> sign * Det([columns EXCEPT ![k] = White]) * y[k],
                             den |-> sign * base]]
=============================================================================
