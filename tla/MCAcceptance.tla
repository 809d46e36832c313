----------------------------- MODULE MCAcceptance -----------------------------
(***************************************************************************)
(* Images of four samples, each with something of its own: in order, or a  *)
(* way in which a description is refused, is lost or changes. Bytes have   *)
(* one bit, so that a scalar of sixteen bytes counts to 2^16.              *)
(***************************************************************************)
EXTENDS Acceptance

MCWhite == <<96, 100, 83>>

MCSpelling ==
  [img |-> <<<<"a", "0">>>>, copy |-> <<<<"_">>>>, bad |-> <<<<"0", "a">>>>,
   stars |-> <<<<"a">>>>, key |-> <<<<"A">>, <<"a", "_">>>>, torn |-> <<<<"A">>, <<>>>>,
   OBJECT |-> <<<<"A", "A", "-", "0">>>>, lower |-> <<<<"a">>>>,
   tenletters |-> <<[i \in 1 .. 9 |-> "A"]>>] @@
  ("XISF:CreatorApplication" :> <<<<"A">>, <<"A", "a">>>>)

Hex(n) == [i \in 1 .. n |-> 4]

Uuid == <<Hex(8), Hex(4), Hex(4), Hex(4), Hex(12)>>

Plain ==
  [dimensions |-> <<2, 2>>, channels |-> 1, format |-> "UInt8", space |-> "Gray",
   storage |-> "Planar", bounds |-> None, id |-> None, uuid |-> None, type |-> None,
   offset |-> None, orientation |-> None]

Cell_(value, text) == [value |-> value, text |-> text, location |-> None]

Field_(id, shape, element) ==
  [id |-> id, kind |-> Type(shape, element), format |-> None, header |-> None]

Table_(fields) ==
  [id |-> "stars", fields |-> fields, caption |-> None, comment |-> "found",
   rows |-> <<[k \in DOMAIN fields |-> Cell_("1", None)], [k \in DOMAIN fields |-> Cell_(None, None)]>>]

Good_ == Table_(<<Field_("key", "Scalar", "Float64"), Field_("img", "Matrix", "UInt8")>>)

MCTables ==
  {Good_,
   Table_(<<Field_("key", "String", None), Field_("key", "TimePoint", "Int8")>>),
   Table_(<<Field_("key", "Vector", "Boolean")>>), Table_(<<Field_("key", "Scalar", None)>>),
   Table_(<<Field_("key", "Vector", None), Field_("stars", "Scalar", "Boolean")>>),
   Table_(<<Field_("torn", "String", None)>>), Table_(<<>>),
   [Good_ EXCEPT !.rows[1][1] = Cell_("1", "2")],
   [Good_ EXCEPT !.rows[1] = <<Cell_("1", None)>>],
   [Good_ EXCEPT !.rows[2][2].location = "inline"]}

P(image, bytes) ==
  [image |-> image, bytes |-> bytes, options |-> Unasked, profile |-> None,
   resolution |-> None, space |-> None, function |-> None, filter |-> None, thumbnail |-> None,
   keywords |-> <<>>, tables |-> <<>>]

Base == P(Plain, 4)

Resolution_(h, v) == [horizontal |-> h, vertical |-> v, unit |-> "cm"]

Space_(srgb, exponent, x) ==
  [gamma |-> [srgb |-> srgb, exponent |-> exponent], x |-> x, y |-> <<33, 60, 7>>,
   Y |-> <<0, 0, 0>>, name |-> None]

Srgb == Space_(TRUE, None, <<65, 32, 16>>)

Four(v) == <<v, v, v, v>>

Function_(r) ==
  [m |-> Four(5), s |-> Four(0), h |-> Four(10), l |-> Four(0), r |-> Four(r), name |-> "f"]

Filter_(pattern, width, height) ==
  [pattern |-> pattern, width |-> width, height |-> height, name |-> None]

Small ==
  [Plain EXCEPT !.channels = 3, !.space = "RGB", !.storage = "Normal",
                !.orientation = [rotation |-> 0, flip |-> TRUE]]

Turned(rotation, flip) == [Plain EXCEPT !.orientation = [rotation |-> rotation, flip |-> flip]]

Asked(codec, item, shrinks) == [codec |-> codec, item |-> item, shrinks |-> shrinks]

Full ==
  [Base EXCEPT
     !.image = [Turned(-90, TRUE) EXCEPT !.id = "img", !.uuid = Uuid, !.offset = 10,
                                         !.type = [standard |-> TRUE, name |-> "Light"]],
     !.resolution = Resolution_(72, 36), !.space = Srgb, !.function = Function_(10),
     !.filter = Filter_(<<"R", "G", "G", "B">>, 2, 2), !.profile = 128,
     !.thumbnail = [P(Small, 12) EXCEPT !.options.compression = Asked("zlib", 2, TRUE),
                                        !.options.checksum = "sha-256"],
     !.keywords = <<"OBJECT", "OBJECT">>, !.tables = <<Good_>>]

\* Accepted, and found as they were given.
InOrder ==
  {Base, Full, [Base EXCEPT !.image.id = "img"],
   [Base EXCEPT !.image = Turned(0, TRUE), !.options.compression = Asked("zlib", 2, TRUE),
                !.options.checksum = "sha3-512"],
   [Base EXCEPT !.options.compression = Asked("lz4", 1, TRUE), !.options.checksum = "sha-1"],
   [Base EXCEPT !.options.compression = Asked("zstd", None, FALSE)],
   P([Plain EXCEPT !.format = "Float32", !.bounds = [low |-> -1, high |-> 7]], 16)}

\* Accepted, and lost in whole or in part.
Lossy ==
  {P([Plain EXCEPT !.format = "Float64", !.bounds = [low |-> 1, high |-> 1]], 32),
   [Base EXCEPT !.image.bounds = [low |-> 0, high |-> NaN]],
   P([Plain EXCEPT !.dimensions = <<0, 2>>], 0), P([Plain EXCEPT !.dimensions = <<>>], 1),
   P([Plain EXCEPT !.channels = 0], 0),
   [Base EXCEPT !.image.offset = -1], [Base EXCEPT !.image.offset = Inf],
   [Base EXCEPT !.image = Turned(45, FALSE)],
   [Base EXCEPT !.image.type = [standard |-> FALSE, name |-> "Light"], !.resolution = Resolution_(0, 1)],
   [Base EXCEPT !.space = Space_(FALSE, 0, <<65, 32, 16>>), !.function = Function_(Inf)],
   [Base EXCEPT !.filter = Filter_(<<"R", "G", "B">>, 2, 2), !.thumbnail = P(Turned(0, FALSE), 4)],
   [Base EXCEPT !.filter = Filter_(<<>>, 0, 3),
                !.thumbnail = P([Plain EXCEPT !.dimensions = <<0, 2>>], 0)],
   [Full EXCEPT !.image.id = "copy", !.tables = <<Table_(<<Field_("key", "Vector", "Boolean")>>), Good_>>]}

\* Refused.
Refused ==
  {P([Plain EXCEPT !.format = "Float32"], 16), [Base EXCEPT !.image.id = "bad"],
   [Base EXCEPT !.image.uuid = <<Hex(8)>>], [Base EXCEPT !.image.uuid = [Uuid EXCEPT ![3][1] = 5]],
   [Base EXCEPT !.bytes = 3], P([Plain EXCEPT !.dimensions = <<1000, 1000>>], 0),
   [Base EXCEPT !.thumbnail = P([Plain EXCEPT !.dimensions = <<4>>], 4)],
   [Base EXCEPT !.thumbnail = P([Plain EXCEPT !.space = "CIELab", !.channels = 3], 12)],
   [Base EXCEPT !.thumbnail = P([Plain EXCEPT !.bounds = [low |-> 0, high |-> 9]], 4)],
   [Base EXCEPT !.keywords = <<"lower">>], [Base EXCEPT !.keywords = <<"tenletters">>],
   [Base EXCEPT !.tables = <<Table_(<<>>)>>]}

\* No luminance follows, or a profile has no header: the unit cannot be serialised.
Degenerate ==
  {[Base EXCEPT !.space = Space_(TRUE, None, <<33, 60, 7>>)], [Base EXCEPT !.profile = 127]}

MCPendings == InOrder \cup Lossy \cup Refused \cup Degenerate

Property_(id, type, value) == [id |-> id, type |-> type, value |-> value]

MCProperties ==
  {Property_("key", "String", "text"), Property_("key", "String", Empty),
   Property_("XISF:CreatorApplication", "String", "other"), Property_("torn", "String", "text"),
   Property_("img", "Boolean", "true")}

Name_(saved, trimmed, dots, slash) ==
  [saved |-> saved, trimmed |-> trimmed, dots |-> dots, slash |-> slash]

MCNames ==
  {Name_("a.xisb", "a.xisb", FALSE, FALSE), Name_("..", "..", TRUE, FALSE),
   Name_("a ", "a", FALSE, FALSE), Name_("a/b", "a/b", FALSE, TRUE), Name_(Empty, Empty, FALSE, FALSE)}

Turn(rotation, flip) == [rotation |-> rotation, flip |-> flip]

Digits(n) == [i \in 1 .. n |-> 10]

Location_(scheme, rest) == [scheme |-> scheme, rest |-> rest]

MCEdits ==
  [element |->
     [geometry |-> {None, <<4>>, <<2, Word, 1>>, <<2, 2, 0>>, <<0, 2, 1>>, <<30, 30, 3>>, <<2, 3, 2, 1>>},
      sampleFormat |-> {None, "Float32", "Int8"}, colorSpace |-> {None, "CMYK"},
      pixelStorage |-> {None, "Tiled"}, id |-> {"bad"}, imageType |-> {"Odd", "Flat"},
      bounds |-> {<<1>>, <<0, Word>>, <<0, Inf>>, <<0, 1, 2>>, <<3, 9>>},
      offset |-> {Word, 0, -3},
      orientation |-> {Turn(None, TRUE), Turn(None, FALSE), Turn(0, FALSE), Turn(91, TRUE), Turn(180, TRUE)}],
   block |->
     [compression |-> {[codec |-> "bz", shuffled |-> FALSE, fields |-> <<9>>],
                       [codec |-> "zlib", shuffled |-> TRUE, fields |-> <<9>>],
                       [codec |-> "zlib", shuffled |-> FALSE, fields |-> <<9, 4>>]},
      checksum |-> {[name |-> "sha1", digits |-> Digits(40)], [name |-> "sha1", digits |-> Digits(39)],
                    [name |-> "md5", digits |-> Digits(32)]},
      subblocks |-> {<<<<1, 2>>, <<3, 4>>>>, <<<<1, 2>>, Word>>}],
   image |->
     [location |-> {Location_("embedded", <<>>), Location_("embedded", <<"hex">>),
                    Location_("inline", <<"hex">>), Location_("attachment", <<4, 5, 6>>),
                    Location_("http", <<>>)}],
   thumbnails |-> [orientation |-> {Turn(0, FALSE), Turn(180, FALSE)}, bounds |-> {<<0, 5>>}],
   resolutions |-> [unit |-> {None, "mile"}],
   spaces |-> [y |-> {None, <<1, 2>>, <<0, 1, 2>>}],
   filters |-> [pattern |-> {<<"R", "G", "G", Word>>, <<"R">>}],
   tables |-> [rows |-> {None, Word, 7}, structure |-> {None},
               body |-> {<<>>, <<<<Cell_("1", "2"), Cell_(None, "3")>>,
                                 <<Cell_(None, None), Cell_(None, "4")>>>>}]]

(***************************************************************************)
(* What the operators compute, over small inputs.                          *)
(***************************************************************************)

\* Every integer of a type, in decimal, is read as itself, but the least of 128 bits; nothing
\* is read as a number outside the type; and a bit pattern is read modulo 2^width.
ASSUME IntegersRead ==
  \A s \in (Signed \cup Unsigned) \ {"Int128", "UInt128"}, m \in 0 .. 300, n \in BOOLEAN, r \in {2, 10, 16} :
    LET half == Half(ScalarSize(s) * ByteBits)
        low == IF s \in Signed THEN -half ELSE 0
        high == IF s \in Signed THEN half - 1 ELSE 2 * half - 1
        said == IF n THEN -m ELSE m
        value == IntegerValue(s, [negative |-> n, radix |-> r, magnitude |-> m])
    IN  /\ (r = 10 /\ ~(n /\ s \in Unsigned)) => value = IF said \in low .. high THEN said ELSE None
        /\ value /= None => /\ value \in low .. high
                            /\ (value - said) % (2 * half) = 0

ASSUME LeastOfTheWidestIsRefused ==
  /\ IntegerValue("Int128", [negative |-> TRUE, radix |-> 10, magnitude |-> Half(Widest)]) = None
  /\ IntegerValue("Int128", [negative |-> FALSE, radix |-> 16, magnitude |-> Half(Widest)]) = -Half(Widest)

\* Every type but a vector or matrix of Booleans is named by a name it is parsed from.
ASSUME TypesAreNamed ==
  \A shape \in {"Scalar", "Vector", "Matrix"}, s \in Scalars :
    ParseType(TypeName(Type(shape, s))) =
      IF s = "Boolean" /\ shape /= "Scalar" THEN Bad("Unsupported") ELSE Good(Type(shape, s))

\* The primaries of sRGB to two digits have its luminance, to two digits.
ASSUME SrgbLuminance ==
  LET l == DeriveLuminance(Srgb.x, Srgb.y)
  IN  [k \in 1 .. 3 |-> l[k].num \div l[k].den] = <<21, 71, 6>>

\* A digest and a compression survive being written down.
ASSUME AttributesSurvive ==
  /\ \A a \in {"sha-1", "sha-256", "sha-512", "sha3-256", "sha3-512"} :
       LET c == [algorithm |-> a, digest |-> [i \in 1 .. DigestLen(a) |-> (i * 41) % 256]]
       IN  ParseChecksum(ChecksumAttr(c)) = Good(c)
  /\ \A c \in [codec : {"zlib", "lz4", "zstd"}, uncompressed : {0, 9}, item : {None, 2, 4}] :
       ParseCompression(CompressionAttr(c)) = Good(c)

\* A property's count and size are those of its shape, or unknown if they overflow.
ASSUME ShapesAreSized ==
  LET Of(kind, length, rows) ==
        [kind |-> kind, length |-> length, rows |-> rows, columns |-> rows, value |-> None]
  IN  /\ PropertyDataSize(Of(Type("Vector", "Float64"), 5, None)) = 40
      /\ PropertyDataSize(Of(Type("Matrix", "Float64"), None, 20)) = None
      /\ PropertyDataSize(Of(Type("Vector", "Boolean"), 5, None)) = None
      /\ PropertyDataSize(Of(Type("String", None), 5, None)) = None
      /\ PropertyValue(Of(Type("Vector", "Int8"), 5, None)) = None

\* A cell is found by the name of its column, and a pattern repeats over the image.
ASSUME FoundByName ==
  /\ TableCell(Good_, 1, "img") = Cell_("1", None)
  /\ TableCell(Good_, 3, "img") = None /\ TableCell(Good_, 1, "none") = None
  /\ CellText(Cell_("1", "2")) = "2"
  /\ \A x, y \in 0 .. 4 :
       ElementAt(Full.filter, x, y) = IF x % 2 /= y % 2 THEN "G" ELSE IF x % 2 = 0 THEN "R" ELSE "B"
=============================================================================
