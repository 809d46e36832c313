-------------------------------- MODULE Values --------------------------------
(***************************************************************************)
(* property.rs and table.rs: the types of properties and of the fields of  *)
(* a table, what a literal of a scalar type means, and what of a Property  *)
(* or a Table element is well formed.                                      *)
(*                                                                         *)
(* A type's name is a record of what precedes "Vector" or "Matrix" and     *)
(* that suffix, "" if it has neither. An integer literal is its sign, its  *)
(* radix and its magnitude, Word where the digits are none of that radix.  *)
(***************************************************************************)
EXTENDS Attributes

CONSTANT ByteBits   \* bits of a byte

(***************************************************************************)
(* Scalar and PropertyType.                                                *)
(***************************************************************************)
ElementPrefixes ==
  [I8 |-> "Int8", UI8 |-> "UInt8", I16 |-> "Int16", UI16 |-> "UInt16", I32 |-> "Int32",
   UI32 |-> "UInt32", I64 |-> "Int64", UI64 |-> "UInt64", I128 |-> "Int128", UI128 |-> "UInt128",
   F32 |-> "Float32", F64 |-> "Float64", F128 |-> "Float128", C32 |-> "Complex32",
   C64 |-> "Complex64", C128 |-> "Complex128"]

Signed == {"Int8", "Int16", "Int32", "Int64", "Int128"}
Unsigned == {"UInt8", "UInt16", "UInt32", "UInt64", "UInt128"}
Floats == {"Float32", "Float64", "Float128"}
Complexes == {"Complex32", "Complex64", "Complex128"}
Scalars == Signed \cup Unsigned \cup Floats \cup Complexes \cup {"Boolean"}

ScalarSize(scalar) ==
  CASE scalar \in {"Int8", "UInt8"} -> 1
    [] scalar \in {"Int16", "UInt16"} -> 2
    [] scalar \in {"Int32", "UInt32", "Float32"} -> 4
    [] scalar \in {"Int64", "UInt64", "Float64", "Complex32"} -> 8
    [] scalar \in {"Int128", "UInt128", "Float128", "Complex64"} -> 16
    [] scalar = "Complex128" -> 32
    [] scalar = "Boolean" -> None

Aliases ==
  [Byte |-> "UInt8", Short |-> "Int16", UShort |-> "UInt16", Int |-> "Int32", UInt |-> "UInt32",
   Float |-> "Float32", Double |-> "Float64", Quad |-> "Float128", Complex |-> "Complex64",
   Bool |-> "Boolean"]

\* The element of an aggregate by what precedes its suffix, some whole names being other
\* spellings; None if there is no such aggregate.
AggregateElement(prefix, suffix) ==
  CASE prefix = "" -> "Float64"
    [] prefix = "I" -> "Int32"
    [] prefix = "UI" -> "UInt32"
    [] prefix = "Byte" /\ suffix = "Matrix" -> "UInt8"
    [] prefix \in DOMAIN ElementPrefixes -> ElementPrefixes[prefix]
    [] OTHER -> None

Type(shape, element) == [shape |-> shape, element |-> element]

ParseType(name) ==
  LET p == name.prefix
      aggregate == AggregateElement(p, name.suffix)
  IN  IF name.suffix = ""
      THEN CASE p \in {"String", "TimePoint", "Table"} -> Good(Type(p, None))
             [] p \in Scalars -> Good(Type("Scalar", p))
             [] p \in DOMAIN Aliases -> Good(Type("Scalar", Aliases[p]))
             [] p = "ByteArray" -> Good(Type("Vector", "UInt8"))
             [] OTHER -> Bad("Unsupported")
      ELSE IF aggregate /= None THEN Good(Type(name.suffix, aggregate)) ELSE Bad("Unsupported")

\* prefix_for: Boolean's, of which no type is parsed, is its own name.
PrefixFor(scalar) ==
  IF scalar = "Boolean" THEN scalar ELSE CHOOSE p \in DOMAIN ElementPrefixes : ElementPrefixes[p] = scalar

\* PropertyType::name; without an element an aggregate or a scalar is named by its shape.
TypeName(type) ==
  LET aggregate == type.shape \in {"Vector", "Matrix"}
      plain == [prefix |-> type.shape, suffix |-> ""]
  IN  CASE type.shape \in {"String", "TimePoint", "Table"} -> plain
        [] type.shape = "Scalar" /\ type.element /= None -> [plain EXCEPT !.prefix = type.element]
        [] aggregate /\ type.element /= None ->
             [prefix |-> PrefixFor(type.element), suffix |-> type.shape]
        [] type.shape = "Scalar" /\ type.element = None -> plain
        [] aggregate /\ type.element = None -> [prefix |-> "", suffix |-> type.shape]

(***************************************************************************)
(* Property::parse, and what the shape of a block must be.                 *)
(***************************************************************************)
ParseProperty(e) ==
  LET type == IF e.type = None THEN Bad("BadHeader") ELSE ParseType(e.type)
      counts == <<Optional(e.length, ParseU64), Optional(e.rows, ParseU64),
                  Optional(e.columns, ParseU64)>>
      shape == IF ~type.ok THEN type
               ELSE Check(/\ type.value.shape = "Vector" => e.length /= None
                          /\ type.value.shape = "Matrix" => e.rows /= None /\ e.columns /= None,
                          "BadHeader")
  IN  Try(<<Check(e.id /= None, "BadHeader"), type>> \o counts \o <<shape>>,
          [id |-> e.id, kind |-> type.value, value |-> e.value, text |-> e.text,
           length |-> e.length, rows |-> e.rows, columns |-> e.columns])

ComponentCount(p) ==
  CASE p.kind.shape = "Vector" -> p.length
    [] p.kind.shape = "Matrix" -> CheckedTimes(p.rows, p.columns)
    [] OTHER -> None

PropertyDataSize(p) ==
  IF p.kind.element = None THEN None
  ELSE CheckedTimes(ComponentCount(p), ScalarSize(p.kind.element))

(***************************************************************************)
(* Property::value of an integer. Half(w) is 2^(w - 1).                    *)
(***************************************************************************)
Half(width) == 2 ^ (width - 1)

Widest == 16 * ByteBits

\* parse_radix: the magnitude is a u128.
ParseRadix(text) ==
  IF text.magnitude = Word THEN None
  ELSE IF text.magnitude > 2 * Half(Widest) - 1 THEN None ELSE text

\* An i128 holds the magnitude or it is refused, the least i128 written in decimal included.
\* Digits of another radix that fill the width are two's complement.
SignedValue(text, half) ==
  LET m == text.magnitude
      most == Half(Widest) - 1
  IN  IF text.negative THEN IF m > most THEN None ELSE IF -m >= -half THEN -m ELSE None
      ELSE IF text.radix /= 10 /\ m > half - 1
      THEN IF m > 2 * half - 1 THEN None ELSE m - 2 * half
      ELSE IF m > most THEN None ELSE IF m <= half - 1 THEN m ELSE None

UnsignedValue(text, half) ==
  IF text.negative \/ text.magnitude > 2 * half - 1 THEN None ELSE text.magnitude

IntegerValue(scalar, text) ==
  LET half == Half(ScalarSize(scalar) * ByteBits)
  IN  IF ParseRadix(text) = None THEN None
      ELSE IF scalar \in Signed THEN SignedValue(text, half) ELSE UnsignedValue(text, half)

\* A complex number's parentheses and comma are there or it has no value.
ScalarValue(scalar, text) ==
  CASE scalar = "Boolean" -> IF text \in {"true", "True", "TRUE", "1"} THEN TRUE
                             ELSE IF text \in {"false", "False", "FALSE", "0"} THEN FALSE
                             ELSE None
    [] scalar \in Floats -> IF text = Word THEN None ELSE text
    [] scalar \in Complexes -> IF text = Word THEN None
                               ELSE IF Word \in {text[1], text[2]} THEN None ELSE text
    [] scalar \in Signed \cup Unsigned -> IntegerValue(scalar, text)

PropertyValue(p) ==
  IF p.kind.shape /= "Scalar" \/ p.value = None THEN None
  ELSE ScalarValue(p.kind.element, p.value)

(***************************************************************************)
(* Tables. A cell has a value attribute, or character data, or a block.    *)
(***************************************************************************)
ParseField(e) ==
  LET type == IF e.type = None THEN Bad("BadHeader") ELSE ParseType(e.type)
  IN  Try(<<Check(e.id /= None, "BadHeader"), type>>,
          [id |-> e.id, kind |-> type.value, format |-> e.format, header |-> e.header])

ParseStructure(fields) ==
  LET parsed == Collect([i \in DOMAIN fields |-> ParseField(fields[i])])
      distinct == \A i, j \in DOMAIN fields : fields[i].id = fields[j].id => i = j
  IN  IF ~parsed.ok THEN parsed
      ELSE Try(<<Check(fields /= <<>>, "BadHeader"), Check(distinct, "BadHeader")>>, parsed.value)

\* Character data before a value attribute, and nothing of a cell in a block.
CellText(cell) ==
  IF cell.location /= None THEN None ELSE IF cell.text /= None THEN cell.text ELSE cell.value

\* `structure` is the first of the structures associated with the table, a child of its own or
\* one that a <Reference> leads to (HeaderParser!Associated), or None.
ParseTable(e) ==
  LET structure == IF e.structure = None THEN Bad("BadHeader") ELSE ParseStructure(e.structure)
      Declared(text, count) ==
        IF text = None THEN Good(None)
        ELSE IF ~ParseU64(text).ok THEN Bad("BadAttribute") ELSE Check(text = count, "BadHeader")
      columns == Len(structure.value)
  IN  IF e.id = None THEN Bad("BadHeader")
      ELSE IF ~structure.ok THEN structure
      ELSE Try([i \in DOMAIN e.body |-> Check(Len(e.body[i]) = columns, "BadHeader")]
                 \o <<Declared(e.rows, Len(e.body)), Declared(e.columns, columns)>>,
               [id |-> e.id, fields |-> structure.value, rows |-> e.body,
                caption |-> e.caption, comment |-> e.comment])

Column(table, id) ==
  LET found == {i \in DOMAIN table.fields : table.fields[i].id = id}
  IN  IF found = {} THEN None ELSE Min(found)

TableCell(table, row, id) ==
  IF row \notin DOMAIN table.rows \/ Column(table, id) = None THEN None
  ELSE table.rows[row][Column(table, id)]
=============================================================================
