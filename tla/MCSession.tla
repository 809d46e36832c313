------------------------------ MODULE MCSession ------------------------------
(***************************************************************************)
(* Files of sixty bytes with a header of twenty-four: an image for every   *)
(* kind of location, checksum, stream and geometry, beside one that does   *)
(* not parse or one that is in order.                                      *)
(***************************************************************************)
EXTENDS Session

MCDisk ==
  [inner |-> [kind |-> "plain", length |-> 4],
   blocks |-> [kind |-> "blocks", blocks |-> (7 :> 4 @@ 9 :> 3)],
   dir |-> [kind |-> "directory"],
   outer |-> [kind |-> "plain", length |-> 4]]

MCRoot == {"inner", "blocks", "dir"}

MCWeb == [remote |-> [kind |-> "plain", length |-> 4]]

At(position, size) == [kind |-> "Attachment", position |-> position, size |-> size]

Locator(leads) ==
  [token |-> FALSE, absolute |-> FALSE, empty |-> FALSE, scheme |-> FALSE, climbs |-> FALSE,
   leads |-> leads]

Path(locator, index) == [kind |-> "Path", locator |-> locator, index |-> index]

Data(location, checksum) ==
  [location |-> location, text |-> None, checksum |-> checksum, compression |-> None]

Geometry(size) ==
  [size |-> size, format |-> "UInt8", interleaved |-> FALSE, channels |-> 1, bounds |-> None,
   default_bounds |-> <<0, 255>>]

Element_(image, data) ==
  [image |-> image, data |-> data, thumbnails |-> <<>>, profiles |-> <<>>, resolutions |-> <<>>]

Whole == Bytes("file", 40, 4)

InOrder == Element_(Geometry(4), Data(At(40, 4), Whole))

Unparsed == Element_(None, Data(At(40, 4), Whole))

Datas ==
  {Data(At(40, 4), None), Data(At(40, 4), Bytes("file", 44, 4)), Data(At(20, 4), None),
   Data(At(58, 4), None), Data(At(60, 0), None), Data(None, None), Data(None, Whole),
   Data([kind |-> "Inline"], None),
   [Data([kind |-> "Embedded"], Bytes("text", 0, 4)) EXCEPT !.text = [length |-> 4, decodes |-> TRUE]],
   [Data([kind |-> "Inline"], None) EXCEPT !.text = [length |-> 4, decodes |-> FALSE]],
   [Data(At(40, 3), None) EXCEPT !.compression = [sound |-> TRUE, size |-> 4]],
   [Data(At(40, 3), Whole) EXCEPT !.compression = [sound |-> TRUE, size |-> 4]],
   [Data(At(40, 3), None) EXCEPT !.compression = [sound |-> FALSE, size |-> 4]]}

External ==
  {Data(l, None) : l \in
    {Path(Locator("inner"), None), Path(Locator("inner"), 7), Path(Locator("blocks"), 7),
     Path(Locator("blocks"), None), Path(Locator("blocks"), 8), Path(Locator("dir"), None),
     Path(Locator("outer"), None), Path(Locator(None), None),
     Path([Locator("outer") EXCEPT !.absolute = TRUE], None),
     Path([Locator("inner") EXCEPT !.token = TRUE], None),
     Path([Locator("dir") EXCEPT !.token = TRUE, !.empty = TRUE], None),
     Path([Locator("outer") EXCEPT !.token = TRUE, !.climbs = TRUE], None),
     Path([Locator("inner") EXCEPT !.scheme = TRUE], None),
     [kind |-> "Url", url |-> "remote", index |-> None],
     [kind |-> "Url", url |-> "gone", index |-> None]}}

Aside_ ==
  [InOrder EXCEPT
     !.thumbnails = <<[parses |-> TRUE, data |-> Data(At(44, 2), Bytes("file", 40, 2))]>>,
     !.profiles = <<Data(At(46, 2), None)>>,
     !.resolutions = <<[parses |-> FALSE], [parses |-> TRUE]>>]

Property_(id, kind, data, value) == [id |-> id, kind |-> kind, data |-> data, value |-> value]

MCProperties ==
  <<Property_("v", None, Data(None, None), "1"),
    Property_("v", [shape |-> "Vector", element |-> "UInt8", size |-> 4], Data(At(40, 4), None), None),
    Property_("v", [shape |-> "Vector", element |-> "UInt8", size |-> 2], Data(At(40, 2), None), None),
    Property_("s", [shape |-> "String", element |-> None, size |-> None], Data(None, None), "text")>>

Head_(images) == Good([images |-> images, properties |-> MCProperties, tables |-> <<>>])

Monolithic(images) ==
  [length |-> 60, opens |-> "signature", declared |-> 8, reserved |-> 0, utf8 |-> TRUE,
   header |-> Head_(images)]

HeaderFile(images) == [Monolithic(images) EXCEPT !.opens = "xml"]

Pairs == {<<x, InOrder>> : x \in {Element_(Geometry(4), d) : d \in Datas}}
           \cup {<<Unparsed, Element_(Geometry(n), Data(At(40, 4), None))>> : n \in {None, 3, 4}}
           \cup {<<Aside_>>}

Broken ==
  LET f == Monolithic(<<InOrder>>)
  IN  {None, [f EXCEPT !.length = 10], [f EXCEPT !.opens = "noise"], [f EXCEPT !.reserved = 1],
       [f EXCEPT !.declared = 50], [f EXCEPT !.utf8 = FALSE], [f EXCEPT !.header = Bad("BadHeader")]}

Units == {HeaderFile(<<Element_(Geometry(4), d)>>) : d \in External}
           \cup {HeaderFile(<<Element_(Geometry(0), Data(At(60, 0), None)), Unparsed>>)}

MCFiles ==
  {Monolithic(p) : p \in Pairs} \cup Units \cup Broken
    \cup {Monolithic(<<Element_(Geometry(4), Data(Path(Locator("inner"), None), None))>>)}

MCCFiles ==
  {Monolithic(p) : p \in Pairs} \cup {Monolithic(<<>>), None}
    \cup {HeaderFile(<<Element_(Geometry(4), Data(Path(Locator("inner"), None), None))>>)}

Line(command, files) == [option |-> None, command |-> command, files |-> files, image |-> 1]

Some == {Monolithic(<<InOrder>>), Monolithic(<<InOrder, Aside_>>), None,
         Monolithic(<<Unparsed, InOrder>>),
         Monolithic(<<Element_(Geometry(4), Data(At(40, 4), Bytes("file", 44, 4))), InOrder>>),
         Monolithic(<<Element_(Geometry(4), Data(At(58, 4), Whole))>>)}

MCCommandLines ==
  {NoCommand, [NoCommand EXCEPT !.option = "help"], [NoCommand EXCEPT !.option = "unknown"],
   Line("verify", <<>>), Line("what", <<None>>)}
    \cup {Line(c, <<f, g>>) : c \in Commands, f \in Some, g \in Some}
    \cup {Line("verify", <<f, g, f>>) : f \in Some, g \in Some}

\* read_planar: every stored sample comes out once, a pixel's channels a plane apart, and what
\* is left after the last whole pixel at the end (xisf/src/lib.rs:342-364).
ASSUME PlanarKeepsEverySample ==
  \A count \in 0 .. 7, channels \in 0 .. 3 :
    LET from == Planar([interleaved |-> TRUE, channels |-> channels], count)
        pixels == count \div channels
    IN  /\ {from[k] : k \in 1 .. count} = 1 .. count
        /\ channels > 1 => \A p \in 0 .. pixels - 1, ch \in 0 .. channels - 1 :
             from[ch * pixels + p + 1] = p * channels + ch + 1

\* An unparsed property keeps its text among the metadata, and hides no parsed one.
ASSUME MetadataIsOfEveryProperty ==
  LET header == Head_(<<>>).value
  IN  /\ Metadata(header) = <<<<"v", "1">>, <<"s", "text">>>>
      /\ Find(Properties(header), "v") = MCProperties[2]
=============================================================================
