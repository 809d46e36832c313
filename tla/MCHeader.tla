------------------------------- MODULE MCHeader -------------------------------
(***************************************************************************)
(* Tags of a header in which images embed their blocks in <Data> children, *)
(* share a profile by reference, and stand beside extension elements.      *)
(***************************************************************************)
EXTENDS HeaderTree, SequencesExt

Plain(tag) ==
  [name |-> tag, core |-> TRUE, uid |-> None, ref |-> None, version |-> None,
   attributes |-> 0, location |-> None, encoding |-> None, compression |-> None,
   checksum |-> None, fault |-> None]

Embedding == [Plain("Image") EXCEPT !.location = "base64", !.attributes = 1]
HexData == [Plain("Data") EXCEPT !.encoding = "hex", !.compression = "zlib",
                                 !.attributes = 2]
Base64Data == [Plain("Data") EXCEPT !.encoding = "base64", !.compression = "lz4",
                                    !.checksum = "sha1", !.attributes = 3]
Profile == [Plain("ICCProfile") EXCEPT !.uid = "u", !.location = "attached",
                                       !.attributes = 2]
Xisf == [Plain("xisf") EXCEPT !.version = "1.0", !.attributes = 1]
Foreign == [Plain("Data") EXCEPT !.core = FALSE, !.uid = "u", !.compression = "ext",
                                 !.attributes = 1]
Pointer == [Plain("Reference") EXCEPT !.ref = "u", !.attributes = 1]
OldVersion == [Plain("xisf") EXCEPT !.version = "0.9", !.attributes = 1]
Broken == [Plain("Image") EXCEPT !.fault = "BadAttribute", !.attributes = 2]

MCKinds ==
  {Plain("Image"), Plain("Data"), Xisf, OldVersion, Embedding, HexData, Base64Data, Profile, Foreign, Pointer, Broken}

\* A <Data> child with its text, and an image around a few of them.
Carrying(kind, piece) == <<StartOf(kind), TextOf(piece), EndOf>>

Chunks ==
  {Carrying(HexData, "x"), Carrying(Base64Data, "y"), Carrying(Foreign, "x"),
   <<EmptyOf(HexData)>>, <<TextOf(Blank)>>, <<TextOf("x")>>,
   <<EmptyOf(Profile)>>, <<EmptyOf(Pointer)>>, <<EmptyOf(Foreign)>>,
   <<StartOf(Embedding)>>, <<StartOf(Plain("Image"))>>, <<EndOf>>}

Bodies(n) == {FlattenSeq(s) : s \in [1 .. n -> Chunks]}

Whole(body) == <<StartOf(Xisf)>> \o body \o <<EndOf>>

\* Whole headers; an image with up to three children, in and out of the root; and
\* documents that break off, nest too deep, declare too much, or carry a second
\* top-level element, as a signed header does.
MCDocuments ==
  UNION {{Whole(b) : b \in Bodies(n)} : n \in 0 .. 3}
    \cup {Whole(<<StartOf(Embedding)>> \o b \o <<EndOf>>) : b \in Bodies(3)}
    \cup {Whole(b) \o c : b \in Bodies(1), c \in Bodies(2)}
    \cup {<<StartOf(k)>> : k \in MCKinds} \cup {<<EmptyOf(k)>> : k \in MCKinds}
    \cup {<<EndOf>>, <<ErrorOf>>, <<>>, Whole(<<ErrorOf>>), Whole(<<EmptyOf(Broken)>>)}
    \cup {[k \in 1 .. n |-> StartOf(Plain("Image"))] : n \in 1 .. 5}
    \cup {[k \in 1 .. n |-> EmptyOf(Plain("Image"))] : n \in 1 .. 7}
    \cup {Whole(<<StartOf(Plain("Image")), StartOf(Plain("Data")), EmptyOf(Plain("Data")),
                  EndOf, EndOf>>)}
=============================================================================
