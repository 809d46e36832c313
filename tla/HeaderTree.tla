------------------------------ MODULE HeaderTree ------------------------------
(***************************************************************************)
(* What the tree HeaderParser builds promises to the rest of the library.  *)
(***************************************************************************)
EXTENDS HeaderParser

\* An accepted header is one tree under a core xisf element: every other element hangs
\* from one that is in the tree and encloses it, though elements may follow the root.
OneTree ==
  verdict = "accepted" =>
    /\ Is(Root, "xisf") /\ Root.parent = 0
    /\ \A e \in Tree \ {Root} :
         \E p \in Tree : p.n = e.parent /\ p.depth + 1 = e.depth /\ p.n < e.n

\* In an accepted header the resources shared through uid and Reference are unambiguous:
\* following a Reference yields the one core element that carries the identifier, and an
\* extension element that carries it too does not stand in for it (header.rs:161-189).
ReferencesAreUnambiguous ==
  verdict = "accepted" =>
    \A owner \in Tree : \A c \in Children(owner, "Reference") :
      \A e \in Tree :
        e.tag.core /\ e.tag.uid # None /\ e.tag.uid = c.tag.ref
          => /\ ByUid(c.tag.ref) = {e}
             /\ e \in Associated(owner, e.tag.name)

\* The attributes the elements of a sequence declare between them.
Declared(s) ==
  LET sum[k \in 0 .. Len(s)] == IF k = 0 THEN 0 ELSE sum[k - 1] + s[k].tag.attributes
  IN  sum[Len(s)]

\* The budgets hold for the header as a whole: nothing that was built or is being built
\* exceeds them, and no open element is nested deeper than MAX_DEPTH.
BudgetsHold ==
  /\ Len(tree) + Len(stack) <= MaxElements
  /\ Declared(tree) + Declared(stack) <= MaxAttributes
  /\ \A k \in 1 .. Len(stack) : stack[k].depth = k /\ k <= MaxDepth

-----------------------------------------------------------------------------
\* The first <Data> child of an element that a predicate holds of, or none.
First(ds, P(_)) == {d \in ds : P(d) /\ \A c \in ds : P(c) => d.n <= c.n}

\* Where a field that the element's own tag leaves out comes from.
Supplied(own, ds, field) ==
  IF own # None THEN {own}
  ELSE LET HasIt(d) == d[field] # None
           first == First(ds, HasIt)
       IN  IF first = {} THEN {None} ELSE {d[field] : d \in first}

\* However many <Data> children an element has and wherever they stand among its text,
\* compression, checksum and location come from its own tag or else from the first that
\* records one, and never from an element of an extension (header.rs:414-441).
DataIsPromoted ==
  \A e \in Tree :
    LET ds == Children(e, "Data")
    IN  /\ e.compression \in Supplied(e.tag.compression, ds, "compression")
        /\ e.checksum \in Supplied(e.tag.checksum, ds, "checksum")
        /\ (e.location = None) = (Supplied(e.tag.location, ds, "location") = {None})

Begins(text, part) ==
  Len(part) <= Len(text) /\ \A k \in 1 .. Len(part) : text[k] = part[k]

\* The text of an element with a single <Data> child begins with the child's: indentation
\* before the child does not stand in its way, and what follows is added to it. One whose text
\* does not begin so holds text of its own that is not blank. Either is decoded as
\* the child says of an embedded block: by its encoding (the location's, if it has none) and
\* its compression (header.rs:393-441).
SingleDataDescribesBlock ==
  \A e \in Tree : \A d \in Tree :
    Children(e, "Data") = {d} =>
      /\ Begins(e.text, d.text) \/ ~IsBlank(e.text)
      /\ e.tag.location \notin {None, "attached"} /\ d.location = None =>
           e.location = IF d.tag.encoding = None THEN e.tag.location ELSE d.tag.encoding
      /\ e.tag.compression = None => e.compression = d.compression

-----------------------------------------------------------------------------

\* "How deeply a header may nest before it is refused" (header.rs:193), "the header is
\* nested more than {MAX_DEPTH} elements deep" (header.rs:252).
NestingBounded == \A e \in Tree : e.depth <= MaxDepth

\* "All of them describe the parent's block, so all of them are promoted" (header.rs:418):
\* the encoding a block is decoded with is that of the <Data> its text came from.
EncodingIsOfTheText ==
  \A e \in Tree : \A d \in Children(e, "Data") :
    /\ e.location \notin {None, "attached"}
    /\ d.tag.encoding # None
    /\ ~IsBlank(d.text) /\ e.text = d.text
    /\ \A c \in Children(e, "Data") : c # d => c.text # d.text
    => e.location = d.tag.encoding
=============================================================================
