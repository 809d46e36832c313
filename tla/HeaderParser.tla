----------------------------- MODULE HeaderParser -----------------------------
(***************************************************************************)
(* header::parse: the XML header, one event at a time, into a tree.        *)
(*                                                                         *)
(* An element is a record of what the engine asks of it; its attributes    *)
(* are given by `Kinds`, the elements a header may spell out.  The tree is *)
(* kept as the list of elements in the order they are attached to their    *)
(* parent, each with the path of the elements that were open around it.    *)
(***************************************************************************)
EXTENDS Naturals, Sequences, FiniteSets

CONSTANTS
  Kinds,          \* start tags: see Kind
  Documents,      \* headers, each a sequence of the events below
  Inks,           \* pieces of character data that are not white space
  Blank,          \* a piece that is
  None,           \* an absent attribute
  MaxDepth,       \* MAX_DEPTH
  MaxElements,    \* MAX_ELEMENTS
  MaxAttributes   \* MAX_ATTRIBUTES

ASSUME LimitsAssumption ==
  MaxDepth \in Nat \ {0} /\ MaxElements \in Nat /\ MaxAttributes \in Nat

(***************************************************************************)
(* A start tag.  `core` says the resolved namespace is XISF's or none;     *)
(* `location` is None, "attached" or the encoding of an embedded block;    *)
(* `fault` is the error its namespace or an attribute value causes, or     *)
(* None.                                                                   *)
(***************************************************************************)
Kind ==
  [name : STRING, core : BOOLEAN, uid : STRING \cup {None}, ref : STRING \cup {None},
   version : STRING \cup {None}, attributes : Nat, location : STRING \cup {None}, encoding : STRING \cup {None},
   compression : STRING \cup {None}, checksum : STRING \cup {None},
   fault : {"BadHeader", "BadAttribute", "Unsupported", None}]

\* The events quick-xml reports; an entity reference that resolves is text.
StartOf(kind) == [event |-> "start", tag |-> kind]
EmptyOf(kind) == [event |-> "empty", tag |-> kind]
TextOf(piece) == [event |-> "text", piece |-> piece]
EndOf == [event |-> "end"]
ErrorOf == [event |-> "error"]

Events ==
  {StartOf(k) : k \in Kinds} \cup {EmptyOf(k) : k \in Kinds}
    \cup {TextOf(p) : p \in Inks \cup {Blank}} \cup {EndOf, ErrorOf}

ASSUME DocumentAssumption == Kinds \subseteq Kind /\ Documents \subseteq Seq(Events)

VARIABLES
  unread,      \* the events still to come
  stack,       \* elements under construction; the last is the current one
  tree,        \* finished elements that were attached to a parent or became the root
  root,        \* whether the root element is finished
  counted,     \* elements declared so far
  attributes,  \* attributes declared so far
  serial,      \* start tags read: names each element
  verdict      \* "reading", "accepted", or the error

vars == <<unread, stack, tree, root, counted, attributes, serial, verdict>>

Init ==
  /\ unread \in Documents
  /\ stack = <<>> /\ tree = <<>>
  /\ root = FALSE
  /\ counted = 0 /\ attributes = 0 /\ serial = 0
  /\ verdict = "reading"

\* Element::is and Element::is_core.
Is(e, name) == e.tag.name = name /\ e.tag.core

(***************************************************************************)
(* element_from: the element a start tag describes.  `tag` keeps what the  *)
(* tag itself says, the other fields what the element has come to hold.    *)
(***************************************************************************)
ElementFrom(kind) ==
  [n |-> serial + 1, tag |-> kind, depth |-> Len(stack) + 1,
   parent |-> IF stack = <<>> THEN 0 ELSE stack[Len(stack)].n,
   text |-> <<>>, location |-> kind.location, compression |-> kind.compression,
   checksum |-> kind.checksum]

\* Mutant of TagErrors: depth is not bounded.
TagErrorsDeep(kind, opens) ==
  IF counted + 1 > MaxElements
  THEN {"BadHeader"}
  ELSE (IF attributes + kind.attributes > MaxAttributes THEN {"BadHeader"} ELSE {})
         \cup ({kind.fault} \ {None})

\* Why a start tag may be refused.  Attributes are counted and parsed one by one, so one
\* that breaks the budget and one that does not parse may each come first.
TagErrors(kind, opens) ==
  IF counted + 1 > MaxElements \/ (opens /\ Len(stack) >= MaxDepth)
  THEN {"BadHeader"}
  ELSE (IF attributes + kind.attributes > MaxAttributes THEN {"BadHeader"} ELSE {})
         \cup ({kind.fault} \ {None})

(***************************************************************************)
(* finish: a closed element is attached to its parent, or is the root if   *)
(* it is the first to close with nothing around it.  What a <Data> child   *)
(* says of a block is said of its parent's.                                *)
(***************************************************************************)
IsBlank(text) == \A k \in 1 .. Len(text) : text[k] = Blank

OrElse(own, promoted) == IF own = None THEN promoted ELSE own

\* An embedded location holds its encoding; an attached one has none to overwrite.
Relocated(parent, data) ==
  LET own == OrElse(parent.location, data.location)
  IN  IF own \notin {None, "attached"} /\ data.tag.encoding # None
      THEN data.tag.encoding ELSE own

\* Mutant of Promote: indentation before <Data> stands in the way of its text.
PromoteUnindented(parent, data) ==
  [parent EXCEPT !.text = IF @ = <<>> THEN data.text ELSE @,
                 !.location = Relocated(parent, data),
                 !.compression = OrElse(@, data.compression),
                 !.checksum = OrElse(@, data.checksum)]

\* Mutant of Promote: a later <Data> overwrites an earlier one.
PromoteLast(parent, data) ==
  [parent EXCEPT !.text = IF IsBlank(@) THEN data.text ELSE @,
                 !.location = Relocated(parent, data),
                 !.compression = OrElse(data.compression, @),
                 !.checksum = OrElse(data.checksum, @)]

Promote(parent, data) ==
  [parent EXCEPT !.text = IF IsBlank(@) THEN data.text ELSE @,
                 !.location = Relocated(parent, data),
                 !.compression = OrElse(@, data.compression),
                 !.checksum = OrElse(@, data.checksum)]

\* Mutant of FinishIn: what follows the root is kept too.
FinishInAll(open, e) ==
  /\ tree' = Append(tree, e)
  /\ root' = (root \/ open = <<>>)
  /\ stack' = IF open # <<>> /\ Is(e, "Data")
              THEN [open EXCEPT ![Len(open)] = Promote(@, e)]
              ELSE open

FinishIn(open, e) ==
  IF open = <<>>
  THEN /\ stack' = <<>>
       /\ root' = TRUE
       /\ tree' = IF root THEN tree ELSE Append(tree, e)
  ELSE /\ stack' = IF Is(e, "Data")
                   THEN [open EXCEPT ![Len(open)] = Promote(@, e)]
                   ELSE open
       /\ tree' = IF root THEN tree ELSE Append(tree, e)
       /\ UNCHANGED root

-----------------------------------------------------------------------------

Reads(event) ==
  /\ verdict = "reading"
  /\ unread # <<>>
  /\ Head(unread).event = event
  /\ unread' = Tail(unread)

Refuse(error) ==
  /\ verdict' = error
  /\ UNCHANGED <<stack, tree, root, counted, attributes, serial>>

Counted(kind) ==
  /\ counted' = counted + 1
  /\ attributes' = attributes + kind.attributes
  /\ serial' = serial + 1

StartTag ==
  /\ Reads("start")
  /\ LET kind == Head(unread).tag IN
     \/ \E error \in TagErrors(kind, TRUE) : Refuse(error)
     \/ /\ TagErrors(kind, TRUE) = {}
        /\ Counted(kind)
        /\ stack' = Append(stack, ElementFrom(kind))
        /\ UNCHANGED <<tree, root, verdict>>

EmptyTag ==
  /\ Reads("empty")
  /\ LET kind == Head(unread).tag IN
     \/ \E error \in TagErrors(kind, FALSE) : Refuse(error)
     \/ /\ TagErrors(kind, FALSE) = {}
        /\ Counted(kind)
        /\ FinishIn(stack, ElementFrom(kind))
        /\ UNCHANGED verdict

\* quick-xml matches the name; a closing tag with nothing open is an error of its own.
EndTag ==
  /\ Reads("end")
  /\ \/ stack = <<>> /\ Refuse("BadHeader")
     \/ /\ stack # <<>>
        /\ FinishIn(SubSeq(stack, 1, Len(stack) - 1), stack[Len(stack)])
        /\ UNCHANGED <<counted, attributes, serial, verdict>>

\* push_text: text, CDATA and resolved references, to the element that is open.
CharacterData ==
  /\ Reads("text")
  /\ stack' = IF stack = <<>> THEN stack
              ELSE [stack EXCEPT ![Len(stack)].text = Append(@, Head(unread).piece)]
  /\ UNCHANGED <<tree, root, counted, attributes, serial, verdict>>

\* A syntax error, or a reference to an entity XML does not predefine.
Malformed == Reads("error") /\ Refuse("BadHeader")

(***************************************************************************)
(* The end of the document.                                                *)
(***************************************************************************)
Tree == {tree[k] : k \in 1 .. Len(tree)}

\* The root is the first element opened; a second top-level element is the signature.
Root == CHOOSE e \in Tree : e.n = 1

\* Two core elements of the tree carry the same unique element identifier.
SharedUid ==
  \E d, e \in Tree :
    d.n # e.n /\ d.tag.core /\ e.tag.core /\ d.tag.uid # None /\ d.tag.uid = e.tag.uid

Judgement ==
  IF stack # <<>> THEN "BadHeader"
  ELSE IF ~root THEN "BadHeader"
  ELSE IF ~Is(Root, "xisf") THEN "BadHeader"
  ELSE IF SharedUid THEN "BadHeader"
  ELSE IF Root.tag.version # "1.0" THEN "Unsupported"
  ELSE "accepted"

EndOfDocument ==
  /\ verdict = "reading"
  /\ unread = <<>>
  /\ verdict' = Judgement
  /\ UNCHANGED <<unread, stack, tree, root, counted, attributes, serial>>

Judged == verdict # "reading" /\ UNCHANGED vars

Next ==
  \/ StartTag \/ EmptyTag \/ EndTag \/ CharacterData \/ Malformed
  \/ EndOfDocument
  \/ Judged

Spec == Init /\ [][Next]_vars

-----------------------------------------------------------------------------
(* Element::children_named, Header::by_uid and Header::associated *)

Children(e, name) == {c \in Tree : c.parent = e.n /\ Is(c, name)}

\* Mutant of ByUid: an element of an extension is found too.
ByUidAny(uid) ==
  {e \in Tree : e.tag.uid = uid /\ \A d \in Tree : d.tag.uid = uid => e.n <= d.n}

\* descendants() lists the tree in document order; the first match is taken.
ByUid(uid) ==
  {e \in Tree :
     /\ e.tag.core /\ e.tag.uid = uid
     /\ \A d \in Tree : d.tag.core /\ d.tag.uid = uid => e.n <= d.n}

Associated(owner, name) ==
  Children(owner, name)
    \cup {e \in UNION {ByUid(c.tag.ref) : c \in Children(owner, "Reference")} : Is(e, name)}
=============================================================================
