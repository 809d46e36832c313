----------------------------- MODULE SessionProofs -----------------------------
(***************************************************************************)
(* For any number of threads, and whatever the files, the disk and the web *)
(* are: the handles of the C interface lie in a list that is built once;   *)
(* what verify says of an image agrees with what reading it gives; the     *)
(* bytes given out are those the location names; the C interface gives     *)
(* what the Rust one gives; and the exit code of the tool says what of the *)
(* files it was given was verified.                                        *)
(***************************************************************************)
EXTENDS Session, FiniteSetTheorems, WellFoundedInduction, TLAPS

-----------------------------------------------------------------------------
(* The reader. What the stored bytes of a block are does not depend on its *)
(* switches: they decide whether the bytes are given out, and no error of  *)
(* getting at them is mistaken for success or for a checksum that does not *)
(* match.                                                                  *)

\* The same file with everything switched on.
Widest(r) ==
  [length |-> r.length, layout |-> r.layout, header |-> r.header, beside |-> r.beside,
   absolute |-> TRUE, resolver |-> TRUE, verify |-> TRUE]

LEMMA PlaceIsOne ==
  ASSUME NEW r, NEW l, Resolve(r, l).ok
  PROVE  Resolve(r, l) = Resolve(Widest(r), l)
BY DEF Resolve, Beside, Widest, Good, Bad

LEMMA FetchedIsOne ==
  ASSUME NEW r, NEW url, NEW index, Fetched(r, url, index).ok
  PROVE  Fetched(r, url, index) = Fetched(Widest(r), url, index)
BY DEF Fetched, Widest, Good, Bad

\* Where there are bytes they are those of the widest reader.
LEMMA StoredIsOne ==
  ASSUME NEW r, NEW d, StoredUnchecked(r, d).ok
  PROVE  StoredUnchecked(r, d) = StoredUnchecked(Widest(r), d)
<1> DEFINE l == d.location
<1>1. CASE l = None \/ (l.kind = "Attachment" \/ l.kind \in {"Inline", "Embedded"})
  BY <1>1 DEF StoredUnchecked, Attached, Widest
<1>2. CASE /\ l /= None /\ l.kind /= "Attachment" /\ l.kind \notin {"Inline", "Embedded"}
           /\ l.kind = "Url"
  BY <1>2, FetchedIsOne DEF StoredUnchecked, Widest, Bad
<1>3. CASE /\ l /= None /\ l.kind /= "Attachment" /\ l.kind \notin {"Inline", "Embedded"}
           /\ l.kind /= "Url"
  BY <1>3, PlaceIsOne DEF StoredUnchecked, Widest, Bad
<1> QED BY <1>1, <1>2, <1>3

LEMMA ExtractedErrors ==
  ASSUME NEW resource, NEW name, NEW index, ~Extracted(resource, name, index).ok
  PROVE  Extracted(resource, name, index).error \notin {"ChecksumMismatch", "Ok"}
BY DEF Extracted, Good, Bad

LEMMA PlaceErrors ==
  ASSUME NEW r, NEW l, ~Resolve(r, l).ok
  PROVE  Resolve(r, l).error \notin {"ChecksumMismatch", "Ok"}
BY DEF Resolve, Beside, Good, Bad

\* What keeps a block from being got at is never called a mismatch.
LEMMA StoredErrors ==
  ASSUME NEW r, NEW d, ~StoredUnchecked(r, d).ok
  PROVE  StoredUnchecked(r, d).error \notin {"ChecksumMismatch", "Ok"}
<1> DEFINE l == d.location
<1>1. ~Attached(r, l).ok => Attached(r, l).error \notin {"ChecksumMismatch", "Ok"}
  BY DEF Attached, Good, Bad
<1>2. ~DecodeText(d.text).ok => DecodeText(d.text).error \notin {"ChecksumMismatch", "Ok"}
  BY DEF DecodeText, Good, Bad
<1>3. ASSUME NEW path, ~ReadExternal(path, l.index).ok
      PROVE  ReadExternal(path, l.index).error \notin {"ChecksumMismatch", "Ok"}
  BY <1>3, ExtractedErrors DEF ReadExternal, Bad
<1>4. ~Fetched(r, l.url, l.index).ok => Fetched(r, l.url, l.index).error \notin {"ChecksumMismatch", "Ok"}
  BY ExtractedErrors DEF Fetched, Bad
<1> QED BY <1>1, <1>2, <1>3, <1>4, PlaceErrors DEF StoredUnchecked, Bad

\* A result is one of its two forms.
IsResult(x) == x = IF x.ok THEN Good(x.value) ELSE Bad(x.error)

LEMMA Forms == (\A value : IsResult(Good(value))) /\ (\A error : IsResult(Bad(error)))
BY DEF IsResult, Good, Bad

LEMMA ExtractedForm ==
  ASSUME NEW resource, NEW name, NEW index
  PROVE  IsResult(Extracted(resource, name, index))
BY Forms DEF Extracted

LEMMA StoredForm ==
  ASSUME NEW r, NEW d
  PROVE  IsResult(StoredUnchecked(r, d))
<1> DEFINE l == d.location
<1>1. IsResult(Attached(r, l)) /\ IsResult(DecodeText(d.text))
  BY Forms DEF Attached, DecodeText
<1>2. IsResult(Resolve(r, l.locator))
  BY Forms DEF Resolve, Beside
<1>3. \A path : IsResult(ReadExternal(path, l.index))
  BY Forms, ExtractedForm DEF ReadExternal
<1>4. IsResult(Fetched(r, l.url, l.index))
  BY Forms, ExtractedForm DEF Fetched
<1> QED BY <1>1, <1>2, <1>3, <1>4, Forms DEF StoredUnchecked

-----------------------------------------------------------------------------
(* What verify and a read say of a block, in terms of its stored bytes.    *)

\* v is a verdict on d, whose stored bytes are s if they can be got at.
Judged(v, d, s) ==
  /\ ~v.ok => v.error /= "ChecksumMismatch"
  /\ v.ok => \/ v.value = "Absent" /\ d.checksum = None
             \/ v.value = "Valid" /\ s.ok /\ d.checksum = s.value
             \/ v.value = "Invalid" /\ d.checksum /= None /\ s.ok /\ d.checksum /= s.value

\* a is what a read returned, with verification on or off.
Served(a, verify, d, s) ==
  /\ (a.ok /\ verify) => d.checksum = None \/ (s.ok /\ d.checksum = s.value)
  /\ (~a.ok /\ a.error = "ChecksumMismatch") => d.checksum /= None /\ s.ok /\ d.checksum /= s.value

LEMMA VerifyJudges ==
  ASSUME NEW r, NEW d
  PROVE  Judged(Verify(r, d), d, StoredUnchecked(Widest(r), d))
BY StoredIsOne, StoredErrors DEF Judged, Verify, Good

LEMMA BlockServes ==
  ASSUME NEW r, NEW d
  PROVE  Served(Block(r, d), r.verify, d, StoredUnchecked(Widest(r), d))
<1>1. Served(StoredBlock(r, d), r.verify, d, StoredUnchecked(Widest(r), d))
  BY StoredIsOne, StoredErrors DEF Served, StoredBlock, Bad
<1> QED BY <1>1 DEF Served, Block, Decode, Good, Bad

LEMMA BlockForm ==
  ASSUME NEW r, NEW d
  PROVE  /\ IsResult(Block(r, d))
         /\ ~Block(r, d).ok => Block(r, d).error /= "Ok"
<1>1. IsResult(StoredBlock(r, d)) /\ (~StoredBlock(r, d).ok => StoredBlock(r, d).error /= "Ok")
  BY StoredForm, StoredErrors, Forms DEF StoredBlock, Bad
<1>2. \A s : IsResult(Decode(s, d.compression))
              /\ (~Decode(s, d.compression).ok => Decode(s, d.compression).error = "Compression")
  BY DEF Decode, IsResult, Good, Bad
<1> QED BY <1>1, <1>2 DEF Block

LEMMA VerifyForm ==
  ASSUME NEW r, NEW d
  PROVE  /\ IsResult(Verify(r, d))
         /\ ~Verify(r, d).ok => Verify(r, d).error /= "Ok"
         /\ Verify(r, d).ok => Verify(r, d).value \in {"Absent", "Valid", "Invalid"}
BY StoredForm, StoredErrors DEF Verify, IsResult, Good, Bad

-----------------------------------------------------------------------------
(* The lock.                                                               *)

\* A thread that builds is the one the lock names, and it has the file open under it; as long
\* as no list is built none is counted, and afterwards one is.
LockHeld ==
  /\ once \in Threads \cup {"empty", "built"}
  /\ step \in [Threads -> {"none", "building"}]
  /\ held = [t \in Threads |-> held[t]]
  /\ \A t \in Threads : step[t] = "building" => once = t /\ file /= None
  /\ file /= None => lists = IF once = "built" THEN 1 ELSE 0

HandlesInv == LockHeld /\ HandlesStay

LEMMA HandlesInit == CInit => HandlesInv
BY DEF CInit, HandlesInv, LockHeld, HandlesStay

\* What leaves file, lock and handles alone cannot disturb them.
LEMMA HandlesUntouched ==
  ASSUME HandlesInv, UNCHANGED <<file, once, lists, step, held>>
  PROVE  HandlesInv'
BY DEF HandlesInv, LockHeld, HandlesStay

\* No handle is out while there is no list, so a new file object finds none.
LEMMA OpenStep ==
  ASSUME HandlesInv, NEW t \in Threads, COpen(t)
  PROVE  HandlesInv'
<1>1. file = None /\ once' = "empty" /\ lists' = 0 /\ UNCHANGED <<step, held>>
  BY DEF COpen, OpenWith
<1>2. \A u \in Threads : held[u] = None /\ step[u] /= "building"
  BY <1>1 DEF HandlesInv, LockHeld, HandlesStay
<1> QED BY <1>1, <1>2 DEF HandlesInv, LockHeld, HandlesStay

\* The caller gives its handles up, and nobody is building.
LEMMA CloseStep ==
  ASSUME HandlesInv, NEW t \in Threads, CClose(t)
  PROVE  HandlesInv'
<1>1. /\ file' = None /\ held' = [u \in Threads |-> None] /\ UNCHANGED <<once, lists, step>>
      /\ \A u \in Threads : step[u] = "none"
  BY DEF CClose, Idle
<1> QED BY <1>1 DEF HandlesInv, LockHeld, HandlesStay

\* What is lent lies in the list named.
LEMMA LendGives ==
  ASSUME NEW t \in Threads, NEW list, NEW i, HandlesInv, Lend(t, list, i)
  PROVE  /\ file' = file
         /\ held' = [u \in Threads |-> held'[u]]
         /\ \A u \in Threads \ {t} : held'[u] = held[u]
         /\ held'[t] /= None => held'[t].list = list /\ held'[t].entry \in DOMAIN file.images
BY DEF Lend, HandlesInv, LockHeld

LEMMA AskStep ==
  ASSUME HandlesInv, NEW t \in Threads, AskHandle(t)
  PROVE  HandlesInv'
<1>1. file /= None /\ once = "built" /\ UNCHANGED <<once, lists, step>>
  BY DEF AskHandle
<1>2. PICK i : Lend(t, lists, i)
  BY DEF AskHandle
<1>3. LockHeld'
  BY <1>1, <1>2, LendGives DEF HandlesInv, LockHeld
<1>4. HandlesStay'
  BY <1>1, <1>2, LendGives DEF HandlesInv, HandlesStay
<1> QED BY <1>3, <1>4 DEF HandlesInv

\* The lock is taken before there is a list, so before there is a handle.
LEMMA BeginStep ==
  ASSUME HandlesInv, NEW t \in Threads, BeginHandles(t)
  PROVE  HandlesInv'
<1>1. /\ file /= None /\ once = "empty" /\ once' = t
      /\ step' = [step EXCEPT ![t] = "building"] /\ UNCHANGED <<file, lists, held>>
  BY DEF BeginHandles
<1>2. \A u \in Threads : held[u] = None /\ step[u] /= "building"
  BY <1>1, ThreadsAssumption DEF HandlesInv, LockHeld, HandlesStay
<1> QED BY <1>1, <1>2, ThreadsAssumption DEF HandlesInv, LockHeld, HandlesStay

\* Only the builder can put the list there, and then nobody builds.
LEMMA FinishStep ==
  ASSUME HandlesInv, NEW t \in Threads, FinishHandles(t)
  PROVE  HandlesInv'
<1>1. /\ step[t] = "building" /\ once' = "built" /\ lists' = lists + 1
      /\ step' = [step EXCEPT ![t] = "none"]
  BY DEF FinishHandles
<1>2. once = t /\ file /= None /\ lists = 0
  BY <1>1, ThreadsAssumption DEF HandlesInv, LockHeld
<1>3. \A u \in Threads : held[u] = None
  BY <1>2, ThreadsAssumption DEF HandlesInv, HandlesStay
<1>4. \A u \in Threads \ {t} : step[u] /= "building"
  BY <1>2 DEF HandlesInv, LockHeld
<1>5. PICK i : Lend(t, lists + 1, i)
  BY DEF FinishHandles
<1>6. LockHeld'
  BY <1>1, <1>2, <1>4, <1>5, LendGives DEF HandlesInv, LockHeld
<1>7. HandlesStay'
  BY <1>1, <1>2, <1>3, <1>5, LendGives DEF HandlesStay
<1> QED BY <1>6, <1>7 DEF HandlesInv

LEMMA HandlesStep ==
  ASSUME HandlesInv, CNext
  PROVE  HandlesInv'
<1>1. PICK t \in Threads :
        \/ COpen(t) \/ CClose(t) \/ AskHandle(t) \/ BeginHandles(t) \/ FinishHandles(t)
        \/ ReadInto(t) \/ ReadAlloc(t) \/ Free(t) \/ VerifyHandle(t) \/ Ask(t)
  BY DEF CNext
<1>2. CASE COpen(t)
  BY <1>2, OpenStep
<1>3. CASE CClose(t)
  BY <1>3, CloseStep
<1>4. CASE AskHandle(t)
  BY <1>4, AskStep
<1>5. CASE BeginHandles(t)
  BY <1>5, BeginStep
<1>6. CASE FinishHandles(t)
  BY <1>6, FinishStep
<1>7. CASE ReadInto(t) \/ ReadAlloc(t) \/ Free(t) \/ VerifyHandle(t) \/ Ask(t)
  BY <1>7, HandlesUntouched DEF ReadInto, ReadAlloc, Free, VerifyHandle, Ask
<1> QED BY <1>1, <1>2, <1>3, <1>4, <1>5, <1>6, <1>7

-----------------------------------------------------------------------------

LEMMA HandlesInductive == Spec => []HandlesInv
<1>1. Init => HandlesInv
  BY HandlesInit DEF Init
<1>2. HandlesInv /\ [Next]_vars => HandlesInv'
  <2> SUFFICES ASSUME HandlesInv, [Next]_vars PROVE HandlesInv'
    OBVIOUS
  <2>1. CASE CNext
    BY <2>1, HandlesStep
  <2>2. CASE UNCHANGED capi
    BY <2>2, HandlesUntouched DEF capi
  <2> QED BY <2>1, <2>2 DEF Next, Stopped, vars
<1> QED BY <1>1, <1>2, PTL DEF Spec

\* Whatever the threads do, and whatever else runs, a handle stays in the one list the file
\* object keeps for as long as the caller may use it (libxisf/src/lib.rs:191-198, 364).
THEOREM HandlesAlwaysStay == Spec => []HandlesStay
<1>1. HandlesInv => HandlesStay
  BY DEF HandlesInv
<1> QED BY <1>1, HandlesInductive, PTL

\* The list is built once in the life of a file object: get_or_init runs its closure once,
\* however many threads come to it together (libxisf/src/lib.rs:191-198).
THEOREM HandlesBuiltOnce == Spec => [](file /= None => lists = IF once = "built" THEN 1 ELSE 0)
<1>1. HandlesInv => (file /= None => lists = IF once = "built" THEN 1 ELSE 0)
  BY DEF HandlesInv, LockHeld
<1> QED BY <1>1, HandlesInductive, PTL

-----------------------------------------------------------------------------
(* The verdicts of a Rust program's reader.                                *)

ShapeOf(r) ==
  r = [length |-> r.length, layout |-> r.layout, header |-> r.header, beside |-> r.beside,
       absolute |-> r.absolute, resolver |-> r.resolver, verify |-> r.verify]

DataOf(r, i) == Images(r.header)[i].data

StoredOf(r, i) == StoredUnchecked(Widest(r), DataOf(r, i))

\* Every verdict, and the last answer about an image, was given by this reader, with its
\* switches in some position.
VerdictInv ==
  reader /= None =>
    /\ ShapeOf(reader)
    /\ verdict = [i \in Indices |-> verdict[i]]
    /\ \A i \in Indices : verdict[i] /= None => Judged(verdict[i], DataOf(reader, i), StoredOf(reader, i))
    /\ last.call \in {"bytes", "read"} =>
         /\ last.asked.image \in Indices
         /\ Served(last.answer, last.under.verify, DataOf(reader, last.asked.image),
                   StoredOf(reader, last.asked.image))

LEMMA VerdictInit == RustInit => VerdictInv
BY DEF RustInit, VerdictInv

\* A switch does not change what is stored.
LEMMA SwitchKeeps ==
  ASSUME NEW r, NEW on, ShapeOf(r),
         NEW s \in {SetVerify(r, on), SetResolver(r, on), FollowAbsolute(r, on)}
  PROVE  ShapeOf(s) /\ s.header = r.header /\ Widest(s) = Widest(r)
BY DEF ShapeOf, SetVerify, SetResolver, FollowAbsolute, Widest

LEMMA OpenedStep ==
  ASSUME NEW r, r.ok => ShapeOf(r.value), Opened(r)
  PROVE  VerdictInv'
BY DEF Opened, Answer, VerdictInv, Indices

LEMMA OpenBytesShape ==
  ASSUME NEW f, NEW beside, OpenBytes(f, beside).ok
  PROVE  ShapeOf(OpenBytes(f, beside).value)
BY DEF OpenBytes, ShapeOf, Good

LEMMA SwitchStep ==
  ASSUME VerdictInv, Switch
  PROVE  VerdictInv'
<1>1. PICK on \in BOOLEAN :
        reader' \in {SetVerify(reader, on), SetResolver(reader, on), FollowAbsolute(reader, on)}
  BY DEF Switch
<1>2. reader /= None /\ ShapeOf(reader) /\ UNCHANGED <<verdict, last>>
  BY DEF Switch, VerdictInv
<1>3. ShapeOf(reader') /\ reader'.header = reader.header /\ Widest(reader') = Widest(reader)
  BY <1>1, <1>2, SwitchKeeps
<1>4. reader' /= None => Indices' = Indices
  BY <1>2, <1>3 DEF Indices
<1>5. \A i : DataOf(reader', i) = DataOf(reader, i) /\ StoredOf(reader', i) = StoredOf(reader, i)
  BY <1>3 DEF DataOf, StoredOf
<1> QED BY <1>2, <1>3, <1>4, <1>5 DEF VerdictInv

LEMMA ImageBytesStep ==
  ASSUME VerdictInv, ImageBytes
  PROVE  VerdictInv'
<1>1. PICK i \in Indices :
        Answer("bytes", [image |-> i, data |-> DataOf(reader, i)], Block(reader, DataOf(reader, i)))
  BY DEF ImageBytes, DataOf
<1>2. UNCHANGED <<reader, verdict>> /\ Indices' = Indices
  BY DEF ImageBytes, Indices
<1>3. /\ last'.asked.image = i /\ last'.answer = Block(reader, DataOf(reader, i))
      /\ last'.under = reader
  BY <1>1 DEF Answer
<1> QED BY <1>2, <1>3, BlockServes DEF VerdictInv, StoredOf

LEMMA ReadImageStep ==
  ASSUME VerdictInv, ReadImage
  PROVE  VerdictInv'
<1>1. PICK i \in Indices, type \in SampleTypes :
        Answer("read", [image |-> i, data |-> DataOf(reader, i)],
               ReadAs(reader, Images(reader.header)[i], type))
  BY DEF ReadImage, DataOf
<1>2. UNCHANGED <<reader, verdict>> /\ Indices' = Indices
  BY DEF ReadImage, Indices
<1> DEFINE a == ReadAs(reader, Images(reader.header)[i], type)
<1>3. last'.asked.image = i /\ last'.answer = a /\ last'.under = reader
  BY <1>1 DEF Answer
<1>4. Served(a, reader.verify, DataOf(reader, i), StoredOf(reader, i))
  <2>1. Served(Block(reader, DataOf(reader, i)), reader.verify, DataOf(reader, i), StoredOf(reader, i))
    BY BlockServes DEF StoredOf
  <2> QED BY <2>1 DEF ReadAs, DataOf, Served, Bad
<1> HIDE DEF a
<1> QED BY <1>2, <1>3, <1>4 DEF VerdictInv

LEMMA VerifyImageStep ==
  ASSUME VerdictInv, VerifyImage
  PROVE  VerdictInv'
<1>1. PICK i \in Indices : verdict' = [verdict EXCEPT ![i] = Verify(reader, DataOf(reader, i))]
  BY DEF VerifyImage, DataOf
<1>2. UNCHANGED <<reader, last>> /\ Indices' = Indices
  BY DEF VerifyImage, Indices
<1>3. Judged(Verify(reader, DataOf(reader, i)), DataOf(reader, i), StoredOf(reader, i))
  BY VerifyJudges DEF StoredOf
<1> QED BY <1>1, <1>2, <1>3 DEF VerdictInv

\* Blocks that are no image's own are answered under names of their own.
LEMMA AsideStep ==
  ASSUME VerdictInv, IccProfile \/ ThumbnailBytes \/ PropertyRead
  PROVE  VerdictInv'
<1>1. UNCHANGED <<reader, verdict>> /\ last'.call \in {"icc_profile", "thumbnail", "property"}
  BY DEF IccProfile, ThumbnailBytes, PropertyRead, Aside, Answer
<1> QED BY <1>1 DEF VerdictInv, Indices

LEMMA VerdictStep ==
  ASSUME VerdictInv, RustNext
  PROVE  VerdictInv'
<1>1. CASE OpenFile
  <2>1. PICK f \in Files : Opened(OpenPath(f))
    BY <1>1 DEF OpenFile
  <2>2. OpenPath(f).ok => ShapeOf(OpenPath(f).value)
    BY OpenBytesShape DEF OpenPath, Bad
  <2> QED BY <2>1, <2>2, OpenedStep
<1>2. CASE FromBytes
  <2>1. PICK f \in Files : Opened(OpenBytes(f, FALSE))
    BY <1>2 DEF FromBytes
  <2> QED BY <2>1, OpenBytesShape, OpenedStep
<1> QED BY <1>1, <1>2, SwitchStep, ImageBytesStep, ReadImageStep, VerifyImageStep, AsideStep DEF RustNext

LEMMA VerdictInductive == Spec => []VerdictInv
<1>1. Init => VerdictInv
  BY VerdictInit DEF Init
<1>2. VerdictInv /\ [Next]_vars => VerdictInv'
  <2> SUFFICES ASSUME VerdictInv, [Next]_vars PROVE VerdictInv'
    OBVIOUS
  <2>1. CASE RustNext
    BY <2>1, VerdictStep
  <2>2. CASE UNCHANGED rust
    BY <2>2 DEF rust, VerdictInv, Indices
  <2> QED BY <2>1, <2>2 DEF Next, Stopped, vars
<1> QED BY <1>1, <1>2, PTL DEF Spec

\* However a program mixes verify, reads and the switches, what verify says of an image and
\* what reading it gives agree (reader.rs:213-232, 333-358).
THEOREM VerdictsAgree == Spec => []VerifyAgreesWithRead
<1>1. VerdictInv => VerifyAgreesWithRead
  <2> SUFFICES ASSUME VerdictInv, NEW i \in Indices, verdict[i] /= None,
                      last.call \in {"bytes", "read"}, last.asked.image = i
               PROVE  LET v == verdict[i]
                          a == last.answer
                      IN  /\ ~v.ok => v.error /= "ChecksumMismatch"
                          /\ (v.ok /\ v.value = "Invalid" /\ last.under.verify) => ~a.ok
                          /\ (~a.ok /\ a.error = "ChecksumMismatch") => ~v.ok \/ v.value = "Invalid"
    BY DEF VerifyAgreesWithRead
  <2>1. reader /= None
    BY DEF Indices
  <2>2. /\ Judged(verdict[i], DataOf(reader, i), StoredOf(reader, i))
        /\ Served(last.answer, last.under.verify, DataOf(reader, i), StoredOf(reader, i))
    BY <2>1 DEF VerdictInv
  <2> QED BY <2>2 DEF Judged, Served
<1> QED BY <1>1, VerdictInductive, PTL

-----------------------------------------------------------------------------
(* The C interface against the Rust one.                                   *)

LEMMA EntriesAreImages ==
  ASSUME NEW header
  PROVE  Entries(header) = [i \in DOMAIN Images(header) |->
                              [image |-> Images(header)[i].image, data |-> Images(header)[i].data]]
BY DEF Entries, Images

\* The file object holds what its reader's header lists.
ApisInv == (file /= None => file.images = Entries(file.reader.header)) /\ ApisAgree

LEMMA EntryIsImage ==
  ASSUME HandlesInv, ApisInv, NEW t \in Threads, held[t] /= None
  PROVE  /\ Resolves(t) /\ file /= None
         /\ Entry(t).image = Images(file.reader.header)[held[t].entry].image
         /\ Entry(t).data = Images(file.reader.header)[held[t].entry].data
<1>1. file /= None /\ held[t].entry \in DOMAIN file.images
  BY DEF HandlesInv, HandlesStay
<1>2. held[t].entry \in DOMAIN Images(file.reader.header)
  BY <1>1, EntriesAreImages DEF ApisInv
<1> QED BY <1>1, <1>2, EntriesAreImages DEF ApisInv, Entry, Resolves

\* A call that leaves the file alone is judged by what it told.
LEMMA ToldOf ==
  ASSUME HandlesInv, ApisInv, NEW t \in Threads, NEW a, Tell(t, a), file' = file,
         file /= None =>
           LET r == file.reader
               E(h) == Images(r.header)[h.entry]
               called(name) == a.call = name /\ a.handle /= None
           IN  /\ a.call \notin {"xisf_open", "xisf_open_memory"}
               /\ called("xisf_image_read") =>
                    LET same == ReadAs(r, E(a.handle), E(a.handle).image.format)
                    IN  /\ a.err = "Ok" => same = Good(a.written) /\ ~(a.capacity < same.value.length)
                        /\ a.err /= "Ok" => a.written = None
                        /\ a.capacity /= None /\ ~same.ok => a.err = same.error
               /\ called("xisf_image_read_alloc") =>
                    LET same == Block(r, E(a.handle).data)
                    IN  /\ a.err = "Ok" => same = Good(a.written) /\ a.size = a.written.length
                        /\ a.err \notin {"Ok", "OutOfMemory"} => same = Bad(a.err)
               /\ called("xisf_image_verify") =>
                    (a.err = "Ok" <=> Verify(r, E(a.handle).data) \in {Good("Valid"), Good("Absent")})
               /\ called("xisf_image_data_size") => a.size \in {0, E(a.handle).image.size}
  PROVE  ApisInv'
<1>1. told'.reply = a
  BY DEF Tell
<1> QED BY <1>1 DEF ApisInv, ApisAgree

LEMMA ReadIntoStep ==
  ASSUME HandlesInv, ApisInv, NEW t \in Threads, ReadInto(t)
  PROVE  ApisInv'
<1>1. PICK capacity : LET c == CRead(t, capacity)
                      IN  Tell(t, [call |-> "xisf_image_read", handle |-> held[t], capacity |-> capacity,
                                   err |-> Code(c), written |-> IF c.ok THEN c.value ELSE None])
  BY DEF ReadInto
<1> DEFINE c == CRead(t, capacity)
           e == Images(file.reader.header)[held[t].entry]
           same == ReadAs(file.reader, e, e.image.format)
<1>2. file' = file
  BY DEF ReadInto
<1>3. ASSUME held[t] /= None
      PROVE  /\ Code(c) = "Ok" => same = Good(c.value) /\ ~(capacity < same.value.length) /\ c.ok
             /\ Code(c) /= "Ok" => ~c.ok
             /\ capacity /= None /\ ~same.ok => Code(c) = same.error
  <2>1. Entry(t).image = e.image /\ Entry(t).data = e.data /\ Resolves(t)
    BY <1>3, EntryIsImage
  <2> DEFINE b == Block(file.reader, e.data)
             size == e.image.size
  <2>2. (b.ok => b = Good(b.value)) /\ (~b.ok => b.error /= "Ok")
    BY BlockForm DEF IsResult
  <2>3. c = IF capacity = None THEN Bad("InvalidArgument")
            ELSE IF ~b.ok THEN b
            ELSE IF size = None THEN Bad("Unsupported")
            ELSE IF b.value.length /= size THEN Bad("Truncated")
            ELSE IF capacity < b.value.length THEN Bad("InvalidArgument")
            ELSE b
    BY <2>1 DEF CRead
  <2>4. same = IF ~b.ok THEN b
               ELSE IF size = None THEN Bad("Unsupported")
               ELSE IF b.value.length /= size THEN Bad("Truncated")
               ELSE b
    BY DEF ReadAs
  <2> HIDE DEF b, size, c, same
  <2>5. ASSUME NEW error PROVE ~Bad(error).ok /\ Bad(error).error = error
    BY DEF Bad
  <2>6. CASE c = b
    BY <2>2, <2>3, <2>4, <2>5, <2>6 DEF Code
  <2>7. CASE c /= b
    BY <2>2, <2>3, <2>4, <2>5, <2>7 DEF Code
  <2> QED BY <2>6, <2>7
<1> DEFINE a == [call |-> "xisf_image_read", handle |-> held[t], capacity |-> capacity,
                 err |-> Code(c), written |-> IF c.ok THEN c.value ELSE None]
<1>4. /\ Tell(t, a) /\ a.call = "xisf_image_read" /\ a.handle = held[t] /\ a.capacity = capacity
      /\ a.err = Code(c) /\ (c.ok => a.written = c.value) /\ (~c.ok => a.written = None)
  BY <1>1
<1> HIDE DEF c, a
<1>5. ASSUME a.handle /= None
      PROVE  /\ a.err = "Ok" => same = Good(a.written) /\ ~(a.capacity < same.value.length)
             /\ a.err /= "Ok" => a.written = None
             /\ a.capacity /= None /\ ~same.ok => a.err = same.error
  <2> HIDE DEF same
  <2> QED BY <1>3, <1>4, <1>5
<1>6. same = ReadAs(file.reader, Images(file.reader.header)[a.handle.entry],
                    Images(file.reader.header)[a.handle.entry].image.format)
  BY <1>4
<1> HIDE DEF same
<1> QED BY <1>2, <1>4, <1>5, <1>6, ToldOf

LEMMA ReadAllocStep ==
  ASSUME HandlesInv, ApisInv, NEW t \in Threads, ReadAlloc(t)
  PROVE  ApisInv'
<1>1. PICK c \in {CReadAlloc(t)} \cup (IF CReadAlloc(t).ok THEN {Bad("OutOfMemory")} ELSE {}) :
        Tell(t, [call |-> "xisf_image_read_alloc", handle |-> held[t], err |-> Code(c),
                 size |-> IF c.ok THEN c.value.length ELSE 0,
                 written |-> IF c.ok THEN c.value ELSE None])
  BY DEF ReadAlloc
<1> DEFINE e == Images(file.reader.header)[held[t].entry]
           same == Block(file.reader, e.data)
<1>2. file' = file
  BY DEF ReadAlloc
<1>3. ASSUME held[t] /= None
      PROVE  /\ Code(c) = "Ok" => same = Good(c.value) /\ c.ok
             /\ Code(c) \notin {"Ok", "OutOfMemory"} => same = Bad(Code(c))
  <2>1. Entry(t).data = e.data /\ Resolves(t)
    BY <1>3, EntryIsImage
  <2>2. same = (IF same.ok THEN Good(same.value) ELSE Bad(same.error)) /\ (~same.ok => same.error /= "Ok")
    BY BlockForm DEF IsResult
  <2>3. CReadAlloc(t) = same
    BY <2>1 DEF CReadAlloc
  <2>4. CASE c = same
    BY <2>2, <2>4 DEF Code
  <2>5. CASE c = Bad("OutOfMemory")
    BY <2>5 DEF Code, Bad
  <2> QED BY <1>1, <2>3, <2>4, <2>5
<1> DEFINE a == [call |-> "xisf_image_read_alloc", handle |-> held[t], err |-> Code(c),
                 size |-> IF c.ok THEN c.value.length ELSE 0,
                 written |-> IF c.ok THEN c.value ELSE None]
<1>4. /\ Tell(t, a) /\ a.call = "xisf_image_read_alloc" /\ a.handle = held[t] /\ a.err = Code(c)
      /\ c.ok => a.written = c.value /\ a.size = c.value.length
  BY <1>1
<1> HIDE DEF a
<1> QED BY <1>2, <1>3, <1>4, ToldOf

LEMMA VerifyHandleStep ==
  ASSUME HandlesInv, ApisInv, NEW t \in Threads, VerifyHandle(t)
  PROVE  ApisInv'
<1> DEFINE e == Images(file.reader.header)[held[t].entry]
           v == Verify(file.reader, e.data)
           a == [call |-> "xisf_image_verify", handle |-> held[t], err |-> CVerify(t)]
<1>1. file' = file /\ Tell(t, a)
  BY DEF VerifyHandle
<1>2. ASSUME held[t] /= None
      PROVE  CVerify(t) = "Ok" <=> v \in {Good("Valid"), Good("Absent")}
  <2>1. Entry(t).data = e.data /\ Resolves(t)
    BY <1>2, EntryIsImage
  <2>2. /\ v = IF v.ok THEN Good(v.value) ELSE Bad(v.error)
        /\ ~v.ok => v.error /= "Ok"
        /\ v.ok => v.value \in {"Absent", "Valid", "Invalid"}
    BY VerifyForm DEF IsResult
  <2>3. CVerify(t) = IF ~v.ok THEN v.error
                     ELSE IF v.value = "Invalid" THEN "ChecksumMismatch" ELSE "Ok"
    BY <2>1 DEF CVerify
  <2> HIDE DEF v
  <2> QED BY <2>2, <2>3 DEF Good, Bad
<1>3. a.call = "xisf_image_verify" /\ a.handle = held[t] /\ a.err = CVerify(t)
  OBVIOUS
<1> HIDE DEF a
<1> QED BY <1>1, <1>2, <1>3, ToldOf

LEMMA AskSizeStep ==
  ASSUME HandlesInv, ApisInv, NEW t \in Threads, Ask(t)
  PROVE  ApisInv'
<1> DEFINE e == Images(file.reader.header)[held[t].entry]
           a == [call |-> "xisf_image_data_size", handle |-> held[t], count |-> ImageCount,
                 size |-> CSize(t)]
<1>1. file' = file /\ Tell(t, a)
  BY DEF Ask
<1>2. held[t] /= None => CSize(t) \in {0, e.image.size}
  BY EntryIsImage DEF CSize
<1>3. a.call = "xisf_image_data_size" /\ a.handle = held[t] /\ a.size = CSize(t)
  OBVIOUS
<1> HIDE DEF a
<1> QED BY <1>1, <1>2, <1>3, ToldOf

LEMMA COpenApis ==
  ASSUME NEW t \in Threads, NEW call \in {"xisf_open", "xisf_open_memory"}, NEW r,
         ~r.ok => r.error /= "Ok", OpenWith(t, call, r)
  PROVE  ApisInv'
<1>1. told'.reply = [call |-> call, err |-> Code(r), null |-> ~r.ok]
  BY DEF OpenWith, Tell
<1>2. /\ told'.reply.call = call /\ told'.reply.err = Code(r) /\ told'.reply.null = ~r.ok
      /\ Code(r) = "Ok" <=> r.ok
  BY <1>1 DEF Code
<1>3. file' = IF r.ok THEN Build(r.value) ELSE None
  BY DEF OpenWith
<1>4. file' /= None => file'.images = Entries(file'.reader.header)
  BY <1>3 DEF Build
<1> QED BY <1>2, <1>4 DEF ApisInv, ApisAgree

LEMMA OpenErrors ==
  ASSUME NEW f \in CFiles \ {None}, NEW beside, ~OpenBytes(f, beside).ok
  PROVE  OpenBytes(f, beside).error /= "Ok"
<1>1. ~Scan(f).ok => Scan(f).error /= "Ok"
  BY DEF Scan, Good, Bad
<1>2. ~ParseHeader(f).ok => ParseHeader(f).error /= "Ok"
  BY CFilesAssumption DEF ParseHeader, Bad, Openable, IsFile, ErrorKinds
<1> QED BY <1>1, <1>2 DEF OpenBytes, Good

LEMMA OpenApisStep ==
  ASSUME NEW t \in Threads, COpen(t)
  PROVE  ApisInv'
<1>1. CASE \E f \in CFiles : OpenWith(t, "xisf_open", OpenPath(f))
  <2>1. PICK f \in CFiles : OpenWith(t, "xisf_open", OpenPath(f))
    BY <1>1
  <2>2. ~OpenPath(f).ok => OpenPath(f).error /= "Ok"
    BY OpenErrors DEF OpenPath, Bad
  <2> QED BY <2>1, <2>2, COpenApis
<1>2. CASE \E f \in CFiles \ {None} : OpenWith(t, "xisf_open_memory", OpenBytes(f, FALSE))
  BY <1>2, OpenErrors, COpenApis
<1>3. CASE OpenWith(t, "xisf_open", Bad("InvalidArgument"))
  <2>1. ~Bad("InvalidArgument").ok => Bad("InvalidArgument").error /= "Ok"
    BY DEF Bad
  <2> QED BY <1>3, <2>1, COpenApis
<1> QED BY <1>1, <1>2, <1>3 DEF COpen

LEMMA ApisStep ==
  ASSUME HandlesInv, ApisInv, CNext
  PROVE  ApisInv'
<1>1. PICK t \in Threads :
        \/ COpen(t) \/ CClose(t) \/ AskHandle(t) \/ BeginHandles(t) \/ FinishHandles(t)
        \/ ReadInto(t) \/ ReadAlloc(t) \/ Free(t) \/ VerifyHandle(t) \/ Ask(t)
  BY DEF CNext
<1>2. CASE CClose(t)
  BY <1>2 DEF CClose, ApisInv, ApisAgree
<1>3. ASSUME \E list, i : Lend(t, list, i) PROVE ApisInv'
  <2>1. file' = file /\ told'.reply.call = "xisf_image_at"
    BY <1>3 DEF Lend, Tell
  <2> QED BY <2>1 DEF ApisInv, ApisAgree
<1>4. CASE AskHandle(t) \/ FinishHandles(t)
  BY <1>3, <1>4 DEF AskHandle, FinishHandles
<1>5. CASE BeginHandles(t)
  BY <1>5 DEF BeginHandles, ApisInv, ApisAgree
<1>6. CASE Free(t)
  <2>1. file' = file /\ told'.reply.call = "xisf_free"
    BY <1>6 DEF Free, Tell
  <2> QED BY <2>1 DEF ApisInv, ApisAgree
<1> QED BY <1>1, <1>2, <1>4, <1>5, <1>6, OpenApisStep, ReadIntoStep, ReadAllocStep,
           VerifyHandleStep, AskSizeStep

LEMMA ApisInductive == Spec => []ApisInv
<1>1. Init => ApisInv
  <2>1. CInit => ApisInv
    BY DEF CInit, ApisInv, ApisAgree
  <2> QED BY <2>1 DEF Init
<1>2. HandlesInv /\ ApisInv /\ [Next]_vars => ApisInv'
  <2> SUFFICES ASSUME HandlesInv, ApisInv, [Next]_vars PROVE ApisInv'
    OBVIOUS
  <2>1. CASE CNext
    BY <2>1, ApisStep
  <2>2. CASE UNCHANGED capi
    BY <2>2 DEF capi, ApisInv, ApisAgree
  <2> QED BY <2>1, <2>2 DEF Next, Stopped, vars
<1> QED BY <1>1, <1>2, HandlesInductive, PTL DEF Spec

\* What the C interface says of an image is what the Rust interface says of it, in every
\* order of the calls of any number of threads (libxisf/src/lib.rs:498-597).
THEOREM InterfacesAgree == Spec => []ApisAgree
<1>1. ApisInv => ApisAgree
  BY DEF ApisInv
<1> QED BY <1>1, ApisInductive, PTL

-----------------------------------------------------------------------------
(* Induction, by the least counterexample.                                 *)

\* A set of naturals that is not empty has a least element.
LEMMA LeastNatural ==
  ASSUME NEW T, T \subseteq Nat, T # {}
  PROVE  \E m \in T : \A n \in T : m <= n
<1> DEFINE Segments == {0 .. m : m \in T}
           R == StrictSubsetOrdering(Nat)
<1>1. Segments \subseteq FiniteSubsetsOf(Nat) /\ Segments # {}
  <2>1. ASSUME NEW m \in T
        PROVE  0 .. m \in FiniteSubsetsOf(Nat)
    <3>1. IsFiniteSet(0 .. m)
      BY FS_Interval
    <3> QED BY <3>1 DEF FiniteSubsetsOf
  <2> QED BY <2>1
<1>2. PICK s \in Segments : \A t \in Segments : <<t, s>> \notin R
  <2>1. IsWellFoundedOn(R, FiniteSubsetsOf(Nat))
    BY FS_StrictSubsetOrderingWellFounded
  <2> HIDE DEF Segments, R
  <2> QED BY <1>1, <2>1, WFMin, Zenon
<1>3. PICK m \in T : s = 0 .. m
  OBVIOUS
<1>4. ASSUME NEW n \in T, n < m
      PROVE  FALSE
  <2>1. 0 .. n \subseteq 0 .. m /\ m \in 0 .. m /\ m \notin 0 .. n
    BY <1>4
  <2>2. <<0 .. n, s>> \in R
    BY <1>3, <2>1 DEF StrictSubsetOrdering
  <2> QED BY <1>2, <2>2
<1>5. \A n \in T : ~(n < m)
  BY <1>4
<1> QED BY <1>5

-----------------------------------------------------------------------------
(* What a filter keeps.                                                    *)

\* kept[i] is what is kept of the first i elements, if those at the indices `keep` are.
Keeps(kept, s, n, keep) ==
  kept = [i \in 0 .. n |-> IF i = 0 THEN <<>>
                           ELSE IF i \in keep THEN Append(kept[i - 1], s[i]) ELSE kept[i - 1]]

\* The same, element by element.
Grows(kept, s, n, keep) ==
  /\ kept[0] = <<>>
  /\ \A i \in 1 .. n : kept[i] = IF i \in keep THEN Append(kept[i - 1], s[i]) ELSE kept[i - 1]

LEMMA KeepsGrows ==
  ASSUME NEW s, NEW keep, NEW n \in Nat, NEW kept, Keeps(kept, s, n, keep)
  PROVE  Grows(kept, s, n, keep)
<1> DEFINE f == [i \in 0 .. n |-> IF i = 0 THEN <<>>
                                 ELSE IF i \in keep THEN Append(kept[i - 1], s[i]) ELSE kept[i - 1]]
<1>1. f[0] = <<>>
  OBVIOUS
<1>2. \A i \in 1 .. n : f[i] = IF i \in keep THEN Append(kept[i - 1], s[i]) ELSE kept[i - 1]
  OBVIOUS
<1>3. kept = f
  BY DEF Keeps
<1> HIDE DEF f
<1> QED BY <1>1, <1>2, <1>3 DEF Grows

LEMMA KeepsExists ==
  ASSUME NEW s, NEW keep, NEW n \in Nat
  PROVE  \E kept : Keeps(kept, s, n, keep)
<1> DEFINE T == {m \in Nat : ~ \E kept : Keeps(kept, s, m, keep)}
<1>1. ASSUME T # {} PROVE FALSE
  <2>1. PICK m \in T : \A k \in T : m <= k
    BY <1>1, LeastNatural
  <2>2. CASE m = 0
    <3> DEFINE f == [i \in 0 .. 0 |-> <<>>]
    <3>1. Keeps(f, s, 0, keep)
      BY DEF Keeps
    <3> QED BY <2>1, <2>2, <3>1
  <2>3. CASE m # 0
    <3>1. m - 1 \in Nat /\ ~(m <= m - 1)
      BY <2>1, <2>3
    <3>2. PICK g : Keeps(g, s, m - 1, keep)
      BY <2>1, <3>1
    <3> DEFINE f == [i \in 0 .. m |->
                       IF i < m THEN g[i] ELSE IF m \in keep THEN Append(g[m - 1], s[m]) ELSE g[m - 1]]
    <3>3. \A i \in 0 .. m - 1 :
            /\ g[i] = IF i = 0 THEN <<>>
                      ELSE IF i \in keep THEN Append(g[i - 1], s[i]) ELSE g[i - 1]
            /\ f[i] = g[i]
      BY <2>1, <3>1, <3>2, KeepsGrows DEF Grows
    <3>4. ASSUME NEW i \in 0 .. m
          PROVE  f[i] = IF i = 0 THEN <<>>
                        ELSE IF i \in keep THEN Append(f[i - 1], s[i]) ELSE f[i - 1]
      <4>1. CASE i = m
        <5>1. f[m - 1] = g[m - 1]
          BY <3>1, <3>3
        <5>2. f[m] = IF m \in keep THEN Append(g[m - 1], s[m]) ELSE g[m - 1]
          BY <2>1
        <5> HIDE DEF f
        <5> QED BY <2>3, <4>1, <5>1, <5>2
      <4>2. CASE i # m /\ i # 0
        <5>1. i \in 0 .. m - 1 /\ i - 1 \in 0 .. m - 1
          BY <2>1, <4>2
        <5>2. f[i] = g[i] /\ f[i - 1] = g[i - 1]
          BY <3>3, <5>1
        <5> HIDE DEF f
        <5> QED BY <3>3, <4>2, <5>1, <5>2
      <4>3. CASE i # m /\ i = 0
        <5> HIDE DEF f
        <5>1. i \in 0 .. m - 1
          BY <2>1, <4>3
        <5> QED BY <3>3, <4>3, <5>1
      <4> QED BY <4>1, <4>2, <4>3
    <3>5. f = [i \in 0 .. m |-> f[i]]
      OBVIOUS
    <3> HIDE DEF f
    <3>6. Keeps(f, s, m, keep)
      BY <3>4, <3>5 DEF Keeps
    <3> QED BY <2>1, <3>6
  <2> QED BY <2>2, <2>3
<1> QED BY <1>1

\* What is kept are elements of the sequence, and all of them if it is as many.
LEMMA KeptAre ==
  ASSUME NEW S, NEW s \in Seq(S), NEW keep, NEW kept, Keeps(kept, s, Len(s), keep)
  PROVE  /\ kept[Len(s)] \in Seq(S)
         /\ Len(kept[Len(s)]) <= Len(s)
         /\ Len(kept[Len(s)]) = Len(s) => kept[Len(s)] = s
<1> DEFINE Holds(i) == /\ kept[i] \in Seq(S) /\ Len(kept[i]) <= i
                       /\ Len(kept[i]) = i => \A k \in 1 .. i : kept[i][k] = s[k]
           T == {i \in 0 .. Len(s) : ~Holds(i)}
<1>1. /\ kept[0] = <<>>
      /\ \A i \in 1 .. Len(s) : kept[i] = IF i \in keep THEN Append(kept[i - 1], s[i]) ELSE kept[i - 1]
  <2>1. Len(s) \in Nat
    OBVIOUS
  <2>2. Grows(kept, s, Len(s), keep)
    BY <2>1, KeepsGrows
  <2> QED BY <2>2 DEF Grows
<1>2. ASSUME T # {} PROVE FALSE
  <2>1. PICK m \in T : \A k \in T : m <= k
    <3>1. T \subseteq Nat
      OBVIOUS
    <3> HIDE DEF T
    <3> QED BY <1>2, <3>1, LeastNatural
  <2>2. m \in 1 .. Len(s)
    <3>1. Holds(0)
      BY <1>1
    <3>2. m \in 0 .. Len(s) /\ m # 0
      BY <2>1, <3>1
    <3> HIDE DEF Holds, T
    <3> QED BY <3>2
  <2>3. m - 1 \in 0 .. Len(s) /\ ~(m <= m - 1)
    BY <2>2
  <2>4. Holds(m - 1)
    BY <2>1, <2>3
  <2> DEFINE before == kept[m - 1]
  <2>5. before \in Seq(S) /\ Len(before) <= m - 1
        /\ (Len(before) = m - 1 => \A k \in 1 .. m - 1 : before[k] = s[k])
    BY <2>4
  <2>6. kept[m] = (IF m \in keep THEN Append(before, s[m]) ELSE before) /\ s[m] \in S
    BY <1>1, <2>2
  <2> HIDE DEF before
  <2>7. Holds(m)
    BY <2>2, <2>5, <2>6
  <2> QED BY <2>1, <2>7
<1>3. Holds(Len(s))
  BY <1>2
<1> QED BY <1>3

\* So is what a filter leaves.
LEMMA FilteredAre ==
  ASSUME NEW S, NEW s \in Seq(S), NEW keep
  PROVE  /\ Kept(s, keep) \in Seq(S)
         /\ Len(Kept(s, keep)) <= Len(s)
         /\ Len(Kept(s, keep)) = Len(s) => Kept(s, keep) = s
<1> DEFINE Def(f) == f = [i \in 0 .. Len(s) |->
                            IF i = 0 THEN <<>>
                            ELSE IF i \in keep THEN Append(f[i - 1], s[i]) ELSE f[i - 1]]
           kept == CHOOSE f : Def(f)
<1>1. \A f : Def(f) <=> Keeps(f, s, Len(s), keep)
  BY DEF Keeps
<1>2. Kept(s, keep) = kept[Len(s)]
  BY DEF Kept
<1>3. Len(s) \in Nat
  OBVIOUS
<1> HIDE DEF Def
<1>4. Def(kept)
  BY <1>1, <1>3, KeepsExists
<1> HIDE DEF kept
<1>5. Keeps(kept, s, Len(s), keep)
  BY <1>1, <1>4
<1> QED BY <1>2, <1>5, KeptAre

\* The images of a header are elements of it, and all of them if none is left out.
LEMMA ImagesAre ==
  ASSUME NEW h, IsList(h.images)
  PROVE  /\ Images(h) \in Seq(ToSet(h.images))
         /\ UnavailableImages(h) = 0 => Images(h) = h.images
<1>1. h.images \in Seq(ToSet(h.images))
  BY DEF IsList
<1>2. PICK keep : Images(h) = Kept(h.images, keep)
  BY DEF Images, Filter
<1>3. /\ Images(h) \in Seq(ToSet(h.images)) /\ Len(Images(h)) <= Len(h.images)
      /\ Len(Images(h)) = Len(h.images) => Images(h) = h.images
  BY <1>1, <1>2, FilteredAre
<1> QED BY <1>1, <1>3 DEF UnavailableImages

\* Its properties, likewise, and what is found among them.
LEMMA PropertiesAre ==
  ASSUME NEW h, IsList(h.properties)
  PROVE  Properties(h) \in Seq(ToSet(h.properties))
<1>1. h.properties \in Seq(ToSet(h.properties))
  BY DEF IsList
<1>2. PICK keep : Properties(h) = Kept(h.properties, keep)
  BY DEF Properties, Filter
<1> QED BY <1>1, <1>2, FilteredAre

LEMMA FoundIs ==
  ASSUME NEW S, NEW s \in Seq(S), NEW id, Find(s, id) /= None
  PROVE  Find(s, id) \in S
<1>1. PICK keep : Find(s, id) = IF Kept(s, keep) = <<>> THEN None ELSE Head(Kept(s, keep))
  BY DEF Find, Filter
<1>2. PICK named : named = Kept(s, keep)
  OBVIOUS
<1>3. named \in Seq(S)
  BY <1>2, FilteredAre
<1> QED BY <1>1, <1>2, <1>3

\* A reader, of one of the files.
IsReader(files, r) ==
  /\ r \in Readers(files)
  /\ r.layout.form = "HeaderFile" => r.layout.end = r.length

\* What opening gives is a reader of the file.
LEMMA OpenIsReader ==
  ASSUME NEW files, Openable(files), NEW f \in files, NEW beside \in BOOLEAN, OpenBytes(f, beside).ok
  PROVE  /\ IsReader(files, OpenBytes(f, beside).value)
         /\ OpenBytes(f, beside).value /= None
<1> DEFINE r == OpenBytes(f, beside).value
           layout == Scan(f)
<1>1. /\ layout.ok /\ f.header.ok
      /\ r = [length |-> f.length, layout |-> layout.value, header |-> f.header.value,
              beside |-> beside, absolute |-> FALSE, resolver |-> FALSE, verify |-> TRUE]
  BY DEF OpenBytes, ParseHeader, Good, Bad
<1>2. f.length \in Nat /\ f.declared \in Nat /\ Preamble \in Nat
  BY ReaderAssumption DEF Openable, IsFile
<1>3. \/ layout.value = [end |-> f.length, form |-> "HeaderFile"]
      \/ layout.value = [end |-> Preamble + f.declared, form |-> "Monolithic"]
  BY <1>1 DEF Scan, Good, Bad
<1>4. f.header.value \in {g.header.value : g \in {g \in files : g.header.ok}}
  BY <1>1
<1> HIDE DEF r, layout
<1>5. r \in Readers(files)
  <2>1. layout.value \in [end : Nat, form : {"HeaderFile", "Monolithic"}]
    BY <1>2, <1>3
  <2> QED BY <1>1, <1>2, <1>4, <2>1 DEF Readers
<1>6. r.layout = layout.value /\ r.length = f.length
  BY <1>1
<1>7. r.layout.form = "HeaderFile" => r.layout.end = r.length
  BY <1>3, <1>6
<1>8. r /= None
  BY <1>5 DEF Openable
<1> QED BY <1>5, <1>7, <1>8 DEF IsReader, r

LEMMA HeaderIsHeader ==
  ASSUME NEW files, Openable(files), NEW r, IsReader(files, r)
  PROVE  IsHeader(r.header)
<1>1. r.header \in {g.header.value : g \in {g \in files : g.header.ok}}
  BY DEF IsReader, Readers
<1> QED BY <1>1 DEF Openable, IsFile

\* Where the bytes of a block at l came from, as ServedFromItsPlace says it.
FromItsPlace(b, r, l) ==
  /\ b.from = "file" =>
       /\ l.kind = "Attachment" /\ b.at = l.position
       /\ r.layout.end <= l.position /\ l.position + l.size <= r.length
       /\ b.length = l.size \/ b.plain
       /\ r.layout.form = "HeaderFile" => l.size = 0
  /\ b.from = "text" => l.kind \in {"Inline", "Embedded"}
  /\ b.from \notin {"file", "text"} =>
       /\ r.layout.form = "HeaderFile"
       /\ \/ l.kind = "Path" /\ b.from \in Root /\ r.beside
          \/ l.kind = "Path" /\ l.locator.absolute /\ b.from = l.locator.leads /\ r.absolute
          \/ l.kind = "Url" /\ b.from = l.url /\ r.resolver

LEMMA ExtractedFrom ==
  ASSUME NEW resource, NEW name, NEW index, Extracted(resource, name, index).ok
  PROVE  Extracted(resource, name, index).value.from = name
BY DEF Extracted, Good, Bad, Bytes

\* The stored bytes of a block are from the place its location names, and so are those given.
LEMMA StoredFromItsPlace ==
  ASSUME NEW files, NEW r, IsReader(files, r), NEW d, IsData(d), StoredUnchecked(r, d).ok
  PROVE  FromItsPlace(StoredUnchecked(r, d).value, r, d.location)
<1> DEFINE l == d.location
           s == StoredUnchecked(r, d)
           b == s.value
<1>1. /\ l /= None /\ IsLocation(l)
      /\ r.layout.end \in Nat /\ r.length \in Nat /\ r.layout.form \in {"HeaderFile", "Monolithic"}
      /\ r.layout.form = "HeaderFile" => r.layout.end = r.length
  BY DEF StoredUnchecked, Bad, IsData, IsReader, Readers
<1>2. CASE l.kind = "Attachment"
  <2>1. l.position \in Nat /\ l.size \in Nat
    BY <1>1, <1>2 DEF IsLocation
  <2>2. s = Attached(r, l)
    BY <1>1, <1>2 DEF StoredUnchecked
  <2>3. /\ b.from = "file" /\ b.at = l.position /\ b.length = l.size
        /\ ~(l.position < r.layout.end) /\ ~(l.position + l.size > r.length)
    BY <2>2 DEF Attached, Good, Bad, Bytes
  <2> HIDE DEF l, s
  <2> QED BY <1>1, <1>2, <2>1, <2>3 DEF FromItsPlace, l, s
<1>3. CASE l.kind \in {"Inline", "Embedded"}
  <2>1. s = DecodeText(d.text)
    BY <1>1, <1>3 DEF StoredUnchecked
  <2>2. b.from = "text"
    BY <2>1 DEF DecodeText, Good, Bad, Bytes
  <2> QED BY <1>3, <2>2 DEF FromItsPlace
<1>4. CASE l.kind = "Path"
  <2> DEFINE place == Resolve(r, l.locator)
  <2>1. /\ r.layout.form /= "Monolithic" /\ place.ok /\ s = ReadExternal(place.value, l.index)
    BY <1>1, <1>4 DEF StoredUnchecked, Bad
  <2>2. b.from = place.value /\ place.value \in DOMAIN Disk
    BY <2>1, ExtractedFrom DEF ReadExternal, Bad
  <2>3. \/ place.value \in Root /\ r.beside
        \/ l.locator.absolute /\ place.value = l.locator.leads /\ r.absolute
    BY <2>1 DEF Resolve, Beside, Good, Bad
  <2> QED BY <1>1, <1>4, <2>1, <2>2, <2>3, NamesAssumption DEF FromItsPlace
<1>5. CASE l.kind = "Url"
  <2>1. r.layout.form /= "Monolithic" /\ s = Fetched(r, l.url, l.index)
    BY <1>1, <1>5 DEF StoredUnchecked, Bad
  <2>2. b.from = l.url /\ l.url \in DOMAIN Web /\ r.resolver
    BY <2>1, ExtractedFrom DEF Fetched, Bad
  <2> QED BY <1>1, <1>5, <2>1, <2>2, NamesAssumption DEF FromItsPlace
<1> QED BY <1>1, <1>2, <1>3, <1>4, <1>5 DEF IsLocation

LEMMA BlockFromItsPlace ==
  ASSUME NEW files, NEW r, IsReader(files, r), NEW d, IsData(d), Block(r, d).ok
  PROVE  FromItsPlace(Block(r, d).value, r, d.location)
<1> DEFINE s == StoredUnchecked(r, d)
           b == Block(r, d)
<1>1. s.ok /\ StoredBlock(r, d) = s
  BY DEF Block, StoredBlock, Bad
<1>2. FromItsPlace(s.value, r, d.location)
  BY <1>1, StoredFromItsPlace
<1>3. b.value = s.value \/ b.value = [s.value EXCEPT !.plain = TRUE, !.length = d.compression.size]
  BY <1>1 DEF Block, Decode, Good, Bad
<1>4. CASE b.value = s.value
  BY <1>2, <1>4
<1>5. CASE b.value = [s.value EXCEPT !.plain = TRUE, !.length = d.compression.size]
  <2> DEFINE v == s.value
  <2>1. v.from = b.value.from /\ v.at = b.value.at /\ b.value.plain
    BY <1>5
  <2> QED BY <1>2, <2>1 DEF FromItsPlace
<1> QED BY <1>3, <1>4, <1>5

-----------------------------------------------------------------------------
(* The place of a block.                                                   *)

RustFiles == Files \ {None}

\* The reader is one of a file, and what was answered of a block is what is in its place.
PlaceInv ==
  /\ reader /= None => IsReader(RustFiles, reader)
  /\ (last /= None /\ last.call /= "open" /\ last.answer.ok) =>
       LET r == last.under
           i == last.asked.image
           b == last.answer.value
       IN  /\ FromItsPlace(b, r, last.asked.data.location)
           /\ last.call = "read" => b.length = Images(r.header)[i].image.size
           /\ (i > 0 /\ UnavailableImages(r.header) = 0) => Images(r.header) = r.header.images

LEMMA FilesOpenable == Openable(RustFiles)
BY FilesAssumption DEF RustFiles

LEMMA PlaceInit == RustInit => PlaceInv
BY DEF RustInit, PlaceInv

LEMMA OpenedPlace ==
  ASSUME NEW f \in Files, NEW beside \in BOOLEAN, NEW r, Opened(r),
         r.ok => f \in RustFiles /\ r = OpenBytes(f, beside)
  PROVE  PlaceInv'
<1>1. last'.call = "open" /\ reader' = IF r.ok THEN r.value ELSE None
  BY DEF Opened, Answer
<1>2. r.ok => IsReader(RustFiles, r.value)
  BY FilesOpenable, OpenIsReader
<1> QED BY <1>1, <1>2 DEF PlaceInv

LEMMA SwitchPlace ==
  ASSUME PlaceInv, Switch
  PROVE  PlaceInv'
<1>1. reader /= None /\ last' = last /\ IsReader(RustFiles, reader)
  BY DEF Switch, PlaceInv
<1>2. PICK on \in BOOLEAN :
        reader' \in {SetVerify(reader, on), SetResolver(reader, on), FollowAbsolute(reader, on)}
  BY DEF Switch
<1>3. reader' \in Readers(RustFiles) /\ reader'.layout = reader.layout /\ reader'.length = reader.length
  BY <1>1, <1>2 DEF IsReader, Readers, SetVerify, SetResolver, FollowAbsolute
<1> QED BY <1>1, <1>3 DEF PlaceInv, IsReader

\* What is asked of a block of the header.
LEMMA AnswerPlace ==
  ASSUME PlaceInv, reader /= None, UNCHANGED reader, NEW call, NEW asked, NEW answer,
         Answer(call, asked, answer), IsData(asked.data),
         answer.ok => answer = Block(reader, asked.data),
         (call = "read" /\ answer.ok) =>
             answer.value.length = Images(reader.header)[asked.image].image.size
  PROVE  PlaceInv'
<1>1. last' = [call |-> call, asked |-> asked, under |-> reader, answer |-> answer]
  BY DEF Answer
<1>2. IsReader(RustFiles, reader)
  BY DEF PlaceInv
<1>3. answer.ok => FromItsPlace(answer.value, reader, asked.data.location)
  BY <1>2, BlockFromItsPlace
<1>4. UnavailableImages(reader.header) = 0 => Images(reader.header) = reader.header.images
  BY <1>2, FilesOpenable, HeaderIsHeader, ImagesAre DEF IsHeader
<1>5. last'.call = call /\ last'.asked = asked /\ last'.under = reader /\ last'.answer = answer
  BY <1>1
<1> QED BY <1>2, <1>3, <1>4, <1>5 DEF PlaceInv

\* The elements asked for are elements of the header.
LEMMA ElementsAsked ==
  ASSUME PlaceInv, NEW i \in Indices
  PROVE  LET e == Images(reader.header)[i]
         IN  /\ reader /= None /\ IsData(e.data)
             /\ e.profiles /= <<>> => IsData(Head(e.profiles))
             /\ Thumbnail(e) /= None => IsData(Thumbnail(e).data)
<1> DEFINE h == reader.header
           e == Images(h)[i]
<1>1. reader /= None /\ i \in DOMAIN Images(h)
  BY DEF Indices
<1>2. IsHeader(h)
  BY <1>1, FilesOpenable, HeaderIsHeader DEF PlaceInv
<1>3. e \in ToSet(h.images)
  <2>1. Images(h) \in Seq(ToSet(h.images))
    BY <1>2, ImagesAre DEF IsHeader
  <2> QED BY <1>1, <2>1
<1> HIDE DEF h, e
<1>4. /\ IsData(e.data) /\ IsList(e.profiles) /\ IsList(e.thumbnails)
      /\ \A d \in ToSet(e.profiles) : IsData(d)
      /\ \A t \in ToSet(e.thumbnails) : t.parses => IsData(t.data)
  BY <1>2, <1>3 DEF IsHeader
<1>5. ASSUME NEW s, IsList(s), s /= <<>>
      PROVE  Head(s) \in ToSet(s)
  BY <1>5 DEF IsList
<1>6. Thumbnail(e) /= None =>
        Thumbnail(e) = Head(e.thumbnails) /\ e.thumbnails /= <<>> /\ Head(e.thumbnails).parses
  BY DEF Thumbnail
<1> QED BY <1>1, <1>4, <1>5, <1>6 DEF e, h

LEMMA PropertyAsked ==
  ASSUME PlaceInv, reader /= None, NEW id, Find(Properties(reader.header), id) /= None
  PROVE  IsData(Find(Properties(reader.header), id).data)
<1>1. IsHeader(reader.header)
  BY FilesOpenable, HeaderIsHeader DEF PlaceInv
<1>2. Properties(reader.header) \in Seq(ToSet(reader.header.properties))
  BY <1>1, PropertiesAre DEF IsHeader
<1>3. Find(Properties(reader.header), id) \in ToSet(reader.header.properties)
  BY <1>2, FoundIs
<1> QED BY <1>1, <1>3 DEF IsHeader

LEMMA PlaceStep ==
  ASSUME PlaceInv, RustNext
  PROVE  PlaceInv'
<1>1. CASE OpenFile
  <2>1. PICK f \in Files : Opened(OpenPath(f))
    BY <1>1 DEF OpenFile
  <2>2. OpenPath(f).ok => f \in RustFiles /\ OpenPath(f) = OpenBytes(f, TRUE)
    BY DEF OpenPath, Bad, RustFiles
  <2> QED BY <2>1, <2>2, OpenedPlace
<1>2. CASE FromBytes
  <2>1. PICK f \in Files \ {None} : Opened(OpenBytes(f, FALSE))
    BY <1>2 DEF FromBytes
  <2> QED BY <2>1, OpenedPlace DEF RustFiles
<1>3. CASE ImageBytes
  <2>1. PICK i \in Indices :
          Answer("bytes", [image |-> i, data |-> Images(reader.header)[i].data],
                 Block(reader, Images(reader.header)[i].data))
    BY <1>3 DEF ImageBytes
  <2>2. reader' = reader
    BY <1>3 DEF ImageBytes
  <2> QED BY <2>1, <2>2, ElementsAsked, AnswerPlace
<1>4. CASE ReadImage
  <2>1. PICK i \in Indices, type \in SampleTypes :
          Answer("read", [image |-> i, data |-> Images(reader.header)[i].data],
                 ReadAs(reader, Images(reader.header)[i], type))
    BY <1>4 DEF ReadImage
  <2>2. reader' = reader
    BY <1>4 DEF ReadImage
  <2> DEFINE e == Images(reader.header)[i]
             a == ReadAs(reader, e, type)
  <2>3. a.ok => a = Block(reader, e.data) /\ a.value.length = e.image.size
    BY DEF ReadAs, Bad
  <2>4. reader /= None /\ IsData(e.data)
    BY ElementsAsked
  <2> HIDE DEF e, a
  <2>5. Answer("read", [image |-> i, data |-> e.data], a)
    BY <2>1 DEF e, a
  <2> QED BY <2>2, <2>3, <2>4, <2>5, AnswerPlace DEF e
<1>5. CASE IccProfile
  <2>1. PICK i \in Indices : Images(reader.header)[i].profiles /= <<>> /\
          Aside("icc_profile", Head(Images(reader.header)[i].profiles),
                Block(reader, Head(Images(reader.header)[i].profiles)))
    BY <1>5 DEF IccProfile
  <2> QED BY <2>1, ElementsAsked, AnswerPlace DEF Aside
<1>6. CASE ThumbnailBytes
  <2>1. PICK i \in Indices : Thumbnail(Images(reader.header)[i]) /= None /\
          Aside("thumbnail", Thumbnail(Images(reader.header)[i]).data,
                Block(reader, Thumbnail(Images(reader.header)[i]).data))
    BY <1>6 DEF ThumbnailBytes
  <2> QED BY <2>1, ElementsAsked, AnswerPlace DEF Aside
<1>7. CASE PropertyRead
  <2>1. PICK id \in Ids, type \in SampleTypes : Find(Properties(reader.header), id) /= None /\
          Aside("property", Find(Properties(reader.header), id).data,
                ReadProperty(reader, Find(Properties(reader.header), id), type))
    BY <1>7 DEF PropertyRead
  <2> DEFINE p == Find(Properties(reader.header), id)
             a == ReadProperty(reader, p, type)
  <2>2. a.ok => a = Block(reader, p.data)
    BY DEF ReadProperty, Bad
  <2>3. reader /= None /\ IsData(p.data)
    BY <1>7, <2>1, PropertyAsked DEF PropertyRead
  <2> HIDE DEF p, a
  <2>4. Aside("property", p.data, a)
    BY <2>1 DEF p, a
  <2> QED BY <2>2, <2>3, <2>4, AnswerPlace DEF Aside
<1>8. CASE VerifyImage
  <2>1. UNCHANGED <<reader, last>>
    BY <1>8 DEF VerifyImage
  <2> QED BY <2>1 DEF PlaceInv
<1> QED BY <1>1, <1>2, <1>3, <1>4, <1>5, <1>6, <1>7, <1>8, SwitchPlace DEF RustNext

LEMMA PlaceInductive == Spec => []PlaceInv
<1>1. Init => PlaceInv
  BY PlaceInit DEF Init
<1>2. PlaceInv /\ [Next]_vars => PlaceInv'
  <2> SUFFICES ASSUME PlaceInv, [Next]_vars PROVE PlaceInv'
    OBVIOUS
  <2>1. CASE RustNext
    BY <2>1, PlaceStep
  <2>2. CASE UNCHANGED rust
    BY <2>2 DEF rust, PlaceInv
  <2> QED BY <2>1, <2>2 DEF Next, Stopped, vars
<1> QED BY <1>1, <1>2, PTL DEF Spec

\* Whatever is asked and however the switches lie, the bytes a Rust program is given are those
\* its image's location names (reader.rs:238-318, 446-513, lib.rs:82-120).
THEOREM BytesAreOfTheirPlace == Spec => []ServedFromItsPlace
<1>1. PlaceInv => ServedFromItsPlace
  BY DEF PlaceInv, ServedFromItsPlace, FromItsPlace
<1> QED BY <1>1, PlaceInductive, PTL

-----------------------------------------------------------------------------
(* Types: the kinds of errors, and the lengths of blocks.                  *)

\* An error is of one of the kinds of the library.
LEMMA ExtractedKinds ==
  ASSUME NEW resource, NEW name, NEW index
  PROVE  Result(Extracted(resource, name, index))
BY DEF Extracted, Result, ErrorKinds, Good, Bad

LEMMA StoredKinds ==
  ASSUME NEW r, NEW d
  PROVE  Result(StoredUnchecked(r, d))
<1> DEFINE l == d.location
<1>1. Result(Attached(r, l)) /\ Result(DecodeText(d.text))
  BY DEF Attached, DecodeText, Result, ErrorKinds, Good, Bad
<1>2. Result(Resolve(r, l.locator))
  BY DEF Resolve, Beside, Result, ErrorKinds, Good, Bad
<1>3. ASSUME NEW path PROVE Result(ReadExternal(path, l.index))
  BY ExtractedKinds DEF ReadExternal, Result, ErrorKinds, Bad
<1>4. Result(Fetched(r, l.url, l.index))
  BY ExtractedKinds DEF Fetched, Result, ErrorKinds, Bad
<1>5. Result(Bad("NotFound")) /\ Result(Bad("BadAttribute"))
  BY DEF Result, ErrorKinds, Bad
<1> QED BY <1>1, <1>2, <1>3, <1>4, <1>5 DEF StoredUnchecked

LEMMA BlockKinds ==
  ASSUME NEW r, NEW d
  PROVE  Result(Block(r, d)) /\ Result(Verify(r, d))
<1>1. Result(StoredBlock(r, d))
  BY StoredKinds DEF StoredBlock, Result, ErrorKinds, Bad
<1>2. \A s : Result(Decode(s, d.compression))
  BY DEF Decode, Result, ErrorKinds, Good, Bad
<1>3. \A value : Result(Good(value))
  BY DEF Result, Good
<1> QED BY <1>1, <1>2, <1>3, StoredKinds DEF Block, Verify

LEMMA ReadKinds ==
  ASSUME NEW r, NEW e, NEW type
  PROVE  Result(ReadAs(r, e, type)) /\ Result(ReadProperty(r, e, type))
<1>1. \A error \in {"InvalidArgument", "Unsupported", "Truncated"} : Result(Bad(error))
  BY DEF Result, ErrorKinds, Bad
<1> QED BY <1>1, BlockKinds DEF ReadAs, ReadProperty

LEMMA OpenKinds ==
  ASSUME NEW files, Openable(files), NEW f \in files, NEW beside
  PROVE  Result(OpenBytes(f, beside))
<1>1. Result(Scan(f))
  BY DEF Scan, Result, ErrorKinds, Good, Bad
<1>2. Result(ParseHeader(f))
  BY DEF ParseHeader, Openable, IsFile, Result, ErrorKinds, Bad
<1>3. \A value : Result(Good(value))
  BY DEF Result, Good
<1> QED BY <1>1, <1>2, <1>3 DEF OpenBytes

\* The length of a block is a number.
LEMMA ExtractedLength ==
  ASSUME NEW resource, IsResource(resource), resource.kind /= "directory", NEW name, NEW index,
         Extracted(resource, name, index).ok
  PROVE  Extracted(resource, name, index).value.length \in Nat
BY DEF IsResource, Extracted, Good, Bad, Bytes

LEMMA StoredLength ==
  ASSUME NEW r, NEW d, IsData(d), StoredUnchecked(r, d).ok
  PROVE  StoredUnchecked(r, d).value.length \in Nat
<1> DEFINE l == d.location
           s == StoredUnchecked(r, d)
<1>1. l /= None /\ IsLocation(l)
  BY DEF StoredUnchecked, Bad, IsData
<1>2. CASE l.kind = "Attachment"
  BY <1>1, <1>2 DEF IsLocation, StoredUnchecked, Attached, Good, Bad, Bytes
<1>3. CASE l.kind \in {"Inline", "Embedded"}
  <2>1. s = DecodeText(d.text)
    BY <1>1, <1>3 DEF StoredUnchecked
  <2>2. d.text /= None => d.text.length \in Nat
    BY DEF IsData
  <2> QED BY <2>1, <2>2 DEF DecodeText, Good, Bad, Bytes
<1>4. CASE l.kind = "Path"
  <2> DEFINE path == Resolve(r, l.locator).value
  <2>1. s = ReadExternal(path, l.index)
    BY <1>1, <1>4 DEF StoredUnchecked, Bad
  <2>2. path \in DOMAIN Disk /\ Disk[path].kind /= "directory" /\ s = Extracted(Disk[path], path, l.index)
    BY <2>1 DEF ReadExternal, Bad
  <2> HIDE DEF path
  <2>3. IsResource(Disk[path])
    BY <2>2, ReaderAssumption
  <2> QED BY <2>2, <2>3, ExtractedLength
<1>5. CASE l.kind = "Url"
  <2>1. s = Fetched(r, l.url, l.index)
    BY <1>1, <1>5 DEF StoredUnchecked, Bad
  <2>2. l.url \in DOMAIN Web /\ s = Extracted(Web[l.url], l.url, l.index)
    BY <2>1 DEF Fetched, Bad
  <2>3. IsResource(Web[l.url])
    BY <2>2, ReaderAssumption
  <2>4. Web[l.url].kind /= "directory"
    BY <2>3 DEF IsResource
  <2> QED BY <2>2, <2>3, <2>4, ExtractedLength
<1> QED BY <1>1, <1>2, <1>3, <1>4, <1>5 DEF IsLocation

LEMMA BlockLength ==
  ASSUME NEW r, NEW d, IsData(d), Block(r, d).ok
  PROVE  Block(r, d).value.length \in Nat
<1> DEFINE s == StoredUnchecked(r, d)
           b == Block(r, d)
<1>1. s.ok /\ StoredBlock(r, d) = s
  BY DEF Block, StoredBlock, Bad
<1>2. s.value.length \in Nat
  BY <1>1, StoredLength
<1>3. CASE d.compression = None
  BY <1>1, <1>2, <1>3 DEF Block
<1>4. CASE d.compression /= None
  <2>1. d.compression.size \in Nat
    BY <1>4 DEF IsData
  <2>2. b.value = [s.value EXCEPT !.plain = TRUE, !.length = d.compression.size]
    BY <1>1, <1>4 DEF Block, Decode, Good, Bad
  <2>3. "length" \in DOMAIN s.value
    BY <1>1 DEF StoredUnchecked, Attached, DecodeText, ReadExternal, Fetched, Extracted, Bytes, Good, Bad
  <2> QED BY <2>1, <2>2, <2>3
<1> QED BY <1>3, <1>4

-----------------------------------------------------------------------------
(* A Rust program.                                                         *)

\* What a Rust program has been told, by type.
RustTypes ==
  /\ DOMAIN verdict = Indices
  /\ \A i \in Indices : verdict[i] = None \/ Result(verdict[i])
  /\ last = None \/ Result(last.answer)

LEMMA RustTypesInit == RustInit => RustTypes
BY DEF RustInit, RustTypes, Indices

LEMMA OpenedTypes ==
  ASSUME NEW f, NEW beside \in BOOLEAN, NEW r, Opened(r), Result(r),
         r.ok => f \in RustFiles /\ r = OpenBytes(f, beside)
  PROVE  RustTypes'
<1>1. /\ reader' = IF r.ok THEN r.value ELSE None
      /\ verdict' = IF r.ok THEN [i \in DOMAIN Images(r.value.header) |-> None] ELSE <<>>
      /\ last'.answer = r
  BY DEF Opened, Answer
<1>2. r.ok => r.value /= None
  BY FilesOpenable, OpenIsReader
<1>3. CASE r.ok
  BY <1>1, <1>2, <1>3 DEF RustTypes, Indices
<1>4. CASE ~r.ok
  BY <1>1, <1>4 DEF RustTypes, Indices
<1> QED BY <1>3, <1>4

LEMMA AnswerTypes ==
  ASSUME RustTypes, UNCHANGED <<reader, verdict>>, NEW call, NEW asked, NEW answer,
         Answer(call, asked, answer), Result(answer)
  PROVE  RustTypes'
<1>1. last'.answer = answer
  BY DEF Answer
<1> QED BY <1>1 DEF RustTypes, Indices

LEMMA RustTypesStep ==
  ASSUME PlaceInv, RustTypes, RustNext
  PROVE  RustTypes'
<1>1. CASE OpenFile
  <2>1. PICK f \in Files : Opened(OpenPath(f))
    BY <1>1 DEF OpenFile
  <2>2. OpenPath(f).ok => f \in RustFiles /\ OpenPath(f) = OpenBytes(f, TRUE)
    BY DEF OpenPath, Bad, RustFiles
  <2>3. Result(OpenPath(f))
    BY FilesOpenable, OpenKinds DEF OpenPath, Bad, RustFiles, Result, ErrorKinds
  <2> QED BY <2>1, <2>2, <2>3, OpenedTypes
<1>2. CASE FromBytes
  <2>1. PICK f \in Files \ {None} : Opened(OpenBytes(f, FALSE))
    BY <1>2 DEF FromBytes
  <2>2. Result(OpenBytes(f, FALSE))
    BY FilesOpenable, OpenKinds DEF RustFiles
  <2> QED BY <2>1, <2>2, OpenedTypes DEF RustFiles
<1>3. CASE Switch
  <2>1. PICK on \in BOOLEAN :
          reader' \in {SetVerify(reader, on), SetResolver(reader, on), FollowAbsolute(reader, on)}
    BY <1>3 DEF Switch
  <2>2. reader /= None /\ UNCHANGED <<verdict, last>> /\ IsReader(RustFiles, reader)
    BY <1>3 DEF Switch, PlaceInv
  <2>3. reader' \in Readers(RustFiles) /\ reader'.header = reader.header
    BY <2>1, <2>2 DEF IsReader, Readers, SetVerify, SetResolver, FollowAbsolute
  <2>4. reader' /= None
    BY <2>3, FilesOpenable DEF Openable
  <2> QED BY <2>2, <2>3, <2>4 DEF RustTypes, Indices
<1>4. CASE ImageBytes
  BY <1>4, AnswerTypes, BlockKinds DEF ImageBytes
<1>5. CASE ReadImage
  BY <1>5, AnswerTypes, ReadKinds DEF ReadImage
<1>6. CASE VerifyImage
  <2>1. PICK i \in Indices : verdict' = [verdict EXCEPT ![i] = Verify(reader, Images(reader.header)[i].data)]
    BY <1>6 DEF VerifyImage
  <2>2. UNCHANGED <<reader, last>> /\ Indices' = Indices
    BY <1>6 DEF VerifyImage, Indices
  <2> QED BY <2>1, <2>2, BlockKinds DEF RustTypes
<1>7. CASE IccProfile
  BY <1>7, AnswerTypes, BlockKinds DEF IccProfile, Aside
<1>8. CASE ThumbnailBytes
  BY <1>8, AnswerTypes, BlockKinds DEF ThumbnailBytes, Aside
<1>9. CASE PropertyRead
  <2>1. PICK id \in Ids, type \in SampleTypes :
          Aside("property", Find(Properties(reader.header), id).data,
                ReadProperty(reader, Find(Properties(reader.header), id), type))
    BY <1>9 DEF PropertyRead
  <2> QED BY <2>1, AnswerTypes, ReadKinds DEF Aside
<1> QED BY <1>1, <1>2, <1>3, <1>4, <1>5, <1>6, <1>7, <1>8, <1>9 DEF RustNext

-----------------------------------------------------------------------------
(* A C program.                                                            *)

\* What its file object is, and the buffers it was given.
CTypes ==
  /\ lists \in Nat
  /\ file /= None => IsReader(CFiles \ {None}, file.reader)
  /\ \A t \in Threads : buffer[t] = None \/ buffer[t] \in Nat

LEMMA CTypesInit == CInit => CTypes
BY DEF CInit, CTypes

LEMMA CTypesUntouched ==
  ASSUME CTypes, UNCHANGED <<file, lists, buffer>>
  PROVE  CTypes'
BY DEF CTypes

LEMMA CFilesOpenable == Openable(CFiles \ {None})
BY CFilesAssumption

LEMMA EntryIsData ==
  ASSUME HandlesInv, ApisInv, CTypes, NEW t \in Threads, held[t] /= None
  PROVE  IsData(Entry(t).data)
<1> DEFINE h == file.reader.header
           e == Images(h)[held[t].entry]
<1>1. file /= None /\ Entry(t).data = e.data /\ held[t].entry \in DOMAIN Images(h)
  <2>1. file /= None /\ held[t].entry \in DOMAIN file.images
    BY DEF HandlesInv, HandlesStay
  <2> QED BY <2>1, EntriesAreImages, EntryIsImage DEF ApisInv
<1>2. IsHeader(h)
  BY <1>1, CFilesOpenable, HeaderIsHeader DEF CTypes
<1>3. e \in ToSet(h.images)
  <2>1. Images(h) \in Seq(ToSet(h.images))
    BY <1>2, ImagesAre DEF IsHeader
  <2> QED BY <1>1, <2>1
<1> HIDE DEF h, e
<1> QED BY <1>1, <1>2, <1>3 DEF IsHeader

LEMMA COpenTypes ==
  ASSUME CTypes, NEW t \in Threads, COpen(t)
  PROVE  CTypes'
<1>1. PICK call, r : OpenWith(t, call, r) /\ (r.ok => IsReader(CFiles \ {None}, r.value))
  <2>1. CASE \E f \in CFiles : OpenWith(t, "xisf_open", OpenPath(f))
    <3>1. PICK f \in CFiles : OpenWith(t, "xisf_open", OpenPath(f))
      BY <2>1
    <3>2. OpenPath(f).ok => f \in CFiles \ {None} /\ OpenPath(f) = OpenBytes(f, TRUE)
      BY DEF OpenPath, Bad
    <3> QED BY <3>1, <3>2, CFilesOpenable, OpenIsReader
  <2>2. CASE \E f \in CFiles \ {None} : OpenWith(t, "xisf_open_memory", OpenBytes(f, FALSE))
    BY <2>2, CFilesOpenable, OpenIsReader
  <2>3. CASE OpenWith(t, "xisf_open", Bad("InvalidArgument"))
    <3>1. ~Bad("InvalidArgument").ok
      BY DEF Bad
    <3> QED BY <2>3, <3>1
  <2> QED BY <2>1, <2>2, <2>3 DEF COpen
<1>2. /\ file' = IF r.ok THEN Build(r.value) ELSE None
      /\ lists' = 0 /\ buffer' = buffer
  BY <1>1 DEF OpenWith
<1>3. Build(r.value).reader = r.value
  BY DEF Build
<1>4. file' /= None => IsReader(CFiles \ {None}, file'.reader)
  BY <1>1, <1>2, <1>3
<1> QED BY <1>2, <1>4 DEF CTypes

LEMMA ReadAllocTypes ==
  ASSUME HandlesInv, ApisInv, CTypes, NEW t \in Threads, ReadAlloc(t)
  PROVE  CTypes'
<1>1. PICK r \in {CReadAlloc(t)} \cup (IF CReadAlloc(t).ok THEN {Bad("OutOfMemory")} ELSE {}) :
        buffer' = [buffer EXCEPT ![t] = IF r.ok THEN r.value.length ELSE None]
  BY DEF ReadAlloc
<1>2. UNCHANGED <<file, lists>>
  BY DEF ReadAlloc
<1>3. r.ok => r.value.length \in Nat
  <2>1. CReadAlloc(t).ok => CReadAlloc(t).value.length \in Nat
    BY EntryIsData, BlockLength DEF CReadAlloc, Resolves, Bad
  <2>2. ~Bad("OutOfMemory").ok
    BY DEF Bad
  <2> QED BY <1>1, <2>1, <2>2
<1>4. \A u \in Threads : buffer'[u] = buffer[u] \/ buffer'[u] = None \/ buffer'[u] \in Nat
  BY <1>1, <1>3
<1> QED BY <1>2, <1>4 DEF CTypes

LEMMA CTypesStep ==
  ASSUME HandlesInv, ApisInv, CTypes, CNext
  PROVE  CTypes'
<1>1. PICK t \in Threads :
        \/ COpen(t) \/ CClose(t) \/ AskHandle(t) \/ BeginHandles(t) \/ FinishHandles(t)
        \/ ReadInto(t) \/ ReadAlloc(t) \/ Free(t) \/ VerifyHandle(t) \/ Ask(t)
  BY DEF CNext
<1>2. CASE CClose(t)
  BY <1>2 DEF CClose, CTypes
<1>3. CASE AskHandle(t)
  BY <1>3, CTypesUntouched DEF AskHandle, Lend
<1>4. CASE FinishHandles(t)
  BY <1>4 DEF FinishHandles, Lend, CTypes
<1>5. CASE BeginHandles(t) \/ ReadInto(t) \/ VerifyHandle(t) \/ Ask(t)
  BY <1>5, CTypesUntouched DEF BeginHandles, ReadInto, VerifyHandle, Ask
<1>6. CASE Free(t)
  <2>1. \A u \in Threads : buffer'[u] = buffer[u] \/ buffer'[u] = None
    BY <1>6 DEF Free
  <2> QED BY <1>6, <2>1 DEF Free, CTypes
<1> QED BY <1>1, <1>2, <1>3, <1>4, <1>5, <1>6, COpenTypes, ReadAllocTypes

-----------------------------------------------------------------------------
(* The tool.                                                               *)

ToolFiles == (UNION {ToSet(line.files) : line \in CommandLines}) \ {None}

Given(k) == OpenPath(typed.files[k])

\* What the tool is at work on: the file after those that are done.
ToolTypes ==
  /\ typed \in CommandLines
  /\ at \in 0 .. Len(typed.files)
  /\ opened /= None =>
       /\ at < Named /\ at < Len(typed.files)
       /\ Given(at + 1).ok /\ opened = Given(at + 1).value
       /\ IsReader(ToolFiles, opened)
       /\ next \in 0 .. Len(Images(opened.header))
  /\ exit \in {"none", "SUCCESS", "FAILURE"}

LEMMA ToolFilesOpenable == Openable(ToolFiles)
BY CommandLinesAssumption DEF ToolFiles

LEMMA FilesOfLine ==
  ASSUME NEW line \in CommandLines
  PROVE  /\ Len(line.files) \in Nat /\ (line.files /= <<>> => 1 <= Len(line.files))
         /\ \A k \in 1 .. Len(line.files) : line.files[k] /= None => line.files[k] \in ToolFiles
<1>1. line.files \in Seq(ToSet(line.files))
  BY CommandLinesAssumption DEF IsList
<1>2. \A f \in ToSet(line.files) : f /= None => f \in ToolFiles
  BY DEF ToolFiles
<1> QED BY <1>1, <1>2

\* A file that can be opened, and what is opened.
LEMMA GivenIsReader ==
  ASSUME typed \in CommandLines, NEW k \in 1 .. Len(typed.files), Given(k).ok
  PROVE  /\ IsReader(ToolFiles, Given(k).value) /\ Given(k).value /= None
         /\ Len(Images(Given(k).value.header)) \in Nat
<1>1. typed.files[k] /= None /\ Given(k) = OpenBytes(typed.files[k], TRUE)
  BY DEF Given, OpenPath, Bad
<1>2. IsReader(ToolFiles, Given(k).value) /\ Given(k).value /= None
  BY <1>1, FilesOfLine, ToolFilesOpenable, OpenIsReader
<1>3. IsHeader(Given(k).value.header)
  BY <1>2, ToolFilesOpenable, HeaderIsHeader
<1>4. Images(Given(k).value.header) \in Seq(ToSet(Given(k).value.header.images))
  BY <1>3, ImagesAre DEF IsHeader
<1> QED BY <1>2, <1>4

LEMMA ToolTypesInit == ToolInit => ToolTypes
<1> SUFFICES ASSUME ToolInit PROVE ToolTypes
  OBVIOUS
<1>1. typed \in CommandLines /\ at = 0 /\ opened = None /\ exit = "none"
  BY DEF ToolInit
<1>2. Len(typed.files) \in Nat
  BY <1>1, FilesOfLine
<1> QED BY <1>1, <1>2 DEF ToolTypes

LEMMA ToolTypesExit ==
  ASSUME ToolTypes, NEW code \in {"SUCCESS", "FAILURE"}, Exit(code)
  PROVE  ToolTypes'
<1>1. UNCHANGED <<typed, at, opened, next>> /\ exit' = code
  BY DEF Exit
<1> QED BY <1>1 DEF ToolTypes, Named, Given

LEMMA ToolTypesDone ==
  ASSUME ToolTypes, opened /= None, NEW written, FileDone(written)
  PROVE  ToolTypes'
<1>1. at' = at + 1 /\ opened' = None /\ UNCHANGED <<typed, exit>>
  BY DEF FileDone
<1>2. at \in Nat /\ at < Len(typed.files) /\ Len(typed.files) \in Nat
  BY FilesOfLine DEF ToolTypes
<1>3. at' \in 0 .. Len(typed'.files)
  BY <1>1, <1>2
<1> QED BY <1>1, <1>3 DEF ToolTypes

LEMMA OpenNextTypes ==
  ASSUME ToolTypes, OpenNext
  PROVE  ToolTypes'
<1>1. Working /\ opened = None /\ at < Named
  BY DEF OpenNext
<1>2. CASE Exit("FAILURE")
  BY <1>2, ToolTypesExit
<1>3. CASE /\ Given(at + 1).ok /\ opened' = Given(at + 1).value /\ next' = 0
           /\ UNCHANGED <<typed, at, counts, output, exit>>
  <2>1. typed \in CommandLines /\ at \in Nat /\ typed.files /= <<>>
    BY <1>1 DEF ToolTypes, Working
  <2>2. Len(typed.files) \in Nat /\ 1 <= Len(typed.files)
    BY <2>1, FilesOfLine
  <2>3. at < Len(typed.files)
    BY <1>1, <2>1, <2>2 DEF Named
  <2>4. at + 1 \in 1 .. Len(typed.files)
    BY <2>1, <2>2, <2>3
  <2>5. IsReader(ToolFiles, opened') /\ opened' /= None /\ Len(Images(opened'.header)) \in Nat
    BY <1>3, <2>1, <2>4, GivenIsReader
  <2>6. next' \in 0 .. Len(Images(opened'.header))
    BY <1>3, <2>5
  <2>7. Named' = Named /\ Given(at + 1)' = Given(at + 1)
    BY <1>3 DEF Named, Given
  <2>8. at' = at /\ typed' = typed /\ exit' = exit
    BY <1>3
  <2> QED BY <1>1, <1>3, <2>3, <2>5, <2>6, <2>7, <2>8 DEF ToolTypes
<1> QED BY <1>2, <1>3 DEF OpenNext, Given

LEMMA VerifyNextTypes ==
  ASSUME ToolTypes, VerifyNext
  PROVE  ToolTypes'
<1>1. /\ opened /= None /\ next < Len(Images(opened.header)) /\ next' = next + 1
      /\ UNCHANGED <<typed, at, opened, exit>>
  BY DEF VerifyNext
<1>2. at + 1 \in 1 .. Len(typed.files) /\ typed \in CommandLines /\ Given(at + 1).ok
      /\ opened = Given(at + 1).value /\ next \in Nat
  <2>1. at \in Nat /\ at < Len(typed.files) /\ typed \in CommandLines
    BY <1>1 DEF ToolTypes
  <2>2. Len(typed.files) \in Nat
    BY <2>1, FilesOfLine
  <2> QED BY <1>1, <2>1, <2>2 DEF ToolTypes
<1>3. Len(Images(opened.header)) \in Nat
  BY <1>2, GivenIsReader
<1>4. next' \in 0 .. Len(Images(opened'.header))
  BY <1>1, <1>2, <1>3
<1>5. Named' = Named /\ Given(at + 1)' = Given(at + 1)
  BY <1>1 DEF Named, Given
<1> QED BY <1>1, <1>4, <1>5 DEF ToolTypes

LEMMA ToolTypesStep ==
  ASSUME ToolTypes, ToolNext
  PROVE  ToolTypes'
<1>1. CASE Usage
  BY <1>1, ToolTypesExit DEF Usage
<1>2. CASE VerifyDone
  BY <1>2, ToolTypesDone DEF VerifyDone
<1>3. CASE Info
  BY <1>3, ToolTypesDone DEF Info
<1>4. CASE Header
  BY <1>4, ToolTypesDone DEF Header
<1>5. CASE Dump
  BY <1>5, ToolTypesDone, ToolTypesExit DEF Dump
<1>6. CASE Conclude
  BY <1>6, ToolTypesExit DEF Conclude
<1> QED BY <1>1, <1>2, <1>3, <1>4, <1>5, <1>6, OpenNextTypes, VerifyNextTypes DEF ToolNext

LEMMA TypesInductive == Spec => [](RustTypes /\ CTypes /\ ToolTypes)
<1>1. Init => RustTypes /\ CTypes /\ ToolTypes
  BY RustTypesInit, CTypesInit, ToolTypesInit DEF Init
<1>2. RustTypes /\ PlaceInv /\ [Next]_vars => RustTypes'
  <2> SUFFICES ASSUME RustTypes, PlaceInv, [Next]_vars PROVE RustTypes'
    OBVIOUS
  <2>1. CASE RustNext
    BY <2>1, RustTypesStep
  <2>2. CASE UNCHANGED rust
    BY <2>2 DEF rust, RustTypes, Indices
  <2> QED BY <2>1, <2>2 DEF Next, Stopped, vars
<1>3. CTypes /\ HandlesInv /\ ApisInv /\ [Next]_vars => CTypes'
  <2> SUFFICES ASSUME CTypes, HandlesInv, ApisInv, [Next]_vars PROVE CTypes'
    OBVIOUS
  <2>1. CASE CNext
    BY <2>1, CTypesStep
  <2>2. CASE UNCHANGED capi
    BY <2>2, CTypesUntouched DEF capi
  <2> QED BY <2>1, <2>2 DEF Next, Stopped, vars
<1>4. ToolTypes /\ [Next]_vars => ToolTypes'
  <2> SUFFICES ASSUME ToolTypes, [Next]_vars PROVE ToolTypes'
    OBVIOUS
  <2>1. CASE ToolNext
    BY <2>1, ToolTypesStep
  <2>2. CASE UNCHANGED tool
    BY <2>2 DEF tool, ToolTypes, Named, Given
  <2> QED BY <2>1, <2>2 DEF Next, Stopped, vars
<1> QED BY <1>1, <1>2, <1>3, <1>4, PlaceInductive, HandlesInductive, ApisInductive, PTL DEF Spec

\* Types hold in every order of the calls of each of the three programs, with a verdict for
\* each image of the reader and the file open under a thread that builds.
THEOREM SessionIsTyped == Spec => []TypeOK
<1>1. RustTypes /\ CTypes /\ ToolTypes /\ HandlesInv /\ ApisInv => TypeOK
  <2> SUFFICES ASSUME RustTypes, CTypes, ToolTypes, HandlesInv, ApisInv PROVE TypeOK
    OBVIOUS
  <2>1. /\ DOMAIN verdict = Indices
        /\ \A i \in Indices : verdict[i] = None \/ Result(verdict[i])
        /\ last = None \/ Result(last.answer)
    BY DEF RustTypes
  <2>2. /\ once \in Threads \cup {"empty", "built"}
        /\ step \in [Threads -> {"none", "building"}]
        /\ \A t \in Threads : step[t] = "building" => file /= None /\ once = t
    BY DEF HandlesInv, LockHeld
  <2>3. lists \in Nat /\ \A t \in Threads : buffer[t] = None \/ buffer[t] \in Nat
    BY DEF CTypes
  <2>4. ImageCount = IF file = None THEN 0 ELSE Len(Images(file.reader.header))
    <3>1. ASSUME file /= None PROVE Len(file.images) = Len(Images(file.reader.header))
      <4> DEFINE h == file.reader.header
      <4>1. IsHeader(h)
        BY <3>1, CFilesOpenable, HeaderIsHeader DEF CTypes
      <4>2. Images(h) \in Seq(ToSet(h.images))
        BY <4>1, ImagesAre DEF IsHeader
      <4>3. file.images = [i \in DOMAIN Images(h) |->
                             [image |-> Images(h)[i].image, data |-> Images(h)[i].data]]
        BY <3>1, EntriesAreImages DEF ApisInv
      <4>4. PICK n \in Nat : n = Len(Images(h)) /\ DOMAIN Images(h) = 1 .. n
        BY <4>2
      <4> HIDE DEF h
      <4>5. DOMAIN file.images = 1 .. n
        BY <4>3, <4>4
      <4>6. file.images \in Seq({file.images[i] : i \in 1 .. n}) /\ Len(file.images) = n
        BY <4>3, <4>4
      <4> QED BY <4>4, <4>6 DEF h
    <3> QED BY <3>1 DEF ImageCount
  <2>5. /\ at \in 0 .. Len(typed.files)
        /\ opened /= None => at < Len(typed.files) /\ next \in 0 .. Len(Images(opened.header))
        /\ exit \in {"none", "SUCCESS", "FAILURE"}
    BY DEF ToolTypes
  <2> QED BY <2>1, <2>2, <2>3, <2>4, <2>5 DEF TypeOK
<1> QED BY <1>1, TypesInductive, HandlesInductive, ApisInductive, PTL

-----------------------------------------------------------------------------
(* A sum over a set, in whatever order it is taken.                        *)

\* The elements of the sets R[k], each with its k.
Pairs(R, s) == UNION {{k} \X R[k] : k \in s}

\* FoldSet, for a sum of cardinalities over the subsets of K.
Sums(sum, K, R) ==
  sum = [s \in SUBSET K |-> IF s = {} THEN 0
                            ELSE LET x == CHOOSE x \in s : TRUE IN Cardinality(R[x]) + sum[s \ {x}]]

LEMMA PairsFinite ==
  ASSUME NEW R, NEW s, IsFiniteSet(s), \A k \in s : IsFiniteSet(R[k])
  PROVE  IsFiniteSet(Pairs(R, s))
<1>1. IsFiniteSet({{k} \X R[k] : k \in s})
  <2> DEFINE T == {{k} \X R[k] : k \in s}
             f == [k \in s |-> {k} \X R[k]]
  <2>1. f \in Surjection(s, T)
    BY DEF Surjection
  <2> QED BY <2>1, FS_Surjection
<1>2. \A k \in s : IsFiniteSet({k} \X R[k])
  BY FS_Singleton, FS_Product
<1> QED BY <1>1, <1>2, FS_UNION DEF Pairs

LEMMA PairsAdd ==
  ASSUME NEW R, NEW s, IsFiniteSet(s), \A k \in s : IsFiniteSet(R[k]), NEW x \in s
  PROVE  Cardinality(Pairs(R, s)) = Cardinality(R[x]) + Cardinality(Pairs(R, s \ {x}))
<1> DEFINE own == {x} \X R[x]
           rest == Pairs(R, s \ {x})
<1>1. Pairs(R, s) = own \cup rest /\ own \cap rest = {}
  BY DEF Pairs
<1>2. IsFiniteSet(s \ {x}) /\ \A k \in s \ {x} : IsFiniteSet(R[k])
  BY FS_RemoveElement
<1>3. IsFiniteSet(rest)
  BY <1>2, PairsFinite
<1>4. IsFiniteSet(own) /\ Cardinality(own) = Cardinality(R[x])
  <2>1. IsFiniteSet({x}) /\ Cardinality({x}) = 1 /\ IsFiniteSet(R[x])
    BY FS_Singleton
  <2>2. Cardinality(R[x]) \in Nat
    BY <2>1, FS_CardinalityType
  <2>3. IsFiniteSet(own) /\ Cardinality(own) = Cardinality({x}) * Cardinality(R[x])
    BY <2>1, FS_Product
  <2> HIDE DEF own
  <2> QED BY <2>1, <2>2, <2>3
<1>5. Cardinality(own) \in Nat /\ Cardinality(rest) \in Nat
  BY <1>3, <1>4, FS_CardinalityType
<1> HIDE DEF own, rest
<1>6. Cardinality(own \cup rest) = Cardinality(own) + Cardinality(rest) - Cardinality({})
  BY <1>1, <1>3, <1>4, FS_Union
<1> QED BY <1>1, <1>4, <1>5, <1>6, FS_EmptySet DEF rest

LEMMA SumsExist ==
  ASSUME NEW K, IsFiniteSet(K), NEW R, \A k \in K : IsFiniteSet(R[k])
  PROVE  \E sum : Sums(sum, K, R)
<1> DEFINE f == [s \in SUBSET K |-> Cardinality(Pairs(R, s))]
<1>1. ASSUME NEW s \in SUBSET K
      PROVE  f[s] = IF s = {} THEN 0
                    ELSE LET x == CHOOSE x \in s : TRUE IN Cardinality(R[x]) + f[s \ {x}]
  <2>1. CASE s = {}
    <3>1. Pairs(R, {}) = {}
      BY DEF Pairs
    <3> QED BY <2>1, <3>1, FS_EmptySet
  <2>2. CASE s # {}
    <3>1. PICK x \in s : x = CHOOSE y \in s : TRUE
      BY <2>2
    <3>2. IsFiniteSet(s) /\ s \ {x} \in SUBSET K /\ \A k \in s : IsFiniteSet(R[k])
      BY FS_Subset
    <3>3. f[s] = Cardinality(Pairs(R, s)) /\ f[s \ {x}] = Cardinality(Pairs(R, s \ {x}))
      BY <3>2
    <3>4. f[s] = Cardinality(R[x]) + f[s \ {x}]
      BY <3>2, <3>3, PairsAdd
    <3> HIDE DEF f
    <3> QED BY <2>2, <3>1, <3>4
  <2> QED BY <2>1, <2>2
<1>2. f = [s \in SUBSET K |-> f[s]]
  OBVIOUS
<1> HIDE DEF f
<1>3. Sums(f, K, R)
  BY <1>1, <1>2 DEF Sums
<1> QED BY <1>3

LEMMA SumIsOfPairs ==
  ASSUME NEW K, IsFiniteSet(K), NEW R, \A k \in K : IsFiniteSet(R[k]), NEW sum, Sums(sum, K, R)
  PROVE  sum[K] = Cardinality(Pairs(R, K))
<1> DEFINE Holds(s) == sum[s] = Cardinality(Pairs(R, s))
           T == {s \in SUBSET K : ~Holds(s)}
           Subsets == FiniteSubsetsOf(K)
           Order == StrictSubsetOrdering(K)
<1>1. \A s \in SUBSET K : s \in Subsets
  BY FS_Subset DEF FiniteSubsetsOf
<1>2. \A s \in SUBSET K : sum[s] = IF s = {} THEN 0
        ELSE LET x == CHOOSE x \in s : TRUE IN Cardinality(R[x]) + sum[s \ {x}]
  BY DEF Sums
<1>3. ASSUME T # {} PROVE FALSE
  <2>1. T \subseteq Subsets
    BY <1>1
  <2>2. PICK s \in T : \A t \in T : <<t, s>> \notin Order
    <3>1. IsWellFoundedOn(Order, Subsets)
      BY FS_StrictSubsetOrderingWellFounded
    <3> HIDE DEF T, Order, Subsets
    <3> QED BY <1>3, <2>1, <3>1, WFMin, Zenon
  <2>3. s \in SUBSET K /\ ~Holds(s) /\ IsFiniteSet(s)
    BY FS_Subset
  <2>4. CASE s = {}
    <3>1. Pairs(R, {}) = {}
      BY DEF Pairs
    <3>2. sum[{}] = 0
      BY <1>2
    <3> QED BY <2>3, <2>4, <3>1, <3>2, FS_EmptySet
  <2>5. CASE s # {}
    <3>1. PICK x \in s : x = CHOOSE y \in s : TRUE
      BY <2>5
    <3>2. sum[s] = Cardinality(R[x]) + sum[s \ {x}]
      BY <1>2, <2>3, <2>5, <3>1
    <3>3. s \ {x} \in SUBSET K /\ <<s \ {x}, s>> \in Order
      BY <2>3 DEF StrictSubsetOrdering
    <3>4. Holds(s \ {x})
      BY <2>2, <3>3
    <3>5. Cardinality(Pairs(R, s)) = Cardinality(R[x]) + Cardinality(Pairs(R, s \ {x}))
      BY <2>3, PairsAdd
    <3> QED BY <2>3, <3>2, <3>4, <3>5
  <2> QED BY <2>4, <2>5
<1>4. Holds(K)
  BY <1>3
<1> QED BY <1>4

-----------------------------------------------------------------------------
(* What verify and dump have done when they exit.                          *)

ImagesOf(k) == Images(Given(k).value.header)

SoundTo(k, n) == \A i \in 1 .. n : Sound(Given(k).value, ImagesOf(k)[i].data)

RecordedTo(k, n) == {i \in 1 .. n : ImagesOf(k)[i].data.checksum /= None}

Recorded == [k \in 1 .. Len(typed.files) |-> RecordedTo(k, Len(ImagesOf(k)))]

\* What the count of good blocks stands at.
Seen ==
  Cardinality(Pairs(Recorded, 1 .. at))
    + IF opened = None THEN 0 ELSE Cardinality(RecordedTo(at + 1, next))

Counts == [checked : Nat, absent : Nat, failures : Nat]

\* Verification so far: no failure has been counted exactly as long as all blocks were sound,
\* and then each recorded checksum was counted once.
Verified ==
  /\ counts \in Counts
  /\ \A k \in 1 .. at : Given(k).ok
  /\ counts.failures = 0 <=>
       /\ \A k \in 1 .. at : SoundTo(k, Len(ImagesOf(k)))
       /\ opened /= None => SoundTo(at + 1, next)
  /\ counts.failures = 0 => counts.checked = Seen
  /\ exit = "SUCCESS" => at = Len(typed.files) /\ opened = None /\ counts.failures = 0
  /\ exit = "FAILURE" => \E k \in 1 .. Len(typed.files) : ~(Given(k).ok /\ SoundTo(k, Len(ImagesOf(k))))

Dumped ==
  /\ counts.failures = 0
  /\ output = <<>> \/ Len(output) = 1
  /\ Len(output) = at
  /\ exit = "SUCCESS" => at = 1
  /\ exit = "FAILURE" => at = 0

Typed(command) == typed.option = None /\ typed.command = command /\ typed.files /= <<>>

ExitInv == (Typed("verify") => Verified) /\ (Typed("dump") => Dumped)

LEMMA ExitInvInit == ToolInit => ExitInv
<1> SUFFICES ASSUME ToolInit PROVE ExitInv
  OBVIOUS
<1>1. /\ at = 0 /\ opened = None /\ exit = "none" /\ output = <<>>
      /\ counts = [checked |-> 0, absent |-> 0, failures |-> 0]
  BY DEF ToolInit
<1>2. Seen = 0
  <2>1. Pairs(Recorded, 1 .. 0) = {}
    BY DEF Pairs
  <2> QED BY <1>1, <2>1, FS_EmptySet DEF Seen
<1>3. Verified
  BY <1>1, <1>2 DEF Verified, Counts
<1>4. Dumped
  BY <1>1 DEF Dumped
<1> QED BY <1>3, <1>4 DEF ExitInv

\* What verify says of a block that is not sound, and of one that is.
LEMMA VerifySaysSound ==
  ASSUME NEW r, NEW d
  PROVE  /\ (~Verify(r, d).ok \/ Verify(r, d).value = "Invalid") <=> ~Sound(r, d)
         /\ Sound(r, d) => (Verify(r, d).value = "Valid" <=> d.checksum /= None)
<1> DEFINE s == StoredUnchecked(r, d)
<1>1. s = IF s.ok THEN Good(s.value) ELSE Bad(s.error)
  BY StoredForm DEF IsResult
<1>2. Sound(r, d) <=> d.checksum = None \/ (s.ok /\ d.checksum = s.value)
  <2>1. s = Good(d.checksum) <=> s.ok /\ d.checksum = s.value
    <3> HIDE DEF s
    <3> QED BY <1>1 DEF Good, Bad
  <2> QED BY <2>1 DEF Sound
<1>3. Verify(r, d) = IF d.checksum = None THEN Good("Absent")
                     ELSE IF ~s.ok THEN s
                     ELSE Good(IF d.checksum = s.value THEN "Valid" ELSE "Invalid")
  BY DEF Verify
<1>4. \A value : Good(value).ok /\ Good(value).value = value
  BY DEF Good
<1> HIDE DEF s
<1> QED BY <1>2, <1>3, <1>4

\* One image more.
LEMMA RecordedNext ==
  ASSUME NEW k, NEW n \in Nat
  PROVE  /\ IsFiniteSet(RecordedTo(k, n)) /\ Cardinality(RecordedTo(k, n)) \in Nat
         /\ Cardinality(RecordedTo(k, n + 1)) = Cardinality(RecordedTo(k, n))
              + IF ImagesOf(k)[n + 1].data.checksum /= None THEN 1 ELSE 0
<1> DEFINE S == RecordedTo(k, n)
<1>1. IsFiniteSet(1 .. n) /\ S \in SUBSET (1 .. n)
  BY FS_Interval DEF RecordedTo
<1>2. IsFiniteSet(S) /\ Cardinality(S) \in Nat
  BY <1>1, FS_Subset, FS_CardinalityType
<1>3. CASE ImagesOf(k)[n + 1].data.checksum /= None
  <2>1. RecordedTo(k, n + 1) = S \cup {n + 1} /\ n + 1 \notin S
    BY <1>3 DEF RecordedTo
  <2> HIDE DEF S
  <2>2. Cardinality(S \cup {n + 1}) = Cardinality(S) + 1
    BY <1>2, <2>1, FS_AddElement
  <2> QED BY <1>2, <1>3, <2>1, <2>2 DEF S
<1>4. CASE ~(ImagesOf(k)[n + 1].data.checksum /= None)
  <2>1. RecordedTo(k, n + 1) = S
    BY <1>4 DEF RecordedTo
  <2> HIDE DEF S
  <2> QED BY <1>2, <1>4, <2>1 DEF S
<1> QED BY <1>2, <1>3, <1>4

LEMMA SoundNext ==
  ASSUME NEW k, NEW n \in Nat
  PROVE  SoundTo(k, n + 1) <=> SoundTo(k, n) /\ Sound(Given(k).value, ImagesOf(k)[n + 1].data)
<1>1. \A i \in 1 .. n + 1 : i \in 1 .. n \/ i = n + 1
  OBVIOUS
<1>2. n + 1 \in 1 .. n + 1 /\ \A i \in 1 .. n : i \in 1 .. n + 1
  OBVIOUS
<1> QED BY <1>1, <1>2 DEF SoundTo

\* One file more.
LEMMA SeenNext ==
  ASSUME NEW n \in Nat, n < Len(typed.files), Len(typed.files) \in Nat,
         \A k \in 1 .. n + 1 : Len(ImagesOf(k)) \in Nat
  PROVE  Cardinality(Pairs(Recorded, 1 .. n + 1)) =
           Cardinality(RecordedTo(n + 1, Len(ImagesOf(n + 1)))) + Cardinality(Pairs(Recorded, 1 .. n))
<1>1. PICK s : s = 1 .. n + 1
  OBVIOUS
<1>2. IsFiniteSet(s) /\ n + 1 \in s /\ s \ {n + 1} = 1 .. n
  <2>1. n + 1 \in Int /\ 1 \in Int
    OBVIOUS
  <2>2. IsFiniteSet(s)
    BY <1>1, <2>1, FS_Interval
  <2> QED BY <1>1, <2>2
<1>3. \A k \in 1 .. n + 1 : Recorded[k] = RecordedTo(k, Len(ImagesOf(k)))
  BY DEF Recorded
<1>4. \A k \in 1 .. n + 1 : IsFiniteSet(Recorded[k])
  BY <1>3, RecordedNext
<1>5. PICK R : R = Recorded
  OBVIOUS
<1>6. \A k \in s : IsFiniteSet(R[k])
  BY <1>1, <1>4, <1>5
<1>7. PICK x \in s : x = n + 1
  BY <1>2
<1>8. Cardinality(Pairs(R, s)) = Cardinality(R[x]) + Cardinality(Pairs(R, s \ {x}))
  BY <1>2, <1>6, PairsAdd
<1> QED BY <1>1, <1>3, <1>5, <1>2, <1>7, <1>8

\* Of the files that are done.
LEMMA SeenIsNumber ==
  ASSUME ToolTypes, \A k \in 1 .. at : Given(k).ok
  PROVE  Cardinality(Pairs(Recorded, 1 .. at)) \in Nat
<1>1. typed \in CommandLines /\ at \in 0 .. Len(typed.files) /\ Len(typed.files) \in Nat
  BY FilesOfLine DEF ToolTypes
<1>2. ASSUME NEW k \in 1 .. at
      PROVE  IsFiniteSet(Recorded[k])
  <2>1. k \in 1 .. Len(typed.files)
    BY <1>1
  <2>2. Len(ImagesOf(k)) \in Nat
    BY <1>1, <2>1, GivenIsReader DEF ImagesOf
  <2> QED BY <2>1, <2>2, RecordedNext DEF Recorded
<1>3. PICK R, s : R = Recorded /\ s = 1 .. at
  OBVIOUS
<1>4. IsFiniteSet(s) /\ \A k \in s : IsFiniteSet(R[k])
  <2>1. IsFiniteSet(s)
    BY <1>1, <1>3, FS_Interval
  <2> QED BY <1>2, <1>3, <2>1
<1> QED BY <1>3, <1>4, PairsFinite, FS_CardinalityType

\* What the exit code is about stays put while the command line does.
LEMMA LineStays ==
  ASSUME UNCHANGED typed
  PROVE  /\ \A k : Given(k)' = Given(k) /\ ImagesOf(k)' = ImagesOf(k)
         /\ \A k, n : SoundTo(k, n)' <=> SoundTo(k, n)
         /\ \A k, n : RecordedTo(k, n)' = RecordedTo(k, n)
         /\ Recorded' = Recorded
         /\ \A command : Typed(command)' <=> Typed(command)
BY DEF Given, ImagesOf, SoundTo, RecordedTo, Recorded, Typed

LEMMA OpenNextVerified ==
  ASSUME ToolTypes, Typed("verify"), Verified, OpenNext
  PROVE  Verified'
<1>1. Working /\ opened = None /\ at < Named /\ exit = "none" /\ Named = Len(typed.files)
  BY DEF OpenNext, Working, Named, Typed
<1>2. typed' = typed /\ at' = at /\ counts' = counts
  BY DEF OpenNext, Exit
<1>3. at \in Nat /\ at + 1 \in 1 .. Len(typed.files)
  <2>1. typed \in CommandLines /\ at \in Nat
    BY DEF ToolTypes
  <2>2. Len(typed.files) \in Nat
    BY <2>1, FilesOfLine
  <2> QED BY <1>1, <2>1, <2>2
<1>4. CASE Given(at + 1).ok /\ opened' = Given(at + 1).value /\ next' = 0 /\ exit' = exit
  <2>1. opened' /= None
    BY <1>3, <1>4, GivenIsReader DEF ToolTypes
  <2>2. SoundTo(at + 1, 0)
    BY DEF SoundTo
  <2>3. Cardinality(RecordedTo(at + 1, 0)) = 0
    <3>1. RecordedTo(at + 1, 0) = {}
      BY DEF RecordedTo
    <3> QED BY <3>1, FS_EmptySet
  <2>4. Seen' = Seen
    <3>1. Seen' = Cardinality(Pairs(Recorded, 1 .. at)) + Cardinality(RecordedTo(at + 1, 0))
      BY <1>2, <1>4, <2>1, LineStays DEF Seen
    <3>2. Seen = Cardinality(Pairs(Recorded, 1 .. at)) + 0
      BY <1>1 DEF Seen
    <3>3. Cardinality(Pairs(Recorded, 1 .. at)) \in Nat
      BY SeenIsNumber DEF Verified
    <3> QED BY <2>3, <3>1, <3>2, <3>3
  <2> QED BY <1>1, <1>2, <1>3, <1>4, <2>1, <2>2, <2>4, LineStays DEF Verified
<1>5. CASE ~Given(at + 1).ok /\ Exit("FAILURE")
  <2>1. opened' = opened /\ next' = next /\ exit' = "FAILURE"
    BY <1>5 DEF Exit
  <2>2. Seen' = Seen
    BY <1>2, <2>1, LineStays DEF Seen
  <2> QED BY <1>1, <1>2, <1>3, <1>5, <2>1, <2>2, LineStays DEF Verified
<1> QED BY <1>4, <1>5 DEF OpenNext, Given

\* Each step of verify and of dump.
LEMMA VerifyNextVerified ==
  ASSUME ToolTypes, Typed("verify"), Verified, VerifyNext
  PROVE  Verified'
<1> DEFINE d == ImagesOf(at + 1)[next + 1].data
           r == Given(at + 1).value
           v == Verify(r, d)
           field == IF ~v.ok \/ v.value = "Invalid" THEN "failures"
                    ELSE IF v.value = "Valid" THEN "checked" ELSE "absent"
<1>1. /\ opened /= None /\ opened = r /\ next \in Nat
      /\ exit = "none" /\ exit' = exit /\ next' = next + 1
      /\ UNCHANGED <<typed, at, opened>>
  BY DEF VerifyNext, ToolTypes, Working
<1>2. counts' = [counts EXCEPT ![field] = @ + 1]
  BY <1>1 DEF VerifyNext, ImagesOf
<1>3. /\ (~v.ok \/ v.value = "Invalid") <=> ~Sound(r, d)
      /\ Sound(r, d) => (v.value = "Valid" <=> d.checksum /= None)
  BY VerifySaysSound
<1>4. SoundTo(at + 1, next') <=> SoundTo(at + 1, next) /\ Sound(r, d)
  BY <1>1, SoundNext
<1> DEFINE before == Cardinality(Pairs(Recorded, 1 .. at))
           here == Cardinality(RecordedTo(at + 1, next))
<1>5. before \in Nat /\ here \in Nat
  BY <1>1, SeenIsNumber, RecordedNext DEF Verified
<1>6. Seen = before + here /\ Seen' = before + Cardinality(RecordedTo(at + 1, next + 1))
  BY <1>1, LineStays DEF Seen
<1>7. Cardinality(RecordedTo(at + 1, next + 1)) = here + IF d.checksum /= None THEN 1 ELSE 0
  BY <1>1, RecordedNext
<1> HIDE DEF d, r, v, before, here
<1>8. counts \in Counts
  BY DEF Verified
<1>9. CASE ~Sound(r, d)
  <2>1. field = "failures"
    BY <1>3, <1>9
  <2> HIDE DEF field
  <2>2. counts' \in Counts /\ counts'.failures /= 0
    BY <1>2, <1>8, <2>1 DEF Counts
  <2> QED BY <1>1, <1>4, <1>9, <2>2, LineStays DEF Verified
<1>10. CASE Sound(r, d) /\ d.checksum /= None
  <2>1. field = "checked"
    BY <1>3, <1>10
  <2> HIDE DEF field
  <2>2. counts' \in Counts /\ counts'.failures = counts.failures /\ counts'.checked = counts.checked + 1
    BY <1>2, <1>8, <2>1 DEF Counts
  <2>3. Seen' = Seen + 1
    BY <1>5, <1>6, <1>7, <1>10
  <2> QED BY <1>1, <1>4, <1>10, <2>2, <2>3, LineStays DEF Verified
<1>11. CASE Sound(r, d) /\ d.checksum = None
  <2>1. field = "absent"
    BY <1>3, <1>11
  <2> HIDE DEF field
  <2>2. counts' \in Counts /\ counts'.failures = counts.failures /\ counts'.checked = counts.checked
    BY <1>2, <1>8, <2>1 DEF Counts
  <2>3. Seen' = Seen
    BY <1>5, <1>6, <1>7, <1>11
  <2> QED BY <1>1, <1>4, <1>11, <2>2, <2>3, LineStays DEF Verified
<1> QED BY <1>9, <1>10, <1>11

LEMMA VerifyDoneVerified ==
  ASSUME ToolTypes, Typed("verify"), Verified, VerifyDone
  PROVE  Verified'
<1>1. /\ opened /= None /\ next = Len(ImagesOf(at + 1)) /\ Given(at + 1).ok
      /\ exit = "none" /\ exit' = exit /\ at' = at + 1 /\ opened' = None
      /\ typed' = typed /\ counts' = counts
  BY DEF VerifyDone, FileDone, ToolTypes, Working, ImagesOf
<1>2. at \in Nat /\ at < Len(typed.files) /\ Len(typed.files) \in Nat /\ typed \in CommandLines
  BY <1>1, FilesOfLine DEF ToolTypes
<1>3. \A k \in 1 .. at' : k \in 1 .. at \/ k = at + 1
  BY <1>1, <1>2
<1>4. at + 1 \in 1 .. at' /\ 1 .. at \subseteq 1 .. at'
  BY <1>1, <1>2
<1>5. \A k \in 1 .. at' : Given(k).ok
  BY <1>1, <1>3 DEF Verified
<1>6. (\A k \in 1 .. at' : SoundTo(k, Len(ImagesOf(k)))) <=>
        (\A k \in 1 .. at : SoundTo(k, Len(ImagesOf(k)))) /\ SoundTo(at + 1, next)
  BY <1>1, <1>3, <1>4
<1>7. Seen' = Seen
  <2>1. \A k \in 1 .. at + 1 : Len(ImagesOf(k)) \in Nat
    <3> SUFFICES ASSUME NEW k \in 1 .. at + 1 PROVE Len(ImagesOf(k)) \in Nat
      OBVIOUS
    <3>1. k \in 1 .. Len(typed.files) /\ Given(k).ok
      BY <1>1, <1>2, <1>5
    <3> QED BY <1>2, <3>1, GivenIsReader DEF ImagesOf
  <2>2. Cardinality(Pairs(Recorded, 1 .. at + 1)) =
          Cardinality(RecordedTo(at + 1, next)) + Cardinality(Pairs(Recorded, 1 .. at))
    BY <1>1, <1>2, <2>1, SeenNext
  <2>3. Cardinality(Pairs(Recorded, 1 .. at)) \in Nat /\ Cardinality(RecordedTo(at + 1, next)) \in Nat
    <3>1. next \in Nat
      BY <1>1 DEF ToolTypes
    <3> QED BY <3>1, SeenIsNumber, RecordedNext DEF Verified
  <2>4. Seen = Cardinality(Pairs(Recorded, 1 .. at)) + Cardinality(RecordedTo(at + 1, next))
    BY <1>1 DEF Seen
  <2>5. Seen' = Cardinality(Pairs(Recorded, 1 .. at + 1)) + 0
    BY <1>1, LineStays DEF Seen
  <2> QED BY <2>2, <2>3, <2>4, <2>5
<1> QED BY <1>1, <1>5, <1>6, <1>7, LineStays DEF Verified

LEMMA ConcludeVerified ==
  ASSUME ToolTypes, Typed("verify"), Verified, Conclude
  PROVE  Verified'
<1>1. /\ opened = None /\ at = Len(typed.files) /\ exit = "none"
      /\ UNCHANGED <<typed, at, opened, next, counts>>
      /\ exit' = IF counts.failures = 0 THEN "SUCCESS" ELSE "FAILURE"
  BY DEF Conclude, Exit, Working, Named, Typed
<1>2. Seen' = Seen
  BY <1>1, LineStays DEF Seen
<1>3. CASE counts.failures = 0
  BY <1>1, <1>2, <1>3, LineStays DEF Verified
<1>4. CASE counts.failures /= 0
  <2>1. PICK k \in 1 .. at : ~SoundTo(k, Len(ImagesOf(k)))
    BY <1>1, <1>4 DEF Verified
  <2> QED BY <1>1, <1>2, <1>4, <2>1, LineStays DEF Verified
<1> QED BY <1>3, <1>4

LEMMA VerifiedStep ==
  ASSUME ToolTypes, Typed("verify"), Verified, ToolNext
  PROVE  Verified'
<1>1. ~Usage /\ ~Info /\ ~Header /\ ~Dump
  BY CommandLinesAssumption DEF Usage, Info, Header, Dump, Typed, Commands
<1> QED BY <1>1, OpenNextVerified, VerifyNextVerified, VerifyDoneVerified, ConcludeVerified DEF ToolNext

LEMMA DumpedStep ==
  ASSUME ToolTypes, Typed("dump"), Dumped, ToolNext
  PROVE  Dumped'
<1>1. ~Usage /\ ~Info /\ ~Header /\ ~VerifyNext /\ ~VerifyDone
  BY CommandLinesAssumption DEF Usage, Info, Header, VerifyNext, VerifyDone, Typed, Commands
<1>2. Named = 1 /\ at \in Nat
  BY DEF Named, Typed, Dumped, ToolTypes
<1>3. CASE OpenNext
  <2>1. at = 0 /\ exit = "none" /\ UNCHANGED <<at, counts, output>> /\ exit' \in {exit, "FAILURE"}
    BY <1>2, <1>3 DEF OpenNext, Exit, Working
  <2> QED BY <2>1 DEF Dumped
<1>4. CASE Dump
  <2>1. at = 0 /\ exit = "none" /\ output = <<>> /\ counts' = counts
    <3>1. exit = "none" /\ opened /= None /\ counts' = counts
      BY <1>4 DEF Dump, Exit, FileDone, Working
    <3>2. at = 0
      BY <1>2, <3>1 DEF ToolTypes
    <3>3. output = <<>>
      BY <3>2 DEF Dumped
    <3> QED BY <3>1, <3>2, <3>3
  <2>2. CASE \E block : FileDone(<<block>>)
    <3>1. PICK block : FileDone(<<block>>)
      BY <2>2
    <3>2. output' = <<block>> /\ at' = 1 /\ exit' = "none"
      BY <2>1, <3>1 DEF FileDone
    <3> QED BY <2>1, <3>2 DEF Dumped
  <2>3. CASE Exit("FAILURE")
    BY <2>1, <2>3 DEF Exit, Dumped
  <2> QED BY <1>4, <2>2, <2>3 DEF Dump
<1>5. CASE Conclude
  <2>1. at = 1 /\ UNCHANGED <<at, counts, output>> /\ exit' = "SUCCESS"
    BY <1>2, <1>5 DEF Conclude, Exit, Dumped
  <2> QED BY <2>1 DEF Dumped
<1> QED BY <1>1, <1>3, <1>4, <1>5 DEF ToolNext

LEMMA ExitInductive == Spec => []ExitInv
<1>1. Init => ExitInv
  BY ExitInvInit DEF Init
<1>2. ExitInv /\ ToolTypes /\ [Next]_vars => ExitInv'
  <2> SUFFICES ASSUME ExitInv, ToolTypes, [Next]_vars PROVE ExitInv'
    OBVIOUS
  <2>1. CASE ToolNext
    <3>1. typed' = typed
      BY <2>1 DEF ToolNext, Usage, OpenNext, VerifyNext, VerifyDone, Info, Header, Dump, Conclude,
         Exit, FileDone
    <3>2. \A command : Typed(command)' <=> Typed(command)
      BY <3>1, LineStays
    <3> QED BY <2>1, <3>2, VerifiedStep, DumpedStep DEF ExitInv
  <2>2. CASE UNCHANGED tool
    <3>1. UNCHANGED <<typed, at, opened, next, counts, output, exit>>
      BY <2>2 DEF tool
    <3>2. Verified' <=> Verified
      <4>1. Seen' = Seen
        BY <3>1, LineStays DEF Seen
      <4> QED BY <3>1, <4>1, LineStays DEF Verified
    <3>3. Dumped' <=> Dumped
      BY <3>1 DEF Dumped
    <3> QED BY <3>1, <3>2, <3>3, LineStays DEF ExitInv
  <2> QED BY <2>1, <2>2 DEF Next, Stopped, vars
<1> QED BY <1>1, <1>2, TypesInductive, PTL DEF Spec

\* The checksums recorded in the k-th file, as the property counts them.
RecordedIn(k) == Cardinality({i \in DOMAIN ImagesOf(k) : ImagesOf(k)[i].data.checksum /= None})

Folding(f, K) ==
  f = [s \in SUBSET K |-> IF s = {} THEN 0
                          ELSE LET x == CHOOSE x \in s : TRUE IN RecordedIn(x) + f[s \ {x}]]

FoldOf(K) == FoldSet(LAMBDA k, n : RecordedIn(k) + n, 0, K)

LEMMA FoldIs ==
  ASSUME NEW K
  PROVE  FoldOf(K) = (CHOOSE f : Folding(f, K))[K]
BY DEF FoldOf, FoldSet, MapThenFoldSet, Folding

\* That fold counts the pairs.
LEMMA FoldCounts ==
  ASSUME NEW K, IsFiniteSet(K), NEW R,
         \A k \in K : IsFiniteSet(R[k]) /\ RecordedIn(k) = Cardinality(R[k])
  PROVE  FoldOf(K) = Cardinality(Pairs(R, K))
<1>1. ASSUME NEW f
      PROVE  Folding(f, K) <=> Sums(f, K, R)
  <2>1. \A s \in SUBSET K : s /= {} => (CHOOSE x \in s : TRUE) \in K
    OBVIOUS
  <2>2. [s \in SUBSET K |-> IF s = {} THEN 0
           ELSE RecordedIn(CHOOSE x \in s : TRUE) + f[s \ {CHOOSE x \in s : TRUE}]] =
        [s \in SUBSET K |-> IF s = {} THEN 0
           ELSE Cardinality(R[CHOOSE x \in s : TRUE]) + f[s \ {CHOOSE x \in s : TRUE}]]
    BY <2>1
  <2> QED BY <2>2 DEF Folding, Sums
<1>2. PICK f : Folding(f, K)
  BY <1>1, SumsExist
<1>3. PICK g : g = CHOOSE h : Folding(h, K)
  OBVIOUS
<1>4. Folding(g, K)
  BY <1>2, <1>3
<1>5. g[K] = Cardinality(Pairs(R, K))
  BY <1>1, <1>4, SumIsOfPairs
<1> QED BY <1>3, <1>5, FoldIs

\* What the property says of verify.
LEMMA VerifyExits ==
  ASSUME ToolTypes, Typed("verify"), Verified, exit /= "none"
  PROVE  /\ exit = "SUCCESS" <=>
              \A k \in 1 .. Len(typed.files) : Given(k).ok /\ SoundTo(k, Len(ImagesOf(k)))
         /\ exit = "SUCCESS" => counts.checked = FoldOf(1 .. Len(typed.files))
<1>1. exit \in {"SUCCESS", "FAILURE"} /\ typed \in CommandLines /\ Len(typed.files) \in Nat
  BY FilesOfLine DEF ToolTypes
<1>2. CASE exit = "SUCCESS"
  <2>1. at = Len(typed.files) /\ opened = None /\ counts.failures = 0
    BY <1>2 DEF Verified
  <2>2. \A k \in 1 .. Len(typed.files) : Given(k).ok /\ SoundTo(k, Len(ImagesOf(k)))
    BY <2>1 DEF Verified
  <2>3. PICK K, R : K = 1 .. Len(typed.files) /\ R = Recorded
    OBVIOUS
  <2>4. ASSUME NEW k \in K
        PROVE  IsFiniteSet(R[k]) /\ RecordedIn(k) = Cardinality(R[k])
    <3>1. R[k] = RecordedTo(k, Len(ImagesOf(k)))
      BY <2>3, <2>4 DEF Recorded
    <3>2. IsFiniteSet(R[k]) /\ RecordedIn(k) = Cardinality(R[k])
      <4>1. IsReader(ToolFiles, Given(k).value)
        BY <1>1, <2>2, <2>3, GivenIsReader
      <4>2. IsHeader(Given(k).value.header)
        BY <4>1, ToolFilesOpenable, HeaderIsHeader
      <4>3. ImagesOf(k) \in Seq(ToSet(Given(k).value.header.images))
        BY <4>2, ImagesAre DEF IsHeader, ImagesOf
      <4>4. DOMAIN ImagesOf(k) = 1 .. Len(ImagesOf(k)) /\ Len(ImagesOf(k)) \in Nat
        BY <4>3
      <4> QED BY <3>1, <4>4, RecordedNext DEF RecordedIn, RecordedTo
    <3> QED BY <3>2
  <2>5. IsFiniteSet(K)
    <3>1. 1 \in Int /\ Len(typed.files) \in Int
      BY <1>1
    <3> QED BY <2>3, <3>1, FS_Interval
  <2>6. FoldOf(K) = Cardinality(Pairs(R, K))
    BY <2>4, <2>5, FoldCounts
  <2>7. counts.checked = Cardinality(Pairs(R, K))
    <3>1. PICK c : c = Cardinality(Pairs(Recorded, 1 .. at))
      OBVIOUS
    <3>2. c \in Nat
      BY <2>1, <2>2, <3>1, SeenIsNumber
    <3>3. counts.checked = c
      BY <2>1, <3>1, <3>2 DEF Verified, Seen
    <3> QED BY <2>1, <2>3, <3>1, <3>3
  <2> QED BY <1>2, <2>2, <2>3, <2>6, <2>7
<1>3. CASE exit = "FAILURE"
  BY <1>3 DEF Verified
<1> QED BY <1>1, <1>2, <1>3

LEMMA DumpExits ==
  ASSUME ToolTypes, Typed("dump"), Dumped, exit /= "none"
  PROVE  exit = "SUCCESS" <=> Len(output) = 1
BY DEF ToolTypes, Dumped

LEMMA ExitsAreClean == ToolTypes /\ ExitInv => CleanExitMeansVerified
<1> SUFFICES ASSUME ToolTypes, ExitInv, exit /= "none", typed.option = None, typed.files /= <<>>
             PROVE  CleanExitMeansVerified
  BY DEF CleanExitMeansVerified
<1>1. typed \in CommandLines /\ DOMAIN typed.files = 1 .. Len(typed.files)
  BY CommandLinesAssumption DEF ToolTypes, IsList
<1>2. {k \in DOMAIN typed.files : TRUE} = 1 .. Len(typed.files)
  BY <1>1
<1>3. \A k \in 1 .. Len(typed.files) : Given(k).ok =>
        (SoundTo(k, Len(ImagesOf(k))) <=>
           \A i \in DOMAIN ImagesOf(k) : Sound(Given(k).value, ImagesOf(k)[i].data))
  <2> SUFFICES ASSUME NEW k \in 1 .. Len(typed.files), Given(k).ok
               PROVE  DOMAIN ImagesOf(k) = 1 .. Len(ImagesOf(k))
    BY DEF SoundTo
  <2>1. IsReader(ToolFiles, Given(k).value)
    BY <1>1, GivenIsReader
  <2>2. IsHeader(Given(k).value.header)
    BY <2>1, ToolFilesOpenable, HeaderIsHeader
  <2>3. ImagesOf(k) \in Seq(ToSet(Given(k).value.header.images))
    BY <2>2, ImagesAre DEF IsHeader, ImagesOf
  <2> QED BY <2>3
<1>4. typed.command = "verify" =>
        /\ exit = "SUCCESS" <=>
             \A k \in 1 .. Len(typed.files) : /\ Given(k).ok
                /\ \A i \in DOMAIN ImagesOf(k) : Sound(Given(k).value, ImagesOf(k)[i].data)
        /\ exit = "SUCCESS" => counts.checked = FoldOf(1 .. Len(typed.files))
  <2>1. typed.command = "verify" => Typed("verify") /\ Verified
    BY DEF Typed, ExitInv
  <2> QED BY <1>3, <2>1, VerifyExits
<1>5. typed.command = "dump" => (exit = "SUCCESS" <=> Len(output) = 1)
  BY DumpExits DEF Typed, ExitInv
<1> QED BY <1>2, <1>4, <1>5, Zenon DEF CleanExitMeansVerified, FoldOf, RecordedIn, ImagesOf, Given

\* The exit code.
THEOREM ExitsSayWhatWasVerified == Spec => []CleanExitMeansVerified
BY ExitsAreClean, ExitInductive, TypesInductive, PTL
===============================================================================
