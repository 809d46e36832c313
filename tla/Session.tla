-------------------------------- MODULE Session --------------------------------
(***************************************************************************)
(* One reader under three kinds of program: a Rust program with its        *)
(* switches, a C program with its threads, and xisftool. Each behaviour is *)
(* that of one of them; what they are told of the same files is compared.  *)
(***************************************************************************)
EXTENDS Tool, CApi

VARIABLE program

vars == <<program, rust, tool, capi>>

Init ==
  /\ program \in {"rust", "tool", "c"}
  /\ RustInit /\ CInit /\ ToolInit
  /\ program /= "tool" => typed = NoCommand

\* A Rust program may stop at any time, and the tool when it has its exit code.
Stopped ==
  /\ program = "tool" => exit /= "none"
  /\ UNCHANGED vars

Next ==
  \/ program = "rust" /\ RustNext /\ UNCHANGED <<program, tool, capi>>
  \/ program = "tool" /\ ToolNext /\ UNCHANGED <<program, rust, capi>>
  \/ program = "c" /\ CNext /\ UNCHANGED <<program, rust, tool>>
  \/ Stopped

Spec == Init /\ [][Next]_vars

Result(v) == v.ok \/ v.error \in ErrorKinds

\* Types: a reader has a verdict for each of its images, a thread in a call has the file
\* open under it, a builder is the one the lock names, an exit comes with no file at hand.
TypeOK ==
  /\ DOMAIN verdict = Indices
  /\ \A i \in Indices : verdict[i] = None \/ Result(verdict[i])
  /\ last = None \/ Result(last.answer)
  /\ once \in Threads \cup {"empty", "built"}
  /\ step \in [Threads -> {"none", "building"}]
  /\ \A t \in Threads : step[t] = "building" => file /= None /\ once = t
  /\ lists \in Nat
  /\ ImageCount = IF file = None THEN 0 ELSE Len(Images(file.reader.header))
  /\ \A t \in Threads : buffer[t] = None \/ buffer[t] \in Nat
  /\ at \in 0 .. Len(typed.files)
  /\ opened /= None => at < Len(typed.files) /\ next \in 0 .. Len(Images(opened.header))
  /\ exit \in {"none", "SUCCESS", "FAILURE"}

\* The bytes a Rust program is given are those its image's location names, and lie where a
\* block may lie: attached ones behind the header and inside the file, none at all in a
\* header file (but a block of no bytes); external ones for a header file only, inside its
\* directory unless the locator is absolute and the program allowed that; fetched ones only
\* with a resolver. A typed read has the size of the geometry. Where no image was left out of
\* the list, an index is that of the element (reader.rs:238-318, 446-513, lib.rs:82-120).
ServedFromItsPlace ==
  (last /= None /\ last.call /= "open" /\ last.answer.ok) =>
    LET b == last.answer.value
        r == last.under
        l == last.asked.data.location
        i == last.asked.image
        e == Images(r.header)[i]
    IN  /\ b.from = "file" =>
             /\ l.kind = "Attachment" /\ b.at = l.position
             /\ r.layout.end <= l.position /\ l.position + l.size <= r.length
             /\ b.length = l.size \/ b.plain
             /\ r.layout.form = "HeaderFile" => l.size = 0
        /\ b.from = "text" => l.kind \in {"Inline", "Embedded"}
        /\ b.from \notin {"file", "text"} =>
             /\ r.layout.form = "HeaderFile"
             /\ \/ l.kind = "Path" /\ b.from \in Root /\ r.beside
                \/ l.kind = "Path" /\ l.locator.absolute /\ b.from = l.locator.leads /\ r.absolute
                \/ l.kind = "Url" /\ b.from = l.url /\ r.resolver
        /\ last.call = "read" => b.length = e.image.size
        /\ (i > 0 /\ UnavailableImages(r.header) = 0) => e = r.header.images[i]

\* What verify says of an image and what a read of it gives agree, in whatever order they are
\* asked and however verification is switched in between: an invalid block is given out only
\* with the switch off, a mismatch is reported by a read only of a block that verify calls
\* invalid (or cannot read), and verify itself never fails with a mismatch
\* (reader.rs:213-232, 333-358).
VerifyAgreesWithRead ==
  \A i \in Indices :
    (verdict[i] /= None /\ last.call \in {"bytes", "read"} /\ last.asked.image = i) =>
      LET v == verdict[i]
          a == last.answer
      IN  /\ ~v.ok => v.error /= "ChecksumMismatch"
          /\ (v.ok /\ v.value = "Invalid" /\ last.under.verify) => ~a.ok
          /\ (~a.ok /\ a.error = "ChecksumMismatch") => ~v.ok \/ v.value = "Invalid"

\* The C interface is the Rust one: xisf_image_read gives what ImageRef::read gives of the same
\* image (where the buffer suffices, and nothing otherwise), xisf_image_read_alloc what
\* ImageRef::bytes gives, xisf_image_verify fails where verify does not find the block
\* good or without a checksum, and a pointer is NULL exactly when the code is not Ok
\* (libxisf/src/lib.rs:498-597).
ApisAgree ==
  (told /= None /\ file /= None) =>
    LET a == told.reply
        r == file.reader
        E(h) == Images(r.header)[h.entry]
        called(name) == a.call = name /\ a.handle /= None
    IN  /\ a.call \in {"xisf_open", "xisf_open_memory"} => (a.null <=> a.err /= "Ok")
        /\ called("xisf_image_read") =>
             LET same == ReadAs(r, E(a.handle), E(a.handle).image.format)
             IN  /\ a.err = "Ok" => same = Good(a.written) /\ ~(a.capacity < same.value.length)
                 /\ a.err /= "Ok" => a.written = None
                 /\ a.capacity /= None /\ ~same.ok => a.err = same.error
        /\ called("xisf_image_read_alloc") =>
             LET same == Block(r, E(a.handle).data)
             IN  /\ a.err = "Ok" => same = Good(a.written) /\ a.size = a.written.length
                 /\ a.err \notin {"Ok", "OutOfMemory"} => same = Bad(a.err)
        /\ called("xisf_image_verify") =>
             (a.err = "Ok" <=> Verify(r, E(a.handle).data) \in {Good("Valid"), Good("Absent")})
        /\ called("xisf_image_data_size") => a.size \in {0, E(a.handle).image.size}

\* Every handle a thread holds lies in the one list the file keeps, whichever threads asked
\* for the first handle at once (libxisf/src/lib.rs:191-198, 364).
HandlesStay ==
  \A t \in Threads : held[t] /= None =>
    /\ file /= None /\ once = "built"
    /\ held[t].list = lists
    /\ held[t].entry \in DOMAIN file.images

Sound(r, d) ==
  d.checksum = None \/ StoredUnchecked(r, d) = Good(d.checksum)

\* `xisftool verify` succeeds exactly when every file named could be opened and the block of
\* every image listed is what its checksum says, and its counts add up to those images;
\* `xisftool dump` succeeds only with the block written out (main.rs:354-406).
CleanExitMeansVerified ==
  (exit /= "none" /\ typed.option = None /\ typed.files /= <<>>) =>
    LET all == {k \in DOMAIN typed.files : TRUE}
        opens(k) == OpenPath(typed.files[k]).ok
        good(k) == LET r == OpenPath(typed.files[k]).value
                   IN  \A i \in DOMAIN Images(r.header) : Sound(r, Images(r.header)[i].data)
        recorded(k) == LET r == OpenPath(typed.files[k]).value
                       IN  Cardinality({i \in DOMAIN Images(r.header) :
                                          Images(r.header)[i].data.checksum /= None})
    IN  /\ typed.command = "verify" =>
             /\ exit = "SUCCESS" <=> \A k \in all : opens(k) /\ good(k)
             /\ exit = "SUCCESS" => counts.checked = FoldSet(LAMBDA k, n : recorded(k) + n, 0, all)
        /\ typed.command = "dump" =>
             (exit = "SUCCESS" <=> Len(output) = 1)
=============================================================================
