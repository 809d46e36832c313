--------------------------------- MODULE Tool ---------------------------------
(***************************************************************************)
(* xisftool: one command over the files of its command line, through the   *)
(* Rust interface, ending in an exit code.                                 *)
(***************************************************************************)
EXTENDS RustApi

CONSTANTS
  CommandLines   \* what may be typed: an option that ends the tool, a command, the files
                 \*   named, the image asked for

ASSUME CommandLinesAssumption ==
  /\ \A line \in CommandLines : IsList(line.files)
  /\ Openable((UNION {ToSet(line.files) : line \in CommandLines}) \ {None})
  /\ None \notin {"help", "unknown"}

VARIABLES
  typed,      \* the command line
  at,         \* files done
  opened,     \* the file being worked on, None between files
  next,       \* images of it done
  counts,     \* checked, absent, failures
  output,     \* what was written to standard output, by dump and header
  exit        \* the exit code, "none" while the tool runs

tool == <<typed, at, opened, next, counts, output, exit>>

Commands == {"info", "header", "verify", "dump"}

NoCommand == [option |-> None, command |-> None, files |-> <<>>, image |-> 0]

ToolInit ==
  /\ typed \in CommandLines
  /\ at = 0
  /\ opened = None
  /\ next = 0
  /\ counts = [checked |-> 0, absent |-> 0, failures |-> 0]
  /\ output = <<>>
  /\ exit = "none"

Exit(code) ==
  /\ exit' = code
  /\ UNCHANGED <<typed, at, opened, next, counts, output>>

\* run: what ends before any file is touched.
Usage ==
  /\ exit = "none" /\ at = 0 /\ opened = None
  /\ \/ typed.option = "help" /\ Exit("SUCCESS")
     \/ /\ typed.option /= "help"
        /\ \/ typed.option = "unknown"
           \/ typed.command \notin Commands
           \/ typed.files = <<>>
        /\ Exit("FAILURE")

Working ==
  /\ exit = "none"
  /\ typed.option = None
  /\ typed.command \in Commands
  /\ typed.files /= <<>>

\* dump looks at the first file only.
Named == IF typed.command = "dump" THEN 1 ELSE Len(typed.files)

\* Mutant of OpenNext: a file that cannot be opened is passed over.
OpenNextLenient ==
  /\ Working /\ opened = None /\ at < Named
  /\ LET r == OpenPath(typed.files[at + 1])
     IN  /\ opened' = IF r.ok THEN r.value ELSE None
         /\ at' = IF r.ok THEN at ELSE at + 1
         /\ next' = 0
         /\ UNCHANGED <<typed, counts, output, exit>>

\* The first file that cannot be opened ends the tool.
OpenNext ==
  /\ Working /\ opened = None /\ at < Named
  /\ LET r == OpenPath(typed.files[at + 1])
     IN  \/ /\ r.ok
            /\ opened' = r.value
            /\ next' = 0
            /\ UNCHANGED <<typed, at, counts, output, exit>>
         \/ ~r.ok /\ Exit("FAILURE")

\* One image of verify.
VerifyNext ==
  /\ Working /\ opened /= None /\ typed.command = "verify"
  /\ next < Len(Images(opened.header))
  /\ LET v == Verify(opened, Images(opened.header)[next + 1].data)
         field == IF ~v.ok \/ v.value = "Invalid" THEN "failures"
                  ELSE IF v.value = "Valid" THEN "checked" ELSE "absent"
     IN  counts' = [counts EXCEPT ![field] = @ + 1]
  /\ next' = next + 1
  /\ UNCHANGED <<typed, at, opened, output, exit>>

\* Mutant of FileDone: the file is kept open.
FileDoneKept(written) ==
  /\ at' = at + 1
  /\ output' = output \o written
  /\ UNCHANGED <<typed, opened, next, counts, exit>>

FileDone(written) ==
  /\ at' = at + 1
  /\ opened' = None
  /\ output' = output \o written
  /\ UNCHANGED <<typed, next, counts, exit>>

VerifyDone ==
  /\ Working /\ opened /= None /\ typed.command = "verify"
  /\ next = Len(Images(opened.header))
  /\ FileDone(<<>>)

\* info: a line for every image and property; a profile that cannot be read is said to be so.
Info ==
  /\ Working /\ opened /= None /\ typed.command = "info"
  /\ LET told == [i \in DOMAIN Images(opened.header) |->
                    LET e == Images(opened.header)[i]
                    IN  [image |-> e.image, location |-> e.data.location,
                         thumbnail |-> Thumbnail(e) /= None,
                         profile |-> IF e.profiles = <<>> THEN None
                                     ELSE Block(opened, Head(e.profiles)).ok,
                         resolution |-> FirstParsed(e.resolutions)]]
     IN  FileDone(told \o [i \in DOMAIN Properties(opened.header) |->
                             [id |-> Properties(opened.header)[i].id,
                              value |-> AsStr(Properties(opened.header)[i])]])

\* header: the text as the file holds it.
Header ==
  /\ Working /\ opened /= None /\ typed.command = "header"
  /\ FileDone(<<opened.header>>)

\* dump: the decoded block of one image. It is a failure if there is none, or if the output
\* cannot be written to its end (a part of it may have been, and is not counted as output).
Dump ==
  /\ Working /\ opened /= None /\ typed.command = "dump"
  /\ LET images == Images(opened.header)
         data == IF typed.image < Len(images) THEN Block(opened, images[typed.image + 1].data)
                 ELSE Bad("NotFound")
     IN  \/ data.ok /\ FileDone(<<data.value>>)
         \/ Exit("FAILURE")

\* After the last file.
Conclude ==
  /\ Working /\ opened = None /\ at = Named
  /\ Exit(IF counts.failures = 0 THEN "SUCCESS" ELSE "FAILURE")

ToolNext ==
  \/ Usage
  \/ OpenNext
  \/ VerifyNext
  \/ VerifyDone
  \/ Info
  \/ Header
  \/ Dump
  \/ Conclude
=============================================================================
