--------------------------------- MODULE CApi ---------------------------------
(***************************************************************************)
(* libxisf: the C interface to an open file, used by several threads of    *)
(* one program as xisf.h allows. The file object owns what every image was *)
(* parsed to, taken when it was built, and the handles it lends, built the *)
(* first time one is asked for under a OnceLock.                           *)
(*                                                                         *)
(* A handle is the list it lies in and the index of its image. NULL is     *)
(* None; an out-parameter is a field of `told`, absent if the call leaves  *)
(* it alone.                                                               *)
(***************************************************************************)
EXTENDS Reader

CONSTANTS
  Threads,      \* the threads of the C program
  CFiles,       \* what it opens: files, or None for a path that names nothing
  Capacities    \* sizes of the buffers it provides

ASSUME CFilesAssumption == Openable(CFiles \ {None})

ASSUME ThreadsAssumption == Threads \cap {"empty", "built"} = {}

VARIABLES
  file,     \* the file object, or None
  once,     \* OnceLock: "empty", "built", or the thread that is building
  lists,    \* handle lists built so far: the last is the one the file keeps
  step,     \* by thread: what it is in the middle of, "none" between calls
  held,     \* by thread: the handle it uses, or None
  buffer,   \* by thread: the buffer it was given and has not freed, or None
  told      \* what the last call that returned, returned, and to which thread

capi == <<file, once, lists, step, held, buffer, told>>

(***************************************************************************)
(* XisfFile::build: the images that parse, with copies of what the handles *)
(* need; a keyword's text loses its NULs to spaces.                        *)
(***************************************************************************)
Entries(header) ==
  LET kept == Filter(header.images, LAMBDA e : e.image /= None)
  IN  [i \in DOMAIN kept |-> [image |-> kept[i].image, data |-> kept[i].data]]

Build(r) == [reader |-> r, images |-> Entries(r.header)]

CInit ==
  /\ file = None
  /\ once = "empty"
  /\ lists = 0
  /\ step = [t \in Threads |-> "none"]
  /\ held = [t \in Threads |-> None]
  /\ buffer = [t \in Threads |-> None]
  /\ told = None

\* XisfError::from: one code for every kind.
Code(r) == IF r.ok THEN "Ok" ELSE r.error

Idle(t) == step[t] = "none"

Tell(t, what) == told' = [thread |-> t, reply |-> what]

(***************************************************************************)
(* xisf_open, xisf_open_memory: the code is written, then the object built.*)
(***************************************************************************)
OpenWith(t, call, r) ==
  /\ file' = IF r.ok THEN Build(r.value) ELSE None
  /\ once' = "empty"
  /\ lists' = 0
  /\ Tell(t, [call |-> call, err |-> Code(r), null |-> ~r.ok])
  /\ UNCHANGED <<step, held, buffer>>

COpen(t) ==
  /\ Idle(t) /\ file = None
  /\ \/ \E f \in CFiles : OpenWith(t, "xisf_open", OpenPath(f))
     \/ \E f \in CFiles \ {None} : OpenWith(t, "xisf_open_memory", OpenBytes(f, FALSE))
     \/ OpenWith(t, "xisf_open", Bad("InvalidArgument"))   \* a NULL path or not UTF-8

\* The caller's contract: no thread is in a call, and no handle is used afterwards.
CClose(t) ==
  /\ file /= None
  /\ \A u \in Threads : Idle(u)
  /\ file' = None
  /\ held' = [u \in Threads |-> None]
  /\ Tell(t, [call |-> "xisf_close"])
  /\ UNCHANGED <<once, lists, step, buffer>>

(***************************************************************************)
(* xisf_image_at. OnceLock::get_or_init runs the closure in one thread and *)
(* has the others wait for it; the list does not move once it is there.    *)
(***************************************************************************)
Lend(t, list, i) ==
  LET h == IF i \in DOMAIN file.images THEN [list |-> list, entry |-> i] ELSE None
  IN  /\ held' = [held EXCEPT ![t] = h]
      /\ Tell(t, [call |-> "xisf_image_at", null |-> h = None])
      /\ UNCHANGED <<file, buffer>>

AskHandle(t) ==
  /\ Idle(t) /\ file /= None /\ once = "built"
  /\ \E i \in 1 .. Len(file.images) + 1 : Lend(t, lists, i)
  /\ UNCHANGED <<once, lists, step>>

\* Mutant of BeginHandles: a cell that is tested and then filled.
BeginHandlesUnlocked(t) ==
  /\ Idle(t) /\ file /= None /\ once /= "built"
  /\ once' = t
  /\ step' = [step EXCEPT ![t] = "building"]
  /\ UNCHANGED <<file, lists, held, buffer, told>>

BeginHandles(t) ==
  /\ Idle(t) /\ file /= None /\ once = "empty"
  /\ once' = t
  /\ step' = [step EXCEPT ![t] = "building"]
  /\ UNCHANGED <<file, lists, held, buffer, told>>

FinishHandles(t) ==
  /\ step[t] = "building"
  /\ once' = "built"
  /\ lists' = lists + 1
  /\ step' = [step EXCEPT ![t] = "none"]
  /\ \E i \in 1 .. Len(file.images) + 1 : Lend(t, lists + 1, i)

(***************************************************************************)
(* Calls on a handle. `resolve` finds the entry behind it, or nothing.     *)
(***************************************************************************)
Entry(t) == file.images[held[t].entry]

Resolves(t) == held[t] /= None

\* xisf_image_read into a buffer of the given capacity, None for NULL.
\* Mutant of CRead: what the block holds is copied, whatever the geometry says.
CReadUnmeasured(t, capacity) ==
  IF ~Resolves(t) \/ capacity = None THEN Bad("InvalidArgument")
  ELSE LET data == Block(file.reader, Entry(t).data)
       IN  IF data.ok /\ capacity < data.value.length THEN Bad("InvalidArgument") ELSE data

CRead(t, capacity) ==
  IF ~Resolves(t) \/ capacity = None THEN Bad("InvalidArgument")
  ELSE LET data == Block(file.reader, Entry(t).data)
           expected == Entry(t).image.size
       IN  IF ~data.ok THEN data
           ELSE IF expected = None THEN Bad("Unsupported")
           ELSE IF data.value.length /= expected THEN Bad("Truncated")
           ELSE IF capacity < data.value.length THEN Bad("InvalidArgument")
           ELSE data

ReadInto(t) ==
  /\ Idle(t)
  /\ \E capacity \in Capacities \cup {None} :
       LET r == CRead(t, capacity)
       IN  Tell(t, [call |-> "xisf_image_read", handle |-> held[t], capacity |-> capacity,
                    err |-> Code(r), written |-> IF r.ok THEN r.value ELSE None])
  /\ UNCHANGED <<file, once, lists, step, held, buffer>>

\* xisf_image_read_alloc: the block as it is, in a buffer that knows its own length.
CReadAlloc(t) ==
  IF ~Resolves(t) THEN Bad("InvalidArgument") ELSE Block(file.reader, Entry(t).data)

ReadAlloc(t) ==
  /\ Idle(t) /\ buffer[t] = None
  /\ \E r \in {CReadAlloc(t)} \cup (IF CReadAlloc(t).ok THEN {Bad("OutOfMemory")} ELSE {}) :
       /\ buffer' = [buffer EXCEPT ![t] = IF r.ok THEN r.value.length ELSE None]
       /\ Tell(t, [call |-> "xisf_image_read_alloc", handle |-> held[t], err |-> Code(r),
                   size |-> IF r.ok THEN r.value.length ELSE 0,
                   written |-> IF r.ok THEN r.value ELSE None])
  /\ UNCHANGED <<file, once, lists, step, held>>

\* xisf_free of the buffer, or of NULL.
Free(t) ==
  /\ Idle(t)
  /\ buffer' = [buffer EXCEPT ![t] = None]
  /\ Tell(t, [call |-> "xisf_free"])
  /\ UNCHANGED <<file, once, lists, step, held>>

CVerify(t) ==
  IF ~Resolves(t) THEN "InvalidArgument"
  ELSE LET v == Verify(file.reader, Entry(t).data)
       IN  IF ~v.ok THEN v.error
           ELSE IF v.value = "Invalid" THEN "ChecksumMismatch" ELSE "Ok"

VerifyHandle(t) ==
  /\ Idle(t)
  /\ Tell(t, [call |-> "xisf_image_verify", handle |-> held[t], err |-> CVerify(t)])
  /\ UNCHANGED <<file, once, lists, step, held, buffer>>

\* The accessors: a number of the entry, zero for a NULL handle or an index out of range.
CSize(t) ==
  IF ~Resolves(t) \/ Entry(t).image.size = None THEN 0 ELSE Entry(t).image.size

ImageCount == IF file = None THEN 0 ELSE Len(file.images)

Ask(t) ==
  /\ Idle(t)
  /\ Tell(t, [call |-> "xisf_image_data_size", handle |-> held[t], count |-> ImageCount,
              size |-> CSize(t)])
  /\ UNCHANGED <<file, once, lists, step, held, buffer>>

CNext ==
  \E t \in Threads :
    \/ COpen(t)
    \/ CClose(t)
    \/ AskHandle(t)
    \/ BeginHandles(t)
    \/ FinishHandles(t)
    \/ ReadInto(t)
    \/ ReadAlloc(t)
    \/ Free(t)
    \/ VerifyHandle(t)
    \/ Ask(t)
=============================================================================
