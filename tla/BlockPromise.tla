----------------------------- MODULE BlockPromise -----------------------------
(***************************************************************************)
(* What resolving an external block promises, whichever way it is read: an *)
(* answer is given once, and                                               *)
(*   - a path at which no regular file lies is refused;                     *)
(*   - a plain file is returned whole and only to a locator with no index; *)
(*   - in a well-formed blocks file the answer is exactly the block whose  *)
(*     element carries the identifier, or "not found";                     *)
(*   - a damaged blocks file may be refused, and if it is not, the bytes   *)
(*     returned are those of an occupied element with that identifier and  *)
(*     lie inside the file.                                                *)
(***************************************************************************)
EXTENDS ExternalBlock

VARIABLE reply

\* The bytes an element points at, if they lie inside the file.
InFile(f, e) == e.position + e.length <= FileLen(f)
BlockOf(f, e) == Slice(f, e.position, e.length)

\* The occupied elements of a well-formed index that carry identifier n.
Holders(f, n) ==
  {e \in {Element(f, a) : a \in ElementOffsets(f, ChainOf(f))} : e.id = n /\ ~IsFree(e)}

\* Anything in a damaged file that reads as an occupied element with identifier n.
Lookalikes(f, n) ==
  {e \in {Element(f, a) : a \in {b \in 0 .. FileLen(f) : b + ElementLen <= FileLen(f)}} :
     e.id = n /\ ~IsFree(e) /\ InFile(f, e)}

BlockReplies(f, n) ==
  IF ~WellFormed(f)
  THEN {Refused(e) : e \in Errors} \cup {BlockOf(f, e) : e \in Lookalikes(f, n)}
  ELSE IF Holders(f, n) = {} THEN {Refused("NotFound")}
  ELSE {BlockOf(f, e) : e \in Holders(f, n)}

Replies(f, n) ==
  IF f \notin Files THEN {Refused(e) : e \in {"NotFound", "BadAttribute", "Io"}}
  ELSE IF IsBlocksFile(f) /\ n # NoIndex THEN BlockReplies(f, n)
  ELSE IF ~IsBlocksFile(f) /\ n = NoIndex THEN {Whole(f)}
  ELSE {Refused("BadAttribute")}

PromiseInit ==
  /\ RequestInit
  /\ reply = Pending

Reply ==
  /\ reply = Pending
  /\ reply' \in Replies(disk, wanted)
  /\ UNCHANGED <<disk, wanted>>

Promise == PromiseInit /\ [][Reply]_<<disk, wanted, reply>>
=============================================================================
