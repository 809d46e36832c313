---------------------------- MODULE ExternalBlock -----------------------------
(***************************************************************************)
(* The one external block being resolved: the file its locator names, as   *)
(* it is now, and the identifier the locator carries (Location::Path and   *)
(* Location::Url, `index: Option<u64>`).                                   *)
(***************************************************************************)
EXTENDS BlockIndex

VARIABLES
  disk,     \* what the locator's path (or URL) names
  wanted    \* the identifier in the locator, or NoIndex

RequestTypeOK ==
  /\ disk \in Entries
  /\ wanted \in Ids \cup {NoIndex}

RequestInit ==
  /\ disk \in Entries
  /\ wanted \in Ids \cup {NoIndex}
=============================================================================
