------------------------------ MODULE TaskFile ------------------------------
(***************************************************************************)
(* What the rest of the platform assumes of a task file: a version, a      *)
(* status, and parsed content that is only ever the content of the version *)
(* it is shown with.                                                       *)
(***************************************************************************)
EXTENDS Integers

VARIABLES
  status,   \* the status of the file
  version,  \* its current version, 0 before the upload
  content   \* the versions whose parsed blocks are shown

fileVars == <<status, version, content>>

Init == status = "absent" /\ version = 0 /\ content = {}

Live == status \notin {"absent", "deleted"}

Upload ==
  /\ status = "absent"
  /\ status' = "uploaded"
  /\ version' \in Nat \ {0}
  /\ UNCHANGED content

\* A new version starts without content.
Replace ==
  /\ Live
  /\ status' = "uploaded"
  /\ version' \in Nat \ {0, version}
  /\ content' = {}

Delete ==
  /\ Live
  /\ status' = "deleted"
  /\ UNCHANGED <<version, content>>

\* Waiting for a parse, being parsed, or found unparseable: the content stays.
Move ==
  /\ Live
  /\ status' \in {"parse_pending", "parsing", "parse_failed"}
  /\ UNCHANGED <<version, content>>

Show ==
  /\ Live
  /\ status' = "parsed"
  /\ content' = {version}
  /\ UNCHANGED version

Next == Upload \/ Replace \/ Delete \/ Move \/ Show

Spec == Init /\ [][Next]_fileVars
=============================================================================
