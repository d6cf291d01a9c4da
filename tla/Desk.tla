-------------------------------- MODULE Desk --------------------------------
(***************************************************************************)
(* The parts of the desk around an audit that share no rows, beside one    *)
(* another: the standard catalog, the accounts, the files and objects of a *)
(* task, and the tasks and reports.  A behaviour exercises one of them,    *)
(* the others wait in their initial states.                                *)
(*                                                                         *)
(* SerialStore is about the catalog; the transactions of the other parts   *)
(* overlap, under the database's advisory lock for the numbers of tasks.   *)
(***************************************************************************)
EXTENDS StandardCatalog

CONSTANTS
  Users, MaxPasswords, MaxSessions,       \* accounts
  Contents, MaxUpload, MaxKeys,           \* uploads
  Base, Width, MaxNumbers,                \* numbers of tasks
  MaxTasks, MaxTaskRounds, MaxReports,    \* rounds and reports of tasks
  MaxFaults                               \* bound on storage errors and crashes

VARIABLES
  part,                                              \* the part that moves
  password, sessions, accountWork,                   \* accounts
  files, objects, keys, uploadWork, uploadFaults,    \* uploads
  taskRounds, reports, reportFiles, reportWork, refused, reportFaults  \* tasks and reports

Account == INSTANCE Accounts WITH work <- accountWork

Upload == INSTANCE Uploads WITH
  SerialStore <- FALSE, work <- uploadWork, faults <- uploadFaults

Reporting == INSTANCE Reports WITH
  SerialStore <- FALSE, AdvisoryLock <- TRUE, MaxRounds <- MaxTaskRounds,
  rounds <- taskRounds, objects <- reportFiles, work <- reportWork, faults <- reportFaults

\* The same module with more tasks, which use up the short numbers, and no reports.
Numbering == INSTANCE Reports WITH
  SerialStore <- FALSE, AdvisoryLock <- TRUE,
  MaxTasks <- MaxNumbers, MaxRounds <- 1, MaxReports <- 0,
  rounds <- taskRounds, objects <- reportFiles, work <- reportWork, faults <- reportFaults

ASSUME DeskAssumption ==
  /\ MaxPasswords \in Nat \ {0}
  /\ MaxSessions \in Nat
  /\ MaxKeys \in Nat
  /\ Base \in Nat \ {0, 1}
  /\ Width \in Nat
  /\ MaxNumbers \in Nat
  /\ MaxTasks \in Nat
  /\ MaxTaskRounds \in Nat \ {0}
  /\ MaxReports \in Nat
  /\ MaxFaults \in Nat
  /\ None \notin Contents
  /\ None \notin Upload!File
  /\ \A op \in {"word", "pdf"}, p \in Reporting!Report : None # [op |-> op, report |-> p]

accountVars == <<password, sessions, accountWork>>
uploadVars == <<files, objects, keys, uploadWork, uploadFaults>>
reportVars == <<taskRounds, reports, reportFiles, reportWork, refused, reportFaults>>

deskVars == <<vars, accountVars, uploadVars, reportVars, part>>

DeskInit ==
  /\ part \in {"catalog", "accounts", "uploads", "numbers", "reports"}
  /\ Init /\ Account!Init /\ Upload!Init
  /\ IF part = "numbers" THEN Numbering!Init ELSE Reporting!Init

DeskNext ==
  /\ UNCHANGED part
  /\ \/ part = "catalog" /\ Next /\ UNCHANGED <<accountVars, uploadVars, reportVars>>
     \/ part = "accounts" /\ Account!Next /\ UNCHANGED <<vars, uploadVars, reportVars>>
     \/ part = "uploads" /\ Upload!Next /\ UNCHANGED <<vars, accountVars, reportVars>>
     \/ part = "numbers" /\ Numbering!Next /\ UNCHANGED <<vars, accountVars, uploadVars>>
     \/ part = "reports" /\ Reporting!Next /\ UNCHANGED <<vars, accountVars, uploadVars>>

DeskSpec == DeskInit /\ [][DeskNext]_deskVars

-----------------------------------------------------------------------------

\* Every part's variables have their types.
DeskTypeOK ==
  /\ TypeOK /\ Account!TypeOK /\ Upload!TypeOK
  /\ IF part = "numbers" THEN Numbering!TypeOK ELSE Reporting!TypeOK

\* Accounts: what is active after a change of the password was opened with the
\* new one, or by a login that overlapped with the change.
ChangeEndsSessions == Account!ChangeEndsSessions

\* Accounts: two changes never both succeed on the password that they verified.
ChangesInTurn == Account!ChangesInTurn

\* Uploads: every task_file row names an object that is still stored.
StoredFilesExist == Upload!StoredFilesExist

\* Reports: no task is refused before the numbers are used up.
NumberedUntilFull == part = "numbers" => Numbering!NumberedUntilFull

\* Reports: the files of a published report are there and are its own.
PublishedFilesOwn == Reporting!PublishedFilesOwn

-----------------------------------------------------------------------------
(* What the code does not keep (MCDesk_overlap).                           *)

\* Accounts: a login that overlaps with a change of the password.
OnlyCurrentSessions == Account!OnlyCurrentSessions

\* Uploads: two replacements of one file by the content of the other.
StoredContent == Upload!StoredContent

\* Uploads: content whose row was deleted before.
UploadsKept == Upload!UploadsKept

\* Reports: the number after the last of Width digits.
TaskAlwaysNumbered == part = "numbers" => Numbering!TaskAlwaysNumbered
=============================================================================
