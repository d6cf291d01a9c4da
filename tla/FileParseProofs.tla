--------------------------- MODULE FileParseProofs ---------------------------
(***************************************************************************)
(* Proofs about FileParse, for any jobs, workers, API threads, requests,   *)
(* versions and faults: the types on either isolation, and with            *)
(* serializable transactions what a parsed file shows, that it implements  *)
(* TaskFile, and that nothing but a fault takes the pages away it lists.   *)
(***************************************************************************)
EXTENDS FileParse, FiniteSetTheorems, TLAPS

-----------------------------------------------------------------------------
(* The row of the file with some of its columns written.                   *)

Row(s, v, b, p, r) == [status |-> s, version |-> v, blocks |-> b, pages |-> p, review |-> r]

\* The status written.
LEMMA StatusWrittenRow ==
  ASSUME NEW f \in FileRow, NEW s
  PROVE  [f EXCEPT !.status = s] = Row(s, f.version, f.blocks, f.pages, f.review)
  BY DEF FileRow, Row

\* The status and the version.
LEMMA VersionWrittenRow ==
  ASSUME NEW f \in FileRow, NEW s, NEW v
  PROVE  [f EXCEPT !.status = s, !.version = v] = Row(s, v, f.blocks, f.pages, f.review)
<1>. DEFINE g == Row(s, f.version, f.blocks, f.pages, f.review)
<1>1. [g EXCEPT !.version = v] = Row(s, v, f.blocks, f.pages, f.review)
  BY DEF Row
<1>2. [f EXCEPT !.status = s] = g
  BY StatusWrittenRow
<1>. HIDE DEF g
<1>. QED
  BY <1>1, <1>2

\* What was said of a parse.
LEMMA ReviewWrittenRow ==
  ASSUME NEW f \in FileRow, NEW p, NEW r
  PROVE  [f EXCEPT !.pages = p, !.review = r] = Row(f.status, f.version, f.blocks, p, r)
<1>. DEFINE g == Row(f.status, f.version, f.blocks, p, f.review)
<1>1. [g EXCEPT !.review = r] = Row(f.status, f.version, f.blocks, p, r)
  BY DEF Row
<1>2. [f EXCEPT !.pages = p] = g
  BY DEF FileRow, Row
<1>. HIDE DEF g
<1>. QED
  BY <1>1, <1>2

\* With the status.
LEMMA OutcomeWrittenRow ==
  ASSUME NEW f \in FileRow, NEW s, NEW p, NEW r
  PROVE  [f EXCEPT !.status = s, !.pages = p, !.review = r] =
           Row(s, f.version, f.blocks, p, r)
<1>. DEFINE g == Row(s, f.version, f.blocks, f.pages, f.review)
            h == Row(s, f.version, f.blocks, p, f.review)
<1>1. [g EXCEPT !.pages = p] = h /\ [h EXCEPT !.review = r] = Row(s, f.version, f.blocks, p, r)
  BY DEF Row
<1>2. [f EXCEPT !.status = s] = g
  BY StatusWrittenRow
<1>. HIDE DEF g, h
<1>. QED
  BY <1>1, <1>2

\* Its columns can be read back.
LEMMA RowRead ==
  ASSUME NEW s, NEW v, NEW b, NEW p, NEW r
  PROVE  /\ Row(s, v, b, p, r).status = s
         /\ Row(s, v, b, p, r).version = v
         /\ Row(s, v, b, p, r).blocks = b
         /\ Row(s, v, b, p, r).pages = p
         /\ Row(s, v, b, p, r).review = r
  BY DEF Row

LEMMA NewRow == NoFile = Row("absent", 0, {}, 0, "none")
  BY DEF NoFile, Row

-----------------------------------------------------------------------------
(* Types, on either isolation.                                             *)

Replacing(h) == pc[h] \in {"replace", "replacing"}

\* Workers run jobs, handlers answer requests.
Placed ==
  /\ \A c \in Workers : pc[c] \in WorkerPC
  /\ \A h \in Handlers : pc[h] \in HandlerPC

\* Before the upload there is nothing; from then on there is a version.
RowVersioned ==
  /\ file.status = "absent" =>
       /\ file = NoFile
       /\ \A a \in Actors : pc[a] = "idle"
       /\ \A j \in Jobs : job[j].status = "absent"
  /\ file.status # "absent" => file.version \in Versions

JobsVersioned ==
  \A j \in Jobs : job[j].status # "absent" => job[j].version \in Versions

\* A worker works on the version that its job was made for.
Working ==
  \A c \in Workers : pc[c] # "idle" =>
    work[c] \in Jobs /\ job[work[c]].status # "absent" /\ key[c] = job[work[c]].version

NewContent == \A h \in Handlers : Replacing(h) => key[h] \in Versions

\* The job that a handler is about to announce has been inserted.
Announced ==
  \A h \in Handlers : pc[h] = "publish" => work[h] \in Jobs /\ job[work[h]].status # "absent"

Roles == Placed /\ Working /\ NewContent /\ Announced

TypeInv == TypeOK /\ Roles /\ RowVersioned /\ JobsVersioned

LEMMA Bounds == MaxVersion \in Nat /\ 0 \in 0..MaxVersion /\ Versions \subseteq 0..MaxVersion
                /\ 0 \notin Versions
  BY FileAssumption DEF Versions

LEMMA NoFileTyped == NoFile \in FileRow
  BY Bounds DEF NoFile, FileRow, FileStatus

LEMMA InitTypes == Init => TypeInv
<1>. SUFFICES ASSUME Init PROVE TypeInv
  OBVIOUS
<1>1. /\ job \in [Jobs -> JobRow]
      /\ JobsVersioned
  BY Bounds DEF Init, JobRow, JobsVersioned
<1>2. /\ pc \in [Actors -> WorkerPC \cup HandlerPC]
      /\ work \in [Actors -> Jobs \cup {NoJob}]
      /\ key \in [Actors -> 0..MaxVersion]
      /\ snap \in [Actors -> FileRow]
  BY Bounds, NoFileTyped DEF Init, WorkerPC, HandlerPC
<1>3. file \in FileRow /\ RowVersioned
  BY NoFileTyped DEF Init, RowVersioned, NoFile
<1>4. Roles
  BY DEF Init, Roles, Placed, Working, NewContent, Announced, Actors, WorkerPC, HandlerPC,
         Replacing
<1>5. /\ versions \in 0..MaxVersion
      /\ requests \in 0..MaxRequests
      /\ faults \in 0..MaxFaults
      /\ objects \subseteq Versions /\ assets \subseteq Versions
  BY FileAssumption DEF Init
<1>. QED
  BY <1>1, <1>2, <1>3, <1>4, <1>5 DEF TypeInv, TypeOK

\* The rest of the actors stay where they are.
Only(a) ==
  \A b \in Actors \ {a} :
    pc'[b] = pc[b] /\ work'[b] = work[b] /\ key'[b] = key[b] /\ snap'[b] = snap[b]

ActorsTyped ==
  /\ pc \in [Actors -> WorkerPC \cup HandlerPC]
  /\ work \in [Actors -> Jobs \cup {NoJob}]
  /\ key \in [Actors -> 0..MaxVersion]
  /\ snap \in [Actors -> FileRow]

\* The three ways in which an actor moves.
Turns(a, to) ==
  /\ Only(a)
  /\ pc'[a] = to /\ work'[a] = work[a] /\ key'[a] = key[a] /\ snap'[a] = snap[a]

Reads(a, to) ==
  /\ Only(a)
  /\ pc'[a] = to /\ work'[a] = work[a] /\ key'[a] = key[a] /\ snap'[a] = file

Ends(a) ==
  /\ Only(a)
  /\ pc'[a] = "idle" /\ work'[a] = NoJob /\ key'[a] = 0 /\ snap'[a] = NoFile

LEMMA GotoMoves ==
  ASSUME ActorsTyped, NEW a \in Actors, NEW to \in WorkerPC \cup HandlerPC, Goto(a, to)
  PROVE  ActorsTyped' /\ Turns(a, to)
  BY DEF ActorsTyped, Goto, Only, Turns

LEMMA ReadMoves ==
  ASSUME ActorsTyped, file \in FileRow, NEW a \in Actors, NEW to \in WorkerPC \cup HandlerPC,
         Read(a, to)
  PROVE  ActorsTyped' /\ Reads(a, to)
  BY DEF ActorsTyped, Read, Only, Reads

LEMMA ReleaseMoves ==
  ASSUME ActorsTyped, NEW a \in Actors, Release(a)
  PROVE  ActorsTyped' /\ Ends(a)
  BY Bounds, NoFileTyped DEF ActorsTyped, Release, Only, Ends, WorkerPC

LEMMA Typed ==
  ASSUME TypeInv
  PROVE  /\ ActorsTyped /\ file \in FileRow
         /\ \A h \in Handlers : h \in Actors /\ h \notin Workers
         /\ \A c \in Workers : c \in Actors /\ c \notin Handlers
         /\ versions \in 0..MaxVersion
  BY FileAssumption DEF TypeInv, TypeOK, ActorsTyped, Actors

\* Who has begun has a file.
LEMMA Begun ==
  ASSUME TypeInv, NEW a \in Actors, pc[a] # "idle"
  PROVE  file.status # "absent" /\ file.version \in Versions
  BY DEF TypeInv, RowVersioned

\* Rows of jobs keep their version.
JobsKept ==
  \A j \in Jobs :
    /\ job[j].status # "absent" => job'[j].status # "absent"
    /\ job[j].status = "absent" => job'[j].status = "absent"
    /\ job'[j].version = job[j].version
    /\ job'[j].oldPages = job[j].oldPages

LEMMA StatusesKept ==
  ASSUME TypeInv, NEW K \in SUBSET Jobs,
         NEW s \in {"queued", "running", "succeeded", "failed", "canceled"},
         \A j \in K : job[j].status # "absent",
         job' = [j \in Jobs |-> IF j \in K THEN [job[j] EXCEPT !.status = s] ELSE job[j]]
  PROVE  job' \in [Jobs -> JobRow] /\ JobsKept /\ JobsVersioned'
<1>1. ASSUME NEW j \in Jobs
      PROVE  [job[j] EXCEPT !.status = s] =
               [status |-> s, version |-> job[j].version, oldPages |-> job[j].oldPages]
  BY DEF TypeInv, TypeOK, JobRow
<1>2. ASSUME NEW j \in Jobs
      PROVE  job'[j] = IF j \in K
                         THEN [status |-> s, version |-> job[j].version,
                               oldPages |-> job[j].oldPages]
                         ELSE job[j]
  BY <1>1
<1>3. \A j \in Jobs : job'[j] \in JobRow
  BY <1>2 DEF TypeInv, TypeOK, JobRow
<1>4. JobsKept
  BY <1>2 DEF JobsKept
<1>. QED
  BY <1>3, <1>4 DEF TypeInv, JobsKept, JobsVersioned

LEMMA SetJobKeeps ==
  ASSUME TypeInv, NEW j, j \in Jobs => job[j].status # "absent",
         NEW s \in {"queued", "running", "succeeded", "failed", "canceled"}, SetJob(j, s)
  PROVE  job' \in [Jobs -> JobRow] /\ JobsKept /\ JobsVersioned'
<1>. DEFINE K == {j} \cap Jobs
<1>1. job' = [i \in Jobs |-> IF i \in K THEN [job[i] EXCEPT !.status = s] ELSE job[i]]
  BY DEF SetJob, TypeInv, TypeOK
<1>2. K \in SUBSET Jobs /\ \A i \in K : job[i].status # "absent"
  OBVIOUS
<1>. HIDE DEF K
<1>. QED
  BY <1>1, <1>2, StatusesKept

LEMMA CancelKeeps ==
  ASSUME TypeInv, CancelPending
  PROVE  job' \in [Jobs -> JobRow] /\ JobsKept /\ JobsVersioned'
<1>. DEFINE K == {j \in Jobs : job[j].status = "queued"}
<1>1. job' = [i \in Jobs |-> IF i \in K THEN [job[i] EXCEPT !.status = "canceled"] ELSE job[i]]
  BY DEF CancelPending
<1>2. \A j \in K : job[j].status # "absent"
  OBVIOUS
<1>. HIDE DEF K
<1>3. K \in SUBSET Jobs
  BY DEF K
<1>. QED
  BY <1>1, <1>2, <1>3, StatusesKept

LEMMA SameJobsKeep ==
  ASSUME TypeInv, job' = job
  PROVE  job' \in [Jobs -> JobRow] /\ JobsKept /\ JobsVersioned'
  BY DEF TypeInv, TypeOK, JobsKept, JobsVersioned

\* An actor that goes on, or ends, keeps to its role.
LEMMA RolesKept ==
  ASSUME TypeInv, NEW a \in Actors, JobsKept, Only(a),
         a \in Workers =>
           /\ pc'[a] \in WorkerPC
           /\ pc'[a] = "idle" \/ (pc[a] # "idle" /\ work'[a] = work[a] /\ key'[a] = key[a]),
         a \in Handlers =>
           /\ pc'[a] \in HandlerPC \ {"publish"}
           /\ pc'[a] \in {"replace", "replacing"} => Replacing(a) /\ key'[a] = key[a]
  PROVE  Roles'
<1>1. Placed'
  BY DEF TypeInv, Roles, Placed, Only, Actors
<1>2. Working'
  BY DEF TypeInv, Roles, Working, Only, Actors, JobsKept
<1>3. NewContent'
  BY DEF TypeInv, Roles, NewContent, Replacing, Only, Actors
<1>4. Announced'
  BY DEF TypeInv, Roles, Announced, Only, Actors, JobsKept
<1>. QED
  BY <1>1, <1>2, <1>3, <1>4 DEF Roles

\* A step that leaves the row of the file alone and moves one actor.
LEMMA QuietTypes ==
  ASSUME TypeInv, file.status # "absent", Roles', ActorsTyped', file' = file,
         job' \in [Jobs -> JobRow], JobsVersioned',
         objects' \subseteq Versions, assets' \subseteq Versions,
         versions' \in 0..MaxVersion, requests' \in 0..MaxRequests, faults' \in 0..MaxFaults
  PROVE  TypeInv'
  BY DEF TypeInv, TypeOK, ActorsTyped, RowVersioned

\* A step that writes it.
LEMMA WriteTypes ==
  ASSUME TypeInv, Roles', ActorsTyped', file' \in FileRow, file'.status # "absent",
         file'.version \in Versions,
         job' \in [Jobs -> JobRow], JobsVersioned',
         objects' \subseteq Versions, assets' \subseteq Versions,
         versions' \in 0..MaxVersion, requests' \in 0..MaxRequests, faults' \in 0..MaxFaults
  PROVE  TypeInv'
  BY DEF TypeInv, TypeOK, ActorsTyped, RowVersioned

LEMMA FaultCounted ==
  ASSUME TypeInv, Fault
  PROVE  /\ faults' \in 0..MaxFaults /\ faults' # 0
         /\ versions' = versions /\ requests' = requests
  BY FileAssumption DEF TypeInv, TypeOK, Fault

LEMMA RequestCounted ==
  ASSUME TypeInv, NEW h, NEW kind, Request(h, kind)
  PROVE  requests' \in 0..MaxRequests
  BY FileAssumption DEF TypeInv, TypeOK, Request

\* What Exists means for the row.
LEMMA RowExists ==
  ASSUME TypeInv, Exists
  PROVE  file.status # "absent" /\ file.status # "deleted" /\ file.version \in Versions
  BY DEF TypeInv, Exists, RowVersioned

-----------------------------------------------------------------------------
(* What each action does, in full.                                         *)

LEMMA UploadEffect ==
  ASSUME TypeInv, NEW h \in Handlers, Upload(h)
  PROVE  /\ TypeInv' /\ Turns(h, "queue") /\ JobsKept /\ pc[h] = "idle"
         /\ file.status = "absent"
         /\ file' = Row("uploaded", versions + 1, {}, 0, "none")
         /\ versions' = versions + 1 /\ faults' = faults /\ assets' = assets
<1>1. ActorsTyped' /\ Turns(h, "queue")
  BY Typed, GotoMoves DEF Upload, HandlerPC
<1>2. JobsKept /\ job' \in [Jobs -> JobRow] /\ JobsVersioned'
  BY SameJobsKeep DEF Upload
<1>3. versions + 1 \in Versions /\ versions' = versions + 1
  BY Typed, FileAssumption DEF Upload, Versions
<1>4. file' = Row("uploaded", versions + 1, {}, 0, "none")
  <2>1. file = NoFile
    BY DEF Upload, TypeInv, RowVersioned
  <2>2. [file EXCEPT !.status = "uploaded", !.version = versions + 1] =
          Row("uploaded", versions + 1, file.blocks, file.pages, file.review)
    BY Typed, VersionWrittenRow
  <2>3. file.blocks = {} /\ file.pages = 0 /\ file.review = "none"
    BY <2>1 DEF NoFile
  <2>. QED
    BY <2>2, <2>3 DEF Upload
<1>5. file' \in FileRow /\ file'.status # "absent" /\ file'.version \in Versions
  BY <1>3, <1>4, Bounds DEF Row, FileRow, FileStatus
<1>6. Roles'
  BY <1>1, <1>2, Typed, RolesKept DEF Turns, HandlerPC
<1>7. objects' \subseteq Versions /\ assets' \subseteq Versions
  BY <1>3 DEF Upload, TypeInv, TypeOK
<1>8. versions' \in 0..MaxVersion /\ requests' \in 0..MaxRequests /\ faults' \in 0..MaxFaults
  BY <1>3, Bounds DEF Upload, TypeInv, TypeOK
<1>9. TypeInv'
  BY <1>1, <1>2, <1>5, <1>6, <1>7, <1>8, WriteTypes
<1>. QED
  BY <1>1, <1>2, <1>3, <1>4, <1>9 DEF Upload

LEMMA BeginReplaceEffect ==
  ASSUME TypeInv, NEW h \in Handlers, BeginReplace(h)
  PROVE  /\ TypeInv' /\ Only(h) /\ JobsKept /\ pc[h] = "idle" /\ Exists
         /\ pc'[h] = "replace" /\ key'[h] = versions + 1 /\ snap'[h] = file
         /\ file' = file /\ versions' = versions + 1 /\ faults' = faults /\ assets' = assets
<1>1. versions + 1 \in Versions /\ versions' = versions + 1 /\ versions + 1 \in 0..MaxVersion
  BY Typed, FileAssumption DEF BeginReplace, Versions
<1>2. /\ ActorsTyped' /\ Only(h)
      /\ pc'[h] = "replace" /\ key'[h] = versions + 1 /\ snap'[h] = file
  BY <1>1, Typed DEF BeginReplace, ActorsTyped, Only, HandlerPC
<1>3. JobsKept /\ job' \in [Jobs -> JobRow] /\ JobsVersioned'
  BY SameJobsKeep DEF BeginReplace, Request
<1>4. Placed'
  BY <1>2, Typed DEF TypeInv, Roles, Placed, Only, Actors, HandlerPC
<1>5. Working'
  BY <1>2, <1>3, Typed DEF TypeInv, Roles, Working, Only, Actors, JobsKept
<1>6. NewContent'
  BY <1>1, <1>2, Typed DEF TypeInv, Roles, NewContent, Replacing, Only
<1>61. Announced'
  BY <1>2, <1>3, Typed DEF TypeInv, Roles, Announced, Only, JobsKept
<1>7. objects' \subseteq Versions /\ assets' \subseteq Versions
  BY <1>1 DEF BeginReplace, Request, TypeInv, TypeOK
<1>8. versions' \in 0..MaxVersion /\ requests' \in 0..MaxRequests /\ faults' \in 0..MaxFaults
  BY <1>1, RequestCounted DEF BeginReplace, Request, TypeInv, TypeOK
<1>9. TypeInv'
  BY <1>2, <1>3, <1>4, <1>5, <1>6, <1>61, <1>7, <1>8, QuietTypes
  DEF Roles, BeginReplace, Request, Exists
<1>. QED
  BY <1>1, <1>2, <1>3, <1>9 DEF BeginReplace, Request

\* A row that is written by a transaction on it.
LEMMA RowTyped ==
  ASSUME TypeInv, NEW s \in FileStatus, NEW v \in Versions,
         NEW b \in SUBSET [by : Workers, version : Versions], NEW p \in 0..MaxVersion,
         NEW r \in {"none", "pending", "accepted", "reparse"}
  PROVE  Row(s, v, b, p, r) \in FileRow
  BY Bounds DEF Row, FileRow

LEMMA Columns ==
  ASSUME TypeInv
  PROVE  /\ file.status \in FileStatus
         /\ file.blocks \in SUBSET [by : Workers, version : Versions]
         /\ file.pages \in 0..MaxVersion
         /\ file.review \in {"none", "pending", "accepted", "reparse"}
         /\ \A a \in Actors :
              /\ snap[a].status \in FileStatus
              /\ snap[a].pages \in 0..MaxVersion
              /\ snap[a].review \in {"none", "pending", "accepted", "reparse"}
              /\ key[a] \in 0..MaxVersion
  BY DEF TypeInv, TypeOK, FileRow

\* Counters and stores that a step leaves alone.
LEMMA LimitsKept ==
  ASSUME TypeInv, UNCHANGED limitVars
  PROVE  /\ versions' \in 0..MaxVersion /\ requests' \in 0..MaxRequests
         /\ faults' \in 0..MaxFaults /\ versions' = versions /\ faults' = faults
  BY DEF TypeInv, TypeOK, limitVars

LEMMA StoresKept ==
  ASSUME TypeInv, UNCHANGED storeVars
  PROVE  objects' \subseteq Versions /\ assets' \subseteq Versions /\ assets' = assets
  BY DEF TypeInv, TypeOK, storeVars

LEMMA ReplaceEffect ==
  ASSUME TypeInv, NEW h \in Handlers, Replace(h)
  PROVE  /\ TypeInv' /\ Turns(h, "tidy") /\ JobsKept /\ pc[h] = "replacing"
         /\ key[h] \in Versions
         /\ file' = Row("uploaded", key[h], {}, 0, "none")
         /\ versions' = versions /\ faults' = faults /\ assets' = assets
<1>1. ActorsTyped' /\ Turns(h, "tidy")
  BY Typed, GotoMoves DEF Replace, HandlerPC
<1>2. JobsKept /\ job' \in [Jobs -> JobRow] /\ JobsVersioned'
  BY CancelKeeps DEF Replace
<1>3. key[h] \in Versions
  BY DEF Replace, TypeInv, Roles, NewContent, Replacing
<1>4. file' = Row("uploaded", key[h], {}, 0, "none")
  <2>1. NoFile.blocks = {} /\ NoFile.pages = 0 /\ NoFile.review = "none"
    BY DEF NoFile
  <2>2. [NoFile EXCEPT !.status = "uploaded", !.version = key[h]]
          = Row("uploaded", key[h], NoFile.blocks, NoFile.pages, NoFile.review)
    BY NoFileTyped, VersionWrittenRow
  <2>. QED
    BY <2>1, <2>2 DEF Replace
<1>5. file' \in FileRow /\ file'.status # "absent" /\ file'.version \in Versions
  BY <1>3, <1>4, Bounds DEF Row, FileRow, FileStatus
<1>6. Roles'
  BY <1>1, <1>2, Typed, RolesKept DEF Turns, HandlerPC
<1>7. TypeInv'
  BY <1>1, <1>2, <1>5, <1>6, LimitsKept, StoresKept, WriteTypes DEF Replace
<1>. QED
  BY <1>1, <1>2, <1>3, <1>4, <1>7, LimitsKept, StoresKept DEF Replace

LEMMA DeleteEffect ==
  ASSUME TypeInv, NEW h \in Handlers, Delete(h)
  PROVE  /\ TypeInv' /\ Turns(h, "tidy") /\ JobsKept /\ pc[h] = "deleting"
         /\ file' = Row("deleted", file.version, file.blocks, file.pages, file.review)
         /\ versions' = versions /\ faults' = faults /\ assets' = assets
<1>1. ActorsTyped' /\ Turns(h, "tidy")
  BY Typed, GotoMoves DEF Delete, HandlerPC
<1>2. JobsKept /\ job' \in [Jobs -> JobRow] /\ JobsVersioned'
  BY CancelKeeps DEF Delete
<1>3. file.version \in Versions
  BY Typed, Begun DEF Delete
<1>4. file' = Row("deleted", file.version, file.blocks, file.pages, file.review)
  BY Typed, StatusWrittenRow DEF Delete
<1>5. file' \in FileRow /\ file'.status # "absent" /\ file'.version \in Versions
  BY <1>3, <1>4, RowTyped, RowRead, Columns DEF FileStatus
<1>6. Roles'
  BY <1>1, <1>2, Typed, RolesKept DEF Turns, HandlerPC
<1>7. TypeInv'
  BY <1>1, <1>2, <1>5, <1>6, LimitsKept, StoresKept, WriteTypes DEF Delete
<1>. QED
  BY <1>1, <1>2, <1>4, <1>7, LimitsKept, StoresKept DEF Delete

\* The roles after each kind of move.
LEMMA TurnRoles ==
  ASSUME TypeInv, NEW a \in Actors, JobsKept, pc[a] # "idle", NEW to,
         Turns(a, to) \/ Reads(a, to),
         a \in Workers => to \in WorkerPC,
         a \in Handlers => to \in HandlerPC \ {"replace", "publish"} /\ (to = "replacing" => pc[a] = "replace")
  PROVE  Roles'
  BY RolesKept DEF Turns, Reads, Replacing

LEMMA EndRoles ==
  ASSUME TypeInv, NEW a \in Actors, JobsKept, Ends(a)
  PROVE  Roles'
  BY RolesKept DEF Ends, WorkerPC, HandlerPC

\* A transaction that writes some columns and leaves all else alone.
LEMMA WriterTypes ==
  ASSUME TypeInv, NEW a \in Actors, pc[a] # "idle", ActorsTyped', Roles',
         NEW s \in FileStatus \ {"absent"}, NEW b \in SUBSET [by : Workers, version : Versions],
         NEW p \in 0..MaxVersion, NEW r \in {"none", "pending", "accepted", "reparse"},
         file' = Row(s, file.version, b, p, r),
         job' \in [Jobs -> JobRow], JobsVersioned', UNCHANGED <<storeVars, limitVars>>
  PROVE  TypeInv' /\ versions' = versions /\ faults' = faults /\ assets' = assets
<1>1. file' \in FileRow /\ file'.status # "absent" /\ file'.version \in Versions
  BY Begun, RowTyped, RowRead
<1>. QED
  BY <1>1, WriteTypes, LimitsKept, StoresKept

\* A status that is written, or not because it was read.
LEMMA StatusTyped ==
  ASSUME TypeInv, NEW a \in Actors, pc[a] # "idle", NEW s \in FileStatus \ {"absent"}
  PROVE  StatusWritten(a, s) \in FileStatus \ {"absent"}
  BY Begun, Columns DEF StatusWritten

LEMMA RetryParseEffect ==
  ASSUME TypeInv, NEW h \in Handlers, RetryParse(h)
  PROVE  /\ TypeInv' /\ Turns(h, "queue") /\ JobsKept /\ pc[h] = "retrying"
         /\ file' = Row(StatusWritten(h, "parse_pending"), file.version, file.blocks,
                        snap[h].pages, snap[h].review)
         /\ versions' = versions /\ faults' = faults /\ assets' = assets
<1>1. ActorsTyped' /\ Turns(h, "queue")
  BY Typed, GotoMoves DEF RetryParse, HandlerPC
<1>2. JobsKept /\ job' \in [Jobs -> JobRow] /\ JobsVersioned'
  BY SameJobsKeep DEF RetryParse
<1>3. Roles'
  BY <1>1, <1>2, Typed, TurnRoles DEF RetryParse, HandlerPC
<1>4. [file EXCEPT !.status = StatusWritten(h, "parse_pending"),
                   !.pages = snap[h].pages, !.review = snap[h].review] =
        Row(StatusWritten(h, "parse_pending"), file.version, file.blocks,
            snap[h].pages, snap[h].review)
  BY Typed, OutcomeWrittenRow
<1>5. StatusWritten(h, "parse_pending") \in FileStatus \ {"absent"}
  BY Typed, StatusTyped DEF RetryParse, FileStatus
<1>. QED
  BY <1>1, <1>2, <1>3, <1>4, <1>5, Typed, Columns, WriterTypes DEF RetryParse

LEMMA ReviewEffect ==
  ASSUME TypeInv, NEW h \in Handlers, Review(h)
  PROVE  /\ TypeInv' /\ (Turns(h, "retry") \/ Ends(h)) /\ JobsKept /\ pc[h] = "reviewing"
         /\ \E r : file' = Row(file.status, file.version, file.blocks, snap[h].pages, r)
         /\ versions' = versions /\ faults' = faults /\ assets' = assets
<1>1. PICK decision \in {"accepted", "reparse"} :
        /\ file' = [file EXCEPT !.pages = snap[h].pages, !.review = decision]
        /\ Release(h) \/ Goto(h, "retry")
  BY DEF Review
<1>2. ActorsTyped' /\ (Turns(h, "retry") \/ Ends(h))
  BY <1>1, Typed, GotoMoves, ReleaseMoves DEF HandlerPC
<1>3. JobsKept /\ job' \in [Jobs -> JobRow] /\ JobsVersioned'
  BY SameJobsKeep DEF Review
<1>4. pc[h] = "reviewing" /\ pc[h] # "idle"
  BY DEF Review
<1>5. Roles'
  BY <1>2, <1>3, <1>4, Typed, TurnRoles, EndRoles DEF HandlerPC
<1>6. [file EXCEPT !.pages = snap[h].pages, !.review = decision] =
        Row(file.status, file.version, file.blocks, snap[h].pages, decision)
  BY Typed, ReviewWrittenRow
<1>7. file.status \in FileStatus \ {"absent"}
  BY <1>4, Typed, Begun, Columns
<1>8. UNCHANGED <<storeVars, limitVars>>
  BY DEF Review
<1>. QED
  BY <1>1, <1>2, <1>3, <1>4, <1>5, <1>6, <1>7, <1>8, Typed, Columns, WriterTypes

LEMMA ReviseEffect ==
  ASSUME TypeInv, NEW h \in Handlers, ReviseBlock(h)
  PROVE  /\ TypeInv' /\ Ends(h) /\ JobsKept /\ pc[h] = "revising"
         /\ \E r : file' = Row(file.status, file.version, file.blocks, snap[h].pages, r)
         /\ versions' = versions /\ faults' = faults /\ assets' = assets
<1>1. ActorsTyped' /\ Ends(h)
  BY Typed, ReleaseMoves DEF ReviseBlock
<1>2. JobsKept /\ job' \in [Jobs -> JobRow] /\ JobsVersioned'
  BY SameJobsKeep DEF ReviseBlock
<1>3. pc[h] = "revising" /\ pc[h] # "idle"
  BY DEF ReviseBlock
<1>4. Roles'
  BY <1>1, <1>2, Typed, EndRoles
<1>5. file' = Row(file.status, file.version, file.blocks, snap[h].pages, "pending")
  BY Typed, ReviewWrittenRow DEF ReviseBlock
<1>6. file.status \in FileStatus \ {"absent"}
  BY <1>3, Typed, Begun, Columns
<1>7. UNCHANGED <<storeVars, limitVars>>
  BY DEF ReviseBlock
<1>. QED
  BY <1>1, <1>2, <1>3, <1>4, <1>5, <1>6, <1>7, Typed, Columns, WriterTypes

LEMMA StartEffect ==
  ASSUME TypeInv, NEW c \in Workers, StartParse(c)
  PROVE  /\ TypeInv' /\ Turns(c, "parse") /\ JobsKept /\ pc[c] = "starting"
         /\ file' = Row(StatusWritten(c, "parsing"), file.version, file.blocks,
                        file.pages, file.review)
         /\ versions' = versions /\ faults' = faults /\ assets' = assets
<1>1. ActorsTyped' /\ Turns(c, "parse")
  BY Typed, GotoMoves DEF StartParse, WorkerPC
<1>2. JobsKept /\ job' \in [Jobs -> JobRow] /\ JobsVersioned'
  BY SameJobsKeep DEF StartParse
<1>3. Roles'
  BY <1>1, <1>2, Typed, TurnRoles DEF StartParse, WorkerPC
<1>4. [file EXCEPT !.status = StatusWritten(c, "parsing")] =
        Row(StatusWritten(c, "parsing"), file.version, file.blocks, file.pages, file.review)
  BY Typed, StatusWrittenRow
<1>5. StatusWritten(c, "parsing") \in FileStatus \ {"absent"}
  BY Typed, StatusTyped DEF StartParse, FileStatus
<1>. QED
  BY <1>1, <1>2, <1>3, <1>4, <1>5, Typed, Columns, WriterTypes DEF StartParse

\* A worker has a job, and the key of its version.
LEMMA WorkerHasJob ==
  ASSUME TypeInv, NEW c \in Workers, pc[c] # "idle"
  PROVE  /\ work[c] \in Jobs /\ key[c] \in Versions
         /\ job[work[c]].status # "absent" /\ key[c] = job[work[c]].version
  BY DEF TypeInv, Roles, Working, JobsVersioned

LEMMA CompleteEffect ==
  ASSUME TypeInv, NEW c \in Workers, CompleteParse(c)
  PROVE  /\ TypeInv' /\ Turns(c, "record") /\ JobsKept /\ pc[c] = "completing"
         /\ \E r : file' = Row(StatusWritten(c, "parsed"), file.version,
                               (file.blocks \ snap[c].blocks)
                                 \cup {[by |-> c, version |-> key[c]]},
                               key[c], r)
         /\ versions' = versions /\ faults' = faults /\ assets' = assets
<1>. DEFINE new == (file.blocks \ snap[c].blocks) \cup {[by |-> c, version |-> key[c]]}
<1>1. ActorsTyped' /\ Turns(c, "record")
  BY Typed, GotoMoves DEF CompleteParse, WorkerPC
<1>2. JobsKept /\ job' \in [Jobs -> JobRow] /\ JobsVersioned'
  BY SameJobsKeep DEF CompleteParse
<1>3. Roles'
  BY <1>1, <1>2, Typed, TurnRoles DEF CompleteParse, WorkerPC
<1>4. PICK r \in {"none", "pending"} :
        file' = [file EXCEPT !.status = StatusWritten(c, "parsed"), !.blocks = new,
                             !.pages = key[c], !.review = r]
  BY DEF CompleteParse
<1>5. pc[c] = "completing" /\ pc[c] # "idle"
  BY DEF CompleteParse
<1>6. StatusWritten(c, "parsed") \in FileStatus \ {"absent"}
  BY <1>5, Typed, StatusTyped DEF FileStatus
<1>7. new \in SUBSET [by : Workers, version : Versions]
  BY <1>5, WorkerHasJob, Columns
<1>8. UNCHANGED <<storeVars, limitVars>>
  BY DEF CompleteParse
<1>. HIDE DEF new
<1>9. file' = Row(StatusWritten(c, "parsed"), file.version, new, key[c], r)
  <2>. DEFINE g == Row(StatusWritten(c, "parsed"), file.version, file.blocks, file.pages,
                       file.review)
              h == Row(StatusWritten(c, "parsed"), file.version, new, file.pages, file.review)
              k == Row(StatusWritten(c, "parsed"), file.version, new, key[c], file.review)
  <2>1. /\ [g EXCEPT !.blocks = new] = h
        /\ [h EXCEPT !.pages = key[c]] = k
        /\ [k EXCEPT !.review = r] = Row(StatusWritten(c, "parsed"), file.version, new, key[c], r)
    BY DEF Row
  <2>2. [file EXCEPT !.status = StatusWritten(c, "parsed")] = g
    BY Typed, StatusWrittenRow
  <2>. HIDE DEF g, h, k
  <2>. QED
    BY <1>4, <2>1, <2>2
<1>10. TypeInv' /\ versions' = versions /\ faults' = faults /\ assets' = assets
  BY <1>1, <1>2, <1>3, <1>5, <1>6, <1>7, <1>8, <1>9, Typed, Columns, WriterTypes
<1>. QED
  BY <1>1, <1>2, <1>5, <1>9, <1>10 DEF new

LEMMA FailEffect ==
  ASSUME TypeInv, NEW c \in Workers, FailParse(c)
  PROVE  /\ TypeInv' /\ Turns(c, "failjob") /\ JobsKept /\ pc[c] = "failing"
         /\ file' = Row(StatusWritten(c, "parse_failed"), file.version, file.blocks,
                        snap[c].pages, snap[c].review)
         /\ versions' = versions /\ faults' = faults /\ assets' = assets
<1>1. ActorsTyped' /\ Turns(c, "failjob")
  BY Typed, GotoMoves DEF FailParse, WorkerPC
<1>2. JobsKept /\ job' \in [Jobs -> JobRow] /\ JobsVersioned'
  BY SameJobsKeep DEF FailParse
<1>3. Roles'
  BY <1>1, <1>2, Typed, TurnRoles DEF FailParse, WorkerPC
<1>4. [file EXCEPT !.status = StatusWritten(c, "parse_failed"),
                   !.pages = snap[c].pages, !.review = snap[c].review] =
        Row(StatusWritten(c, "parse_failed"), file.version, file.blocks,
            snap[c].pages, snap[c].review)
  BY Typed, OutcomeWrittenRow
<1>5. StatusWritten(c, "parse_failed") \in FileStatus \ {"absent"}
  BY Typed, StatusTyped DEF FailParse, FileStatus
<1>. QED
  BY <1>1, <1>2, <1>3, <1>4, <1>5, Typed, Columns, WriterTypes DEF FailParse

LEMMA QueueEffect ==
  ASSUME TypeInv, NEW h \in Handlers, QueueParse(h)
  PROVE  /\ TypeInv' /\ Only(h) /\ pc[h] = "queue" /\ Isolated(h)
         /\ pc'[h] \in {"idle", "publish"}
         /\ versions' = versions /\ faults' = faults /\ assets' = assets
         /\ \/ Ends(h) /\ file' = file /\ JobsKept
            \/ /\ Exists /\ snap'[h] = snap[h] /\ key'[h] = key[h]
               /\ file' = Row("parse_pending", file.version, file.blocks, file.pages,
                              file.review)
               /\ \E j \in Jobs :
                    /\ job'[j].version = file.version /\ job'[j].oldPages = file.pages
                    /\ \A i \in Jobs \ {j} : job'[i] = job[i]
<1>1. pc[h] = "queue" /\ pc[h] # "idle" /\ Isolated(h) /\ UNCHANGED <<storeVars, limitVars>>
  BY DEF QueueParse
<1>2. CASE Release(h) /\ UNCHANGED <<file, job>>
  <2>1. ActorsTyped' /\ Ends(h)
    BY <1>2, Typed, ReleaseMoves
  <2>2. JobsKept /\ job' \in [Jobs -> JobRow] /\ JobsVersioned'
    BY <1>2, SameJobsKeep
  <2>3. Roles'
    BY <2>1, <2>2, Typed, EndRoles
  <2>4. TypeInv'
    BY <1>1, <1>2, <2>1, <2>2, <2>3, Typed, Begun, QuietTypes, LimitsKept, StoresKept
  <2>. QED
    BY <1>1, <1>2, <2>1, <2>2, <2>4, LimitsKept, StoresKept DEF Ends
<1>3. ASSUME Exists, NEW j \in Jobs, job[j].status = "absent",
             job' = [job EXCEPT ![j] = [status |-> "queued", version |-> file.version,
                                        oldPages |-> file.pages]],
             file' = [file EXCEPT !.status = "parse_pending"],
             pc' = [pc EXCEPT ![h] = "publish"], work' = [work EXCEPT ![h] = j],
             UNCHANGED <<key, snap>>
      PROVE  /\ TypeInv' /\ Only(h) /\ pc'[h] = "publish"
             /\ snap'[h] = snap[h] /\ key'[h] = key[h]
             /\ file' = Row("parse_pending", file.version, file.blocks, file.pages, file.review)
             /\ job'[j].version = file.version /\ job'[j].oldPages = file.pages
             /\ \A i \in Jobs \ {j} : job'[i] = job[i]
  <2>1. ActorsTyped' /\ Only(h) /\ pc'[h] = "publish" /\ snap'[h] = snap[h] /\ key'[h] = key[h]
    BY <1>3, Typed DEF ActorsTyped, Only, HandlerPC
  <2>2. file.version \in Versions /\ file.version \in 0..MaxVersion
    BY <1>3, RowExists, Bounds
  <2>3. /\ job'[j] = [status |-> "queued", version |-> file.version, oldPages |-> file.pages]
        /\ \A i \in Jobs \ {j} : job'[i] = job[i]
    BY <1>3 DEF TypeInv, TypeOK
  <2>4. [status |-> "queued", version |-> file.version, oldPages |-> file.pages] \in JobRow
    BY <2>2, Columns DEF JobRow
  <2>5. job' \in [Jobs -> JobRow] /\ JobsVersioned'
    BY <1>3, <2>2, <2>3, <2>4 DEF TypeInv, TypeOK, JobsVersioned
  <2>6. file' = Row("parse_pending", file.version, file.blocks, file.pages, file.review)
    BY <1>3, Typed, StatusWrittenRow
  <2>7. Placed'
    BY <2>1, Typed DEF TypeInv, Roles, Placed, Only, Actors, HandlerPC
  <2>8. Working'
    <3>. SUFFICES ASSUME NEW c \in Workers, pc'[c] # "idle"
                  PROVE  /\ work'[c] \in Jobs /\ job'[work'[c]].status # "absent"
                         /\ key'[c] = job'[work'[c]].version
      BY DEF Working
    <3>1. pc'[c] = pc[c] /\ work'[c] = work[c] /\ key'[c] = key[c]
      BY <2>1, Typed DEF Only
    <3>2. work[c] # j
      BY <1>3, <3>1, WorkerHasJob
    <3>. QED
      BY <2>3, <3>1, <3>2, WorkerHasJob
  <2>9. NewContent'
    BY <2>1, Typed DEF TypeInv, Roles, NewContent, Replacing, Only
  <2>12. Announced'
    <3>. SUFFICES ASSUME NEW g \in Handlers, pc'[g] = "publish"
                  PROVE  work'[g] \in Jobs /\ job'[work'[g]].status # "absent"
      BY DEF Announced
    <3>1. CASE g = h
      BY <1>3, <2>3, <3>1, Typed DEF ActorsTyped
    <3>2. CASE g # h
      <4>1. work'[g] = work[g] /\ work[g] \in Jobs /\ job[work[g]].status # "absent"
        BY <2>1, <3>2, Typed DEF Only, TypeInv, Roles, Announced
      <4>. QED
        BY <1>3, <2>3, <4>1
    <3>. QED
      BY <3>1, <3>2
  <2>10. "parse_pending" \in FileStatus \ {"absent"}
    BY DEF FileStatus
  <2>11. TypeInv'
    BY <1>1, <2>1, <2>5, <2>6, <2>7, <2>8, <2>9, <2>10, <2>12,
       Typed, Columns, WriterTypes DEF Roles
  <2>. QED
    BY <2>1, <2>3, <2>6, <2>11
<1>4. \/ Release(h) /\ UNCHANGED <<file, job>>
      \/ /\ Exists
         /\ \E j \in Jobs :
              /\ job[j].status = "absent"
              /\ job' = [job EXCEPT ![j] = [status |-> "queued", version |-> file.version,
                                            oldPages |-> file.pages]]
              /\ file' = [file EXCEPT !.status = "parse_pending"]
              /\ pc' = [pc EXCEPT ![h] = "publish"]
              /\ work' = [work EXCEPT ![h] = j]
              /\ UNCHANGED <<key, snap>>
  BY DEF QueueParse
<1>. QED
  BY <1>1, <1>2, <1>3, <1>4, LimitsKept, StoresKept

LEMMA TidyEffect ==
  ASSUME TypeInv, NEW h \in Handlers, Tidy(h)
  PROVE  /\ TypeInv' /\ (Ends(h) \/ Turns(h, "queue")) /\ JobsKept /\ pc[h] = "tidy"
         /\ file' = file /\ versions' = versions /\ faults' = faults
         /\ assets' = assets \ {snap[h].pages}
<1>1. ActorsTyped' /\ (Ends(h) \/ Turns(h, "queue"))
  BY Typed, GotoMoves, ReleaseMoves DEF Tidy, HandlerPC
<1>2. JobsKept /\ job' \in [Jobs -> JobRow] /\ JobsVersioned'
  BY SameJobsKeep DEF Tidy
<1>3. Roles'
  BY <1>1, <1>2, Typed, TurnRoles, EndRoles DEF Tidy, HandlerPC
<1>4. objects' \subseteq Versions /\ assets' \subseteq Versions
  BY DEF Tidy, TypeInv, TypeOK
<1>5. pc[h] # "idle" /\ file.status # "absent"
  BY Typed, Begun DEF Tidy
<1>. QED
  BY <1>1, <1>2, <1>3, <1>4, <1>5, QuietTypes, LimitsKept DEF Tidy

LEMMA ParseEffect ==
  ASSUME TypeInv, NEW c \in Workers, Parse(c)
  PROVE  /\ TypeInv' /\ Turns(c, "complete") /\ JobsKept /\ pc[c] = "parse"
         /\ file' = file /\ versions' = versions /\ faults' = faults
         /\ assets' = (assets \cup {key[c]}) \ ({job[work[c]].oldPages} \ {key[c]})
<1>1. ActorsTyped' /\ Turns(c, "complete")
  BY Typed, GotoMoves DEF Parse, WorkerPC
<1>2. JobsKept /\ job' \in [Jobs -> JobRow] /\ JobsVersioned'
  BY SameJobsKeep DEF Parse
<1>3. Roles'
  BY <1>1, <1>2, Typed, TurnRoles DEF Parse, WorkerPC
<1>4. pc[c] # "idle" /\ file.status # "absent" /\ key[c] \in Versions
  BY Typed, Begun, WorkerHasJob DEF Parse
<1>5. objects' \subseteq Versions /\ assets' \subseteq Versions
  BY <1>4 DEF Parse, TypeInv, TypeOK
<1>. QED
  BY <1>1, <1>2, <1>3, <1>4, <1>5, QuietTypes, LimitsKept DEF Parse

LEMMA CleanUpEffect ==
  ASSUME TypeInv, NEW c \in Workers, CleanUp(c)
  PROVE  /\ TypeInv' /\ Turns(c, "fail") /\ JobsKept /\ pc[c] = "cleanup"
         /\ file' = file /\ versions' = versions /\ faults' = faults
         /\ assets' = assets \ {key[c]}
<1>1. ActorsTyped' /\ Turns(c, "fail")
  BY Typed, GotoMoves DEF CleanUp, WorkerPC
<1>2. JobsKept /\ job' \in [Jobs -> JobRow] /\ JobsVersioned'
  BY SameJobsKeep DEF CleanUp
<1>3. Roles'
  BY <1>1, <1>2, Typed, TurnRoles DEF CleanUp, WorkerPC
<1>4. pc[c] # "idle" /\ file.status # "absent"
  BY Typed, Begun DEF CleanUp
<1>5. objects' \subseteq Versions /\ assets' \subseteq Versions
  BY DEF CleanUp, TypeInv, TypeOK
<1>. QED
  BY <1>1, <1>2, <1>3, <1>4, <1>5, QuietTypes, LimitsKept DEF CleanUp

\* The other steps write neither the row nor the page images.
Quiet ==
  /\ TypeInv' /\ JobsKept
  /\ file' = file /\ versions' = versions /\ assets' = assets
  /\ faults' = faults \/ faults' # 0

LEMMA QuietStep ==
  ASSUME TypeInv, file.status # "absent", ActorsTyped', Roles', JobsKept,
         job' \in [Jobs -> JobRow], JobsVersioned', file' = file, UNCHANGED storeVars,
         UNCHANGED limitVars \/ Fault
  PROVE  Quiet
<1>1. CASE UNCHANGED limitVars
  BY <1>1, QuietTypes, LimitsKept, StoresKept DEF Quiet
<1>2. CASE Fault
  <2>1. requests' \in 0..MaxRequests /\ versions' \in 0..MaxVersion
    BY <1>2, FaultCounted DEF TypeInv, TypeOK
  <2>. QED
    BY <1>2, <2>1, FaultCounted, QuietTypes, StoresKept DEF Quiet
<1>. QED
  BY <1>1, <1>2

LEMMA BeginDeleteEffect ==
  ASSUME TypeInv, NEW h \in Handlers, BeginDelete(h)
  PROVE  Quiet /\ Reads(h, "delete") /\ pc[h] = "idle" /\ Exists
<1>1. /\ pc[h] = "idle" /\ Exists /\ file.status # "absent"
      /\ requests' \in 0..MaxRequests /\ Read(h, "delete")
      /\ UNCHANGED <<file, objects, assets, job, versions, faults>>
  BY RequestCounted DEF BeginDelete, Request, Exists
<1>2. ActorsTyped' /\ Reads(h, "delete")
  BY <1>1, Typed, ReadMoves DEF HandlerPC
<1>3. JobsKept /\ job' \in [Jobs -> JobRow] /\ JobsVersioned'
  BY <1>1, SameJobsKeep
<1>4. Roles'
  BY <1>2, <1>3, Typed, RolesKept DEF Reads, HandlerPC
<1>5. /\ objects' \subseteq Versions /\ assets' \subseteq Versions
      /\ versions' \in 0..MaxVersion /\ faults' \in 0..MaxFaults
  BY <1>1 DEF TypeInv, TypeOK
<1>. QED
  BY <1>1, <1>2, <1>3, <1>4, <1>5, QuietTypes DEF Quiet

LEMMA BeginUpdateEffect ==
  ASSUME TypeInv, NEW h \in Handlers, BeginUpdate(h)
  PROVE  /\ Quiet /\ pc[h] = "idle" /\ Exists /\ Isolated(h)
         /\ \/ Reads(h, "retrying")
            \/ file.status = "parsed" /\ (Reads(h, "reviewing") \/ Reads(h, "revising"))
<1>1. /\ pc[h] = "idle" /\ Exists /\ file.status # "absent" /\ Isolated(h)
      /\ requests' \in 0..MaxRequests
      /\ \/ Read(h, "retrying")
         \/ file.status = "parsed" /\ (Read(h, "reviewing") \/ Read(h, "revising"))
      /\ UNCHANGED <<file, objects, assets, job, versions, faults>>
  BY RequestCounted DEF BeginUpdate, Request, Exists
<1>2. /\ ActorsTyped'
      /\ \/ Reads(h, "retrying")
         \/ file.status = "parsed" /\ (Reads(h, "reviewing") \/ Reads(h, "revising"))
  BY <1>1, Typed, ReadMoves DEF HandlerPC
<1>3. JobsKept /\ job' \in [Jobs -> JobRow] /\ JobsVersioned'
  BY <1>1, SameJobsKeep
<1>4. Roles'
  BY <1>2, <1>3, Typed, RolesKept DEF Reads, HandlerPC
<1>5. /\ objects' \subseteq Versions /\ assets' \subseteq Versions
      /\ versions' \in 0..MaxVersion /\ faults' \in 0..MaxFaults
  BY <1>1 DEF TypeInv, TypeOK
<1>. QED
  BY <1>1, <1>2, <1>3, <1>4, <1>5, QuietTypes DEF Quiet

LEMMA FindFileEffect ==
  ASSUME TypeInv, NEW h \in Handlers, FindFile(h)
  PROVE  /\ Quiet /\ Isolated(h) /\ pc[h] \in {"replace", "delete"}
         /\ \/ Ends(h)
            \/ Exists /\ pc[h] = "replace" /\ Turns(h, "replacing")
            \/ Exists /\ pc[h] = "delete" /\ Turns(h, "deleting")
<1>1. /\ pc[h] \in {"replace", "delete"} /\ pc[h] # "idle" /\ Isolated(h)
      /\ file' = file /\ assets' = assets /\ job' = job /\ UNCHANGED limitVars
      /\ objects' \in {objects, objects \ {key[h]}}
      /\ \/ Release(h)
         \/ Exists /\ pc[h] = "replace" /\ Goto(h, "replacing")
         \/ Exists /\ pc[h] = "delete" /\ Goto(h, "deleting")
  BY DEF FindFile
<1>2. /\ ActorsTyped'
      /\ \/ Ends(h)
         \/ Exists /\ pc[h] = "replace" /\ Turns(h, "replacing")
         \/ Exists /\ pc[h] = "delete" /\ Turns(h, "deleting")
  BY <1>1, Typed, GotoMoves, ReleaseMoves DEF HandlerPC
<1>3. JobsKept /\ job' \in [Jobs -> JobRow] /\ JobsVersioned'
  BY <1>1, SameJobsKeep
<1>4. Roles'
  BY <1>1, <1>2, <1>3, Typed, TurnRoles, EndRoles DEF HandlerPC
<1>5. objects' \subseteq Versions /\ assets' \subseteq Versions
  BY <1>1 DEF TypeInv, TypeOK
<1>6. file.status # "absent"
  BY <1>1, Typed, Begun
<1>. QED
  BY <1>1, <1>2, <1>3, <1>4, <1>5, <1>6, LimitsKept, QuietTypes DEF Quiet

LEMMA RetryAfterReviewEffect ==
  ASSUME TypeInv, NEW h \in Handlers, RetryAfterReview(h)
  PROVE  /\ Quiet /\ Isolated(h) /\ pc[h] = "retry"
         /\ (Exists /\ Reads(h, "retrying")) \/ Turns(h, "queue")
<1>1. /\ pc[h] = "retry" /\ pc[h] # "idle" /\ Isolated(h)
      /\ file' = file /\ job' = job /\ UNCHANGED storeVars /\ UNCHANGED limitVars
      /\ (Exists /\ Read(h, "retrying")) \/ Goto(h, "queue")
  BY DEF RetryAfterReview
<1>2. ActorsTyped' /\ ((Exists /\ Reads(h, "retrying")) \/ Turns(h, "queue"))
  BY <1>1, Typed, GotoMoves, ReadMoves DEF HandlerPC
<1>3. JobsKept /\ job' \in [Jobs -> JobRow] /\ JobsVersioned'
  BY <1>1, SameJobsKeep
<1>4. Roles'
  BY <1>1, <1>2, <1>3, Typed, TurnRoles DEF HandlerPC
<1>5. Quiet
  BY <1>1, <1>2, <1>3, <1>4, Typed, Begun, QuietStep
<1>. QED
  BY <1>1, <1>2, <1>5

LEMMA ReadFileEffect ==
  ASSUME TypeInv, NEW c \in Workers,
         NEW from, from # "idle", NEW to \in WorkerPC, NEW otherwise \in WorkerPC,
         ReadFile(c, from, to, otherwise)
  PROVE  /\ Quiet /\ Isolated(c) /\ pc[c] = from
         /\ (IsCurrent(c) /\ Reads(c, to)) \/ (~IsCurrent(c) /\ Turns(c, otherwise))
<1>1. /\ pc[c] = from /\ pc[c] # "idle" /\ Isolated(c)
      /\ file' = file /\ job' = job /\ UNCHANGED storeVars /\ UNCHANGED limitVars
      /\ (IsCurrent(c) /\ Read(c, to)) \/ (~IsCurrent(c) /\ Goto(c, otherwise))
  BY DEF ReadFile
<1>2. /\ ActorsTyped'
      /\ (IsCurrent(c) /\ Reads(c, to)) \/ (~IsCurrent(c) /\ Turns(c, otherwise))
  BY <1>1, Typed, GotoMoves, ReadMoves
<1>3. JobsKept /\ job' \in [Jobs -> JobRow] /\ JobsVersioned'
  BY <1>1, SameJobsKeep
<1>4. Roles'
  BY <1>1, <1>2, <1>3, Typed, TurnRoles
<1>5. Quiet
  BY <1>1, <1>2, <1>3, <1>4, Typed, Begun, QuietStep
<1>. QED
  BY <1>1, <1>2, <1>5

\* A worker takes a job, or run_job does.
Takes(c, j) == Claim(c, j) \/ RunJob(c, j)

LEMMA TakesEffect ==
  ASSUME TypeInv, NEW c \in Workers, NEW j \in Jobs, Takes(c, j)
  PROVE  /\ Quiet /\ Only(c) /\ pc[c] = "idle" /\ job' = job /\ file' = file /\ faults' = faults
         /\ pc'[c] = "claimed" /\ key'[c] = job[j].version /\ snap'[c] = snap[c]
<1>1. job[j].status # "absent" /\ job[j].version \in Versions /\ job[j].version \in 0..MaxVersion
  BY Bounds DEF Takes, Claim, RunJob, TypeInv, JobsVersioned
<1>2. /\ ActorsTyped' /\ Only(c)
      /\ pc'[c] = "claimed" /\ key'[c] = job[j].version /\ snap'[c] = snap[c] /\ work'[c] = j
  BY <1>1, Typed DEF Takes, Claim, RunJob, ActorsTyped, Only, WorkerPC
<1>3. JobsKept /\ job' \in [Jobs -> JobRow] /\ JobsVersioned' /\ job' = job
  BY SameJobsKeep DEF Takes, Claim, RunJob
<1>4. Placed'
  BY <1>2, Typed DEF TypeInv, Roles, Placed, Only, Actors, WorkerPC
<1>5. Working'
  BY <1>1, <1>2, <1>3, Typed DEF TypeInv, Roles, Working, Only
<1>6. NewContent'
  BY <1>2, Typed DEF TypeInv, Roles, NewContent, Replacing, Only
<1>61. Announced'
  BY <1>2, <1>3, Typed DEF TypeInv, Roles, Announced, Only, JobsKept
<1>7. file.status # "absent"
  BY <1>1 DEF TypeInv, RowVersioned
<1>8. /\ file' = file /\ UNCHANGED storeVars /\ pc[c] = "idle"
      /\ versions' = versions /\ faults' = faults /\ requests' \in 0..MaxRequests
  BY FileAssumption DEF Takes, Claim, RunJob, limitVars, TypeInv, TypeOK
<1>9. Quiet
  <2>1. versions' \in 0..MaxVersion /\ faults' \in 0..MaxFaults
    BY <1>8 DEF TypeInv, TypeOK
  <2>2. Roles'
    BY <1>4, <1>5, <1>6, <1>61 DEF Roles
  <2>. QED
    BY <1>2, <1>3, <1>7, <1>8, <2>1, <2>2, QuietTypes, StoresKept DEF Quiet
<1>. QED
  BY <1>1, <1>2, <1>3, <1>8, <1>9 DEF Takes, Claim, RunJob

\* What goes on in process_queue_job, or begins.
WorkerStep(c) == WorkerProgress(c) \/ \E j \in Jobs : Takes(c, j)

LEMMA WorkerSteps ==
  ASSUME NEW c \in Workers, WorkerProgress(c) \/ \E j \in Jobs : RunJob(c, j)
  PROVE  WorkerStep(c)
  BY DEF WorkerStep, Takes

\* Steps that only take an actor on, or end it, and write at most the status of
\* a job.  The images of an attempt are cleaned up after a fault.
Passes(a) ==
  \/ Ends(a)
  \/ \E to \in {"start", "fail", "raise", "cleanup"} :
       Turns(a, to) /\ (to = "cleanup" => faults' # 0)

LEMMA PassEffect ==
  ASSUME TypeInv, NEW a \in Actors, pc[a] # "idle",
         Release(a) \/ (a \in Workers /\ \E to \in {"start", "fail", "raise", "cleanup"} :
                          Goto(a, to) /\ (to = "cleanup" => Fault)),
         job' = job \/ \E s \in {"queued", "running", "succeeded", "failed", "canceled"} :
                        SetJob(work[a], s) /\ (a \in Workers \/ pc[a] = "publish"),
         file' = file, UNCHANGED storeVars, UNCHANGED limitVars \/ Fault
  PROVE  Quiet /\ Passes(a)
<1>1. ActorsTyped' /\ Passes(a)
  <2>1. CASE Release(a)
    BY <2>1, Typed, ReleaseMoves DEF Passes
  <2>2. ASSUME a \in Workers, NEW to \in {"start", "fail", "raise", "cleanup"}, Goto(a, to),
               to = "cleanup" => Fault
        PROVE  ActorsTyped' /\ Passes(a)
    BY <2>2, Typed, GotoMoves, FaultCounted DEF Passes, WorkerPC
  <2>. QED
    BY <2>1, <2>2
<1>2. JobsKept /\ job' \in [Jobs -> JobRow] /\ JobsVersioned'
  <2>1. CASE job' = job
    BY <2>1, SameJobsKeep
  <2>2. ASSUME NEW s \in {"queued", "running", "succeeded", "failed", "canceled"},
               SetJob(work[a], s), a \in Workers \/ pc[a] = "publish"
        PROVE  JobsKept /\ job' \in [Jobs -> JobRow] /\ JobsVersioned'
    <3>1. job[work[a]].status # "absent"
      <4>1. CASE a \in Workers
        BY <4>1, WorkerHasJob
      <4>2. CASE a \notin Workers
        BY <2>2, <4>2 DEF Actors, TypeInv, Roles, Announced
      <4>. QED
        BY <4>1, <4>2
    <3>. QED
      BY <2>2, <3>1, SetJobKeeps
  <2>. QED
    BY <2>1, <2>2
<1>3. Roles'
  <2>1. CASE Ends(a)
    BY <1>2, <2>1, EndRoles
  <2>2. ASSUME a \in Workers, NEW to \in {"start", "fail", "raise", "cleanup"}, Turns(a, to)
        PROVE  Roles'
    BY <1>2, <2>2, Typed, TurnRoles DEF WorkerPC
  <2>3. Ends(a) \/ (a \in Workers /\ \E to \in {"start", "fail", "raise", "cleanup"} : Turns(a, to))
    BY Typed, GotoMoves, ReleaseMoves DEF WorkerPC
  <2>. QED
    BY <2>1, <2>2, <2>3
<1>. QED
  BY <1>1, <1>2, <1>3, Begun, QuietStep

LEMMA WorkerPasses ==
  ASSUME TypeInv, NEW c \in Workers,
         \/ MarkRunning(c) \/ ParseFails(c) \/ RecordSuccess(c) \/ FailJob(c) \/ Raise(c)
         \/ BodyBreaks(c) \/ RetryRow(c)
  PROVE  Quiet /\ Passes(c)
<1>1. pc[c] # "idle" /\ c \in Actors
  BY Typed DEF MarkRunning, ParseFails, RecordSuccess, FailJob, Raise, BodyBreaks, RetryRow
<1>2. /\ Release(c) \/ \E to \in {"start", "fail", "raise", "cleanup"} :
                        Goto(c, to) /\ (to = "cleanup" => Fault)
      /\ job' = job \/ \E s \in {"queued", "running", "succeeded", "failed", "canceled"} :
                        SetJob(work[c], s)
      /\ file' = file /\ UNCHANGED storeVars /\ (UNCHANGED limitVars \/ Fault)
  <2>1. CASE MarkRunning(c)
    BY <2>1 DEF MarkRunning
  <2>2. CASE ParseFails(c)
    BY <2>2 DEF ParseFails
  <2>3. CASE RecordSuccess(c)
    BY <2>3 DEF RecordSuccess
  <2>4. CASE FailJob(c)
    BY <2>4 DEF FailJob
  <2>5. CASE Raise(c)
    BY <2>5 DEF Raise
  <2>6. CASE BodyBreaks(c)
    BY <2>6 DEF BodyBreaks
  <2>7. CASE RetryRow(c)
    BY <2>7 DEF RetryRow
  <2>. QED
    BY <2>1, <2>2, <2>3, <2>4, <2>5, <2>6, <2>7
<1>. QED
  BY <1>1, <1>2, PassEffect

LEMMA OtherPasses ==
  ASSUME TypeInv, NEW a \in Actors,
         Crash(a) \/ (a \in Handlers /\ (Publish(a) \/ PublishFails(a)))
  PROVE  Quiet /\ Passes(a)
<1>1. /\ pc[a] # "idle" /\ Release(a)
      /\ job' = job \/ (pc[a] = "publish" /\ SetJob(work[a], "failed"))
      /\ file' = file /\ UNCHANGED storeVars /\ (UNCHANGED limitVars \/ Fault)
  BY DEF Crash, Publish, PublishFails
<1>. QED
  BY <1>1, PassEffect

LEMMA StutterTypes ==
  ASSUME TypeInv, UNCHANGED vars
  PROVE  TypeInv'
  BY DEF vars, TypeInv, TypeOK, Roles, Placed, Working, NewContent, Announced, Replacing,
         RowVersioned, JobsVersioned

LEMMA StepTypes == TypeInv /\ [Next]_vars => TypeInv'
<1>. SUFFICES ASSUME TypeInv, [Next]_vars PROVE TypeInv'
  OBVIOUS
<1>1. ASSUME NEW h \in Handlers, HandlerStep(h) \/ HandlerProgress(h)
      PROVE  TypeInv'
  BY <1>1, UploadEffect, BeginReplaceEffect, BeginDeleteEffect, BeginUpdateEffect,
     FindFileEffect, ReplaceEffect, DeleteEffect, TidyEffect, RetryParseEffect, ReviewEffect,
     RetryAfterReviewEffect, ReviseEffect, QueueEffect, OtherPasses, Typed
  DEF HandlerStep, HandlerProgress, Quiet
<1>2. ASSUME NEW c \in Workers, WorkerStep(c)
      PROVE  TypeInv'
  <2>1. ASSUME NEW from \in {"start", "complete", "fail"},
               NEW to \in {"starting", "completing", "failing"},
               NEW otherwise \in {"fail", "cleanup", "failjob"}, ReadFile(c, from, to, otherwise)
        PROVE  TypeInv'
    BY <2>1, ReadFileEffect DEF Quiet, WorkerPC
  <2>. QED
    BY <1>2, <2>1, TakesEffect, StartEffect, ParseEffect, CompleteEffect, CleanUpEffect, FailEffect,
       WorkerPasses DEF WorkerStep, WorkerProgress, Takes, Quiet
<1>3. CASE FaultStep
  BY <1>3, WorkerPasses, OtherPasses, Typed DEF FaultStep, Quiet
<1>. QED
  BY <1>1, <1>2, <1>3, WorkerSteps, StutterTypes DEF Next

\* The row of the file, its stores, jobs and actors keep their types.
THEOREM FileTypes == Spec => []TypeOK
<1>. QED
  BY InitTypes, StepTypes, PTL DEF Spec, TypeInv

-----------------------------------------------------------------------------
(* Serializable transactions.                                              *)

\* At most one transaction is open.
Alone == \A a, b \in Actors : pc[a] \in Transaction /\ pc[b] \in Transaction => a = b

\* What it has read still holds.  A replacement or deletion remembers the row of
\* an earlier read, for the objects to remove.
Current(a) ==
  /\ Exists
  /\ pc[a] \notin {"replacing", "deleting"} => snap[a] = file
  /\ a \in Workers => key[a] = file.version
  /\ pc[a] \in {"reviewing", "revising"} => file.status = "parsed"

SnapsCurrent == \A a \in Actors : pc[a] \in Transaction => Current(a)

\* What the row shows is of its own version.
Content ==
  /\ \A b \in file.blocks : b.version = file.version
  /\ file.pages \in {0, file.version}
  /\ file.status = "parsed" => file.pages = file.version

\* The version of a replacement on its way is nobody else's.
Fresh(h) ==
  /\ key[h] # file.version
  /\ \A j \in Jobs : job[j].version # key[h]
  /\ \A a \in Actors : snap[a].version # key[h]
  /\ \A g \in Handlers \ {h} : Replacing(g) => key[g] # key[h]

Given ==
  /\ file.version <= versions
  /\ \A j \in Jobs : job[j].version <= versions
  /\ \A a \in Actors : key[a] <= versions /\ snap[a].version <= versions

KeysFresh == Given /\ \A h \in Handlers : Replacing(h) => Fresh(h)

\* The pages that a job or an actor remembers are those of the version.
OwnPages ==
  /\ \A j \in Jobs : job[j].oldPages \in {0, job[j].version}
  /\ \A a \in Actors : snap[a].pages \in {0, snap[a].version}

\* The pages that are listed, or about to be, are stored; who is about to
\* remove some removes those of a version that is not shown.
PagesKept ==
  /\ file.pages # 0 /\ Exists => file.pages \in assets
  /\ \A c \in Workers : pc[c] \in {"complete", "completing"} /\ IsCurrent(c) => key[c] \in assets
  /\ \A c \in Workers : pc[c] = "cleanup" => ~IsCurrent(c)
  /\ \A h \in Handlers : pc[h] = "tidy" => ~Exists \/ snap[h].version # file.version

IInv ==
  /\ TypeInv /\ Alone /\ SnapsCurrent /\ Content /\ KeysFresh /\ OwnPages
  /\ faults = 0 => PagesKept

LEMMA InitInv == Init => IInv
<1>. SUFFICES ASSUME Init PROVE IInv
  OBVIOUS
<1>1. TypeInv
  BY InitTypes
<1>2. file = NoFile /\ NoFile.version = 0 /\ NoFile.pages = 0 /\ NoFile.blocks = {}
      /\ NoFile.status = "absent"
  BY DEF Init, NoFile
<1>3. \A a \in Actors : pc[a] = "idle" /\ snap[a] = NoFile /\ key[a] = 0
  BY DEF Init
<1>4. \A j \in Jobs : job[j].version = 0 /\ job[j].oldPages = 0
  BY DEF Init
<1>5. Alone /\ SnapsCurrent
  BY <1>3 DEF Alone, SnapsCurrent, Transaction
<1>6. Content
  BY <1>2 DEF Content
<1>7. KeysFresh
  BY <1>2, <1>3, <1>4 DEF Init, KeysFresh, Given, Replacing, Actors
<1>8. OwnPages
  BY <1>2, <1>3, <1>4 DEF OwnPages
<1>9. PagesKept
  BY <1>2, <1>3 DEF PagesKept, Actors
<1>. QED
  BY <1>1, <1>5, <1>6, <1>7, <1>8, <1>9 DEF IInv

\* An actor outside a transaction, or at its end: nobody's read is touched.
LEMMA LeavesSnaps ==
  ASSUME SerialStore, Alone, SnapsCurrent, NEW a \in Actors, Only(a), pc'[a] \notin Transaction,
         file' = file \/ pc[a] \in Transaction \/ ~Exists \/ Isolated(a)
  PROVE  Alone' /\ SnapsCurrent'
<1>1. Alone'
  BY DEF Alone, Only
<1>2. SnapsCurrent'
  <2>. SUFFICES ASSUME NEW b \in Actors, pc'[b] \in Transaction PROVE Current(b)'
    BY DEF SnapsCurrent
  <2>1. /\ b # a /\ pc'[b] = pc[b] /\ snap'[b] = snap[b] /\ key'[b] = key[b]
        /\ Current(b)
    BY DEF Only, SnapsCurrent
  <2>2. file' = file
    BY <2>1 DEF Alone, Isolated, Current
  <2>. QED
    BY <2>1, <2>2 DEF Current, Exists
<1>. QED
  BY <1>1, <1>2

\* An actor that begins a transaction is alone, and its read is current.
LEMMA EntersSnaps ==
  ASSUME SerialStore, NEW a \in Actors, Only(a), Isolated(a), Current(a)'
  PROVE  Alone' /\ SnapsCurrent'
<1>1. \A b \in Actors \ {a} : pc'[b] \notin Transaction
  BY DEF Isolated, Only
<1>. QED
  BY <1>1 DEF Alone, SnapsCurrent

\* A step that gives out no version and leaves the version of the file alone.
LEMMA KeysStayFresh ==
  ASSUME TypeInv, KeysFresh, NEW a \in Actors, Only(a), versions' = versions,
         file'.version = file.version,
         \A j \in Jobs : job'[j].version \in {job[j].version, file.version},
         snap'[a] \in {snap[a], file, NoFile},
         key'[a] \in {key[a], 0} \cup {job[j].version : j \in Jobs},
         a \in Handlers /\ Replacing(a)' => Replacing(a) /\ key'[a] = key[a]
  PROVE  KeysFresh'
<1>1. NoFile.version = 0
  BY DEF NoFile
<1>2. versions >= 0
  BY Typed, FileAssumption
<1>3. \A b \in Actors : snap'[b] \in {snap[b], file, NoFile}
  BY DEF Only
<1>4. \A b \in Actors : key'[b] \in {key[b], 0} \cup {job[j].version : j \in Jobs}
  BY DEF Only
<1>5. Given'
  BY <1>1, <1>2, <1>3, <1>4 DEF KeysFresh, Given
<1>6. ASSUME NEW h \in Handlers, Replacing(h)'
      PROVE  Fresh(h)'
  <2>1. \A g \in Handlers : Replacing(g)' => Replacing(g) /\ key'[g] = key[g]
    BY DEF Only, Replacing, Actors
  <2>2. Fresh(h) /\ key'[h] = key[h] /\ key[h] # 0
    BY <1>6, <2>1, Bounds DEF KeysFresh, TypeInv, Roles, NewContent
  <2>. QED
    BY <1>1, <1>3, <2>1, <2>2 DEF Fresh
<1>. QED
  BY <1>5, <1>6 DEF KeysFresh

\* What is remembered comes from the row.
LEMMA PagesStayOwn ==
  ASSUME OwnPages, Content, NEW a \in Actors, Only(a),
         \A j \in Jobs :
           \/ job'[j].version = job[j].version /\ job'[j].oldPages = job[j].oldPages
           \/ job'[j].version = file.version /\ job'[j].oldPages = file.pages,
         snap'[a] \in {snap[a], file, NoFile}
  PROVE  OwnPages'
<1>1. NoFile.version = 0 /\ NoFile.pages = 0
  BY DEF NoFile
<1>2. \A b \in Actors : snap'[b] \in {snap[b], file, NoFile}
  BY DEF Only
<1>. QED
  BY <1>1, <1>2 DEF OwnPages, Content

\* A step that neither changes what is shown nor touches images.
LEMMA PagesStay ==
  ASSUME PagesKept, NEW a \in Actors, Only(a), assets' = assets,
         file'.version = file.version, file'.pages = file.pages, Exists' <=> Exists,
         pc'[a] \notin {"complete", "tidy"},
         pc'[a] = "completing" => pc[a] = "complete" /\ key'[a] = key[a],
         pc'[a] = "cleanup" => ~IsCurrent(a) /\ key'[a] = key[a]
  PROVE  PagesKept'
<1>1. \A c \in Workers : key'[c] = key[c] => (IsCurrent(c)' <=> IsCurrent(c))
  BY DEF IsCurrent
<1>2. \A c \in Workers : pc'[c] \in {"complete", "completing"} =>
        pc[c] \in {"complete", "completing"} /\ key'[c] = key[c]
  BY DEF Only, Actors
<1>3. \A c \in Workers : pc'[c] = "cleanup" =>
        (pc[c] = "cleanup" \/ ~IsCurrent(c)) /\ key'[c] = key[c]
  BY DEF Only, Actors
<1>4. \A h \in Handlers : pc'[h] = "tidy" => pc[h] = "tidy" /\ snap'[h] = snap[h]
  BY DEF Only, Actors
<1>. QED
  BY <1>1, <1>2, <1>3, <1>4 DEF PagesKept

-----------------------------------------------------------------------------
(* Each action keeps the invariant.                                        *)

LEMMA QuietKeeps ==
  ASSUME SerialStore, IInv, NEW a \in Actors, Quiet, Only(a),
         snap'[a] \in {snap[a], file, NoFile},
         key'[a] \in {key[a], 0} \cup {job[j].version : j \in Jobs},
         a \in Handlers /\ Replacing(a)' => Replacing(a) /\ key'[a] = key[a],
         pc'[a] \in Transaction => Isolated(a) /\ Current(a)',
         faults' = 0 =>
           /\ pc'[a] \notin {"complete", "tidy"}
           /\ pc'[a] = "completing" => pc[a] = "complete" /\ key'[a] = key[a]
           /\ pc'[a] = "cleanup" => ~IsCurrent(a) /\ key'[a] = key[a]
  PROVE  IInv'
<1>1. /\ TypeInv' /\ JobsKept /\ file' = file /\ versions' = versions /\ assets' = assets
      /\ Exists' <=> Exists
  BY DEF Quiet, Exists
<1>2. Alone' /\ SnapsCurrent'
  BY <1>1, LeavesSnaps, EntersSnaps DEF IInv
<1>3. Content'
  BY <1>1 DEF IInv, Content
<1>4. KeysFresh'
  BY <1>1, KeysStayFresh DEF IInv, JobsKept
<1>5. OwnPages'
  BY <1>1, PagesStayOwn DEF IInv, JobsKept
<1>6. ASSUME faults' = 0 PROVE PagesKept'
  <2>1. PagesKept
    BY <1>6 DEF IInv, Quiet
  <2>. QED
    BY <1>1, <1>6, <2>1, PagesStay
<1>. QED
  BY <1>1, <1>2, <1>3, <1>4, <1>5, <1>6 DEF IInv

\* A write of the status, or of what the row says of a review.
LEMMA WriterKeeps ==
  ASSUME SerialStore, IInv, TypeInv', NEW a \in Actors, Only(a),
         pc[a] \in Transaction \/ Isolated(a), Exists,
         pc'[a] \notin Transaction, pc'[a] \notin {"complete", "cleanup", "tidy", "replace"},
         snap'[a] \in {snap[a], NoFile}, key'[a] \in {key[a], 0},
         \A j \in Jobs :
           \/ job'[j].version = job[j].version /\ job'[j].oldPages = job[j].oldPages
           \/ job'[j].version = file.version /\ job'[j].oldPages = file.pages,
         versions' = versions, faults' = faults, assets' = assets,
         NEW s, s \notin {"absent", "deleted"}, s = "parsed" => file.status = "parsed", NEW r,
         file' = Row(s, file.version, file.blocks, file.pages, r)
  PROVE  IInv'
<1>1. /\ file'.status = s /\ file'.version = file.version /\ file'.blocks = file.blocks
      /\ file'.pages = file.pages
      /\ Exists' <=> Exists
  BY RowRead DEF Exists
<1>2. Alone' /\ SnapsCurrent'
  BY LeavesSnaps DEF IInv
<1>3. Content'
  BY <1>1 DEF IInv, Content
<1>4. KeysFresh'
  BY <1>1, KeysStayFresh DEF IInv, Replacing, Transaction
<1>5. OwnPages'
  BY <1>1, PagesStayOwn DEF IInv
<1>6. faults' = 0 => PagesKept'
  BY <1>1, PagesStay DEF IInv, Transaction
<1>. QED
  BY <1>2, <1>3, <1>4, <1>5, <1>6 DEF IInv

LEMMA UploadKeeps == ASSUME SerialStore, IInv, NEW h \in Handlers, Upload(h) PROVE IInv'
<1>1. /\ TypeInv' /\ Turns(h, "queue") /\ JobsKept /\ pc[h] = "idle"
      /\ file.status = "absent"
      /\ file' = Row("uploaded", versions + 1, {}, 0, "none")
      /\ versions' = versions + 1 /\ faults' = faults /\ assets' = assets
  BY UploadEffect DEF IInv
<1>2. /\ Only(h) /\ pc'[h] = "queue" /\ key'[h] = key[h] /\ snap'[h] = snap[h]
      /\ h \in Actors /\ versions \in Nat
      /\ \A a \in Actors : pc[a] = "idle"
      /\ ~Exists
  BY <1>1, Typed, FileAssumption DEF Turns, IInv, TypeInv, RowVersioned, Exists
<1>3. file'.status = "uploaded" /\ file'.version = versions + 1 /\ file'.blocks = {} /\ file'.pages = 0
  BY <1>1, RowRead
<1>4. Alone' /\ SnapsCurrent'
  BY <1>2, LeavesSnaps DEF IInv, Transaction
<1>5. Content'
  BY <1>3 DEF Content
<1>6. \A g \in Handlers : ~Replacing(g)'
  BY <1>2, Typed DEF Replacing, Only, IInv
<1>7. \A j \in Jobs : job'[j].version = job[j].version /\ job'[j].oldPages = job[j].oldPages
  BY <1>1 DEF JobsKept
<1>8. \A a \in Actors : key'[a] = key[a] /\ snap'[a] = snap[a]
  BY <1>2 DEF Only
<1>9. Given'
  <2>1. \A v \in Int : v <= versions => v <= versions'
    BY <1>1, <1>2
  <2>2. \A j \in Jobs : job[j].version \in Int
    BY FileAssumption DEF IInv, TypeInv, TypeOK, JobRow
  <2>3. \A a \in Actors : key[a] \in Int /\ snap[a].version \in Int
    BY FileAssumption DEF IInv, TypeInv, TypeOK, FileRow
  <2>4. file'.version <= versions'
    BY <1>1, <1>2, <1>3
  <2>. QED
    BY <1>7, <1>8, <2>1, <2>2, <2>3, <2>4 DEF IInv, KeysFresh, Given
<1>10. OwnPages'
  BY <1>7, <1>8 DEF IInv, OwnPages
<1>11. PagesKept'
  <2>1. \A a \in Actors : pc'[a] \in {"idle", "queue"}
    BY <1>2 DEF Only
  <2>. QED
    BY <1>3, <2>1 DEF PagesKept, Actors
<1>. QED
  BY <1>1, <1>4, <1>5, <1>6, <1>9, <1>10, <1>11 DEF IInv, KeysFresh

\* BeginReplace gives out a version that nothing carries yet.
LEMMA BeginReplaceKeeps ==
  ASSUME SerialStore, IInv, NEW h \in Handlers, BeginReplace(h)
  PROVE  IInv'
<1>1. /\ TypeInv' /\ Only(h) /\ JobsKept /\ pc[h] = "idle" /\ Exists
      /\ pc'[h] = "replace" /\ key'[h] = versions + 1 /\ snap'[h] = file
      /\ file' = file /\ versions' = versions + 1 /\ faults' = faults /\ assets' = assets
      /\ h \in Actors /\ versions \in Nat
  BY BeginReplaceEffect, Typed, FileAssumption DEF IInv
<1>2. Alone' /\ SnapsCurrent'
  BY <1>1, LeavesSnaps DEF IInv, Transaction
<1>3. Content'
  BY <1>1 DEF IInv, Content
<1>4. \A j \in Jobs : job'[j].version = job[j].version /\ job'[j].oldPages = job[j].oldPages
  BY <1>1 DEF JobsKept
<1>5. \A a \in Actors \ {h} : pc'[a] = pc[a] /\ key'[a] = key[a] /\ snap'[a] = snap[a]
  BY <1>1 DEF Only
<1>6. /\ \A j \in Jobs : job[j].version \in Nat /\ job[j].version <= versions
      /\ \A a \in Actors : /\ key[a] \in Nat /\ key[a] <= versions
                           /\ snap[a].version \in Nat /\ snap[a].version <= versions
      /\ file.version \in Nat /\ file.version <= versions
  BY FileAssumption DEF IInv, KeysFresh, Given, TypeInv, TypeOK, JobRow, FileRow
<1>7. Given'
  <2>1. \A a \in Actors : key'[a] <= versions + 1 /\ snap'[a].version <= versions + 1
    BY <1>1, <1>5, <1>6
  <2>2. \A j \in Jobs : job'[j].version <= versions + 1
    BY <1>1, <1>4, <1>6
  <2>. QED
    BY <1>1, <1>6, <2>1, <2>2 DEF Given
<1>8. ASSUME NEW g \in Handlers, Replacing(g)'
      PROVE  Fresh(g)'
  <2>1. CASE g = h
    <3>1. key'[g] = versions + 1
      BY <1>1, <2>1
    <3>2. \A a \in Actors : snap'[a].version # versions + 1
      BY <1>1, <1>5, <1>6
    <3>3. \A f \in Handlers \ {g} : key'[f] # versions + 1
      BY <1>1, <1>5, <1>6, <2>1, Typed DEF IInv
    <3>4. \A j \in Jobs : job'[j].version # versions + 1
      BY <1>1, <1>4, <1>6
    <3>. QED
      BY <1>1, <1>6, <3>1, <3>2, <3>3, <3>4 DEF Fresh
  <2>2. CASE g # h
    <3>1. Replacing(g) /\ Fresh(g) /\ key'[g] = key[g] /\ g \in Actors
      BY <1>5, <1>8, <2>2, Typed DEF IInv, KeysFresh, Replacing
    <3>2. \A a \in Actors : snap'[a].version # key[g]
      BY <1>1, <1>5, <3>1 DEF Fresh
    <3>3. \A f \in Handlers \ {g} : Replacing(f)' => key'[f] # key[g]
      <4>. SUFFICES ASSUME NEW f \in Handlers \ {g}, Replacing(f)' PROVE key'[f] # key[g]
        OBVIOUS
      <4>1. CASE f = h
        BY <1>1, <1>6, <3>1, <4>1
      <4>2. CASE f # h
        BY <1>5, <3>1, <4>2, Typed DEF Fresh, Replacing, IInv
      <4>. QED
        BY <4>1, <4>2
    <3>. QED
      BY <1>1, <1>4, <3>1, <3>2, <3>3 DEF Fresh
  <2>. QED
    BY <2>1, <2>2
<1>9. OwnPages'
  BY <1>1, PagesStayOwn DEF IInv, JobsKept
<1>10. ASSUME faults' = 0 PROVE PagesKept'
  <2>1. PagesKept
    BY <1>1, <1>10 DEF IInv
  <2>2. Exists' <=> Exists
    BY <1>1 DEF Exists
  <2>. QED
    BY <1>1, <2>1, <2>2, PagesStay
<1>. QED
  BY <1>1, <1>2, <1>3, <1>7, <1>8, <1>9, <1>10 DEF IInv, KeysFresh

\* Replace shows a version of which no job, no parse and no reader knows.
LEMMA ReplaceKeeps ==
  ASSUME SerialStore, IInv, NEW h \in Handlers, Replace(h)
  PROVE  IInv'
<1>1. /\ TypeInv' /\ Only(h) /\ JobsKept /\ pc[h] = "replacing"
      /\ pc'[h] = "tidy" /\ key'[h] = key[h] /\ snap'[h] = snap[h]
      /\ key[h] \in Versions
      /\ file' = Row("uploaded", key[h], {}, 0, "none")
      /\ versions' = versions /\ faults' = faults /\ assets' = assets
      /\ h \in Actors
  BY ReplaceEffect, Typed DEF IInv, Turns
<1>2. /\ file'.status = "uploaded" /\ file'.version = key[h] /\ file'.blocks = {}
      /\ file'.pages = 0
  BY <1>1, RowRead
<1>3. Alone' /\ SnapsCurrent'
  BY <1>1, LeavesSnaps DEF IInv, Transaction
<1>4. Content'
  BY <1>2 DEF Content
<1>5. Fresh(h) /\ key[h] <= versions
  BY <1>1 DEF IInv, KeysFresh, Given, Replacing
<1>6. \A j \in Jobs : job'[j].version = job[j].version /\ job'[j].oldPages = job[j].oldPages
  BY <1>1 DEF JobsKept
<1>7. \A a \in Actors : key'[a] = key[a] /\ snap'[a] = snap[a]
  BY <1>1 DEF Only
<1>8. Given'
  BY <1>1, <1>2, <1>5, <1>6, <1>7 DEF IInv, KeysFresh, Given
<1>9. ASSUME NEW g \in Handlers, Replacing(g)'
      PROVE  Fresh(g)'
  <2>1. g # h
    BY <1>1, <1>9 DEF Replacing
  <2>2. \A f \in Handlers \ {h} : Replacing(f)' <=> Replacing(f)
    BY <1>1, Typed DEF Only, Replacing, IInv
  <2>3. Fresh(g) /\ key[g] # key[h]
    BY <1>5, <1>9, <2>1, <2>2 DEF IInv, KeysFresh, Fresh
  <2>4. \A f \in Handlers \ {g} : Replacing(f)' => key[f] # key[g]
    BY <1>1, <2>2, <2>3 DEF Fresh, Replacing
  <2>. QED
    BY <1>2, <1>6, <1>7, <2>3, <2>4, Typed DEF Fresh, IInv
<1>10. OwnPages'
  BY <1>6, <1>7 DEF IInv, OwnPages
<1>11. ASSUME faults' = 0 PROVE PagesKept'
  <2>1. PagesKept
    BY <1>1, <1>11 DEF IInv
  <2>2. ASSUME NEW c \in Workers, pc'[c] # "idle" PROVE ~IsCurrent(c)'
    <3>1. pc[c] # "idle" /\ c \in Actors /\ c # h
      BY <1>1, <2>2, Typed DEF Only, IInv
    <3>2. key[c] # key[h]
      BY <1>5, <3>1, WorkerHasJob DEF Fresh, IInv
    <3>. QED
      BY <1>2, <1>7, <3>1, <3>2 DEF IsCurrent
  <2>3. \A g \in Handlers : snap'[g].version # file'.version
    BY <1>2, <1>5, <1>7, Typed DEF Fresh, IInv
  <2>. QED
    BY <1>2, <2>2, <2>3 DEF PagesKept
<1>. QED
  BY <1>1, <1>3, <1>4, <1>8, <1>9, <1>10, <1>11 DEF IInv, KeysFresh

LEMMA DeleteKeeps ==
  ASSUME SerialStore, IInv, NEW h \in Handlers, Delete(h)
  PROVE  IInv'
<1>1. /\ TypeInv' /\ Only(h) /\ JobsKept /\ pc[h] = "deleting"
      /\ pc'[h] = "tidy" /\ key'[h] = key[h] /\ snap'[h] = snap[h]
      /\ file' = Row("deleted", file.version, file.blocks, file.pages, file.review)
      /\ versions' = versions /\ faults' = faults /\ assets' = assets
      /\ h \in Actors
  BY DeleteEffect, Typed DEF IInv, Turns
<1>2. /\ file'.status = "deleted" /\ file'.version = file.version
      /\ file'.blocks = file.blocks /\ file'.pages = file.pages
  BY <1>1, RowRead
<1>3. Alone' /\ SnapsCurrent'
  BY <1>1, LeavesSnaps DEF IInv, Transaction
<1>4. Content'
  BY <1>2 DEF IInv, Content
<1>5. KeysFresh'
  BY <1>1, <1>2, KeysStayFresh DEF IInv, JobsKept, Replacing
<1>6. OwnPages'
  BY <1>1, PagesStayOwn DEF IInv, JobsKept
<1>7. PagesKept'
  <2>1. ~Exists'
    BY <1>2 DEF Exists
  <2>. QED
    BY <2>1 DEF PagesKept, IsCurrent
<1>. QED
  BY <1>1, <1>3, <1>4, <1>5, <1>6, <1>7 DEF IInv

\* Images go, those of versions that are not shown.
LEMMA ImagesGo ==
  ASSUME SerialStore, IInv, TypeInv', NEW a \in Actors, Only(a), JobsKept, file' = file,
         pc[a] \notin Transaction, pc'[a] \in {"idle", "queue", "complete", "fail"},
         snap'[a] \in {snap[a], NoFile}, key'[a] \in {key[a], 0},
         versions' = versions, faults' = faults,
         faults = 0 =>
           /\ \A v \in assets : v = file.version /\ Exists => v \in assets'
           /\ pc'[a] = "complete" => key'[a] \in assets'
  PROVE  IInv'
<1>1. Alone' /\ SnapsCurrent'
  BY LeavesSnaps DEF IInv, Transaction
<1>2. Content'
  BY DEF IInv, Content
<1>3. KeysFresh'
  BY KeysStayFresh DEF IInv, JobsKept, Replacing
<1>4. OwnPages'
  BY PagesStayOwn DEF IInv, JobsKept
<1>5. ASSUME faults' = 0 PROVE PagesKept'
  <2>1. PagesKept /\ file.pages \in {0, file.version}
    BY <1>5 DEF IInv, Content
  <2>2. \A v \in assets : v = file.version /\ Exists => v \in assets'
    BY <1>5
  <2>3. (file.pages # 0 /\ Exists => file.pages \in assets)'
    BY <2>1, <2>2 DEF PagesKept, Exists
  <2>4. ASSUME NEW c \in Workers, pc'[c] \in {"complete", "completing"}, IsCurrent(c)'
        PROVE  key'[c] \in assets'
    <3>1. CASE c = a
      BY <1>5, <2>4, <3>1
    <3>2. CASE c # a
      <4>1. pc[c] = pc'[c] /\ key[c] = key'[c]
        BY <3>2 DEF Only, Actors
      <4>2. IsCurrent(c) /\ key[c] \in assets /\ key[c] = file.version /\ Exists
        BY <2>1, <2>4, <4>1 DEF IsCurrent, Exists, PagesKept
      <4>. QED
        BY <2>2, <4>1, <4>2
    <3>. QED
      BY <3>1, <3>2
  <2>5. \A c \in Workers : pc'[c] = "cleanup" => ~IsCurrent(c)'
    BY <2>1 DEF Only, Actors, PagesKept, IsCurrent, Exists
  <2>6. \A g \in Handlers : pc'[g] = "tidy" => ~Exists' \/ snap'[g].version # file'.version
    BY <2>1 DEF Only, Actors, PagesKept, Exists
  <2>. QED
    BY <2>3, <2>4, <2>5, <2>6 DEF PagesKept
<1>. QED
  BY <1>1, <1>2, <1>3, <1>4, <1>5 DEF IInv

LEMMA TidyKeeps ==
  ASSUME SerialStore, IInv, NEW h \in Handlers, Tidy(h)
  PROVE  IInv'
<1>1. /\ TypeInv' /\ (Ends(h) \/ Turns(h, "queue")) /\ JobsKept /\ pc[h] = "tidy"
      /\ file' = file /\ versions' = versions /\ faults' = faults
      /\ assets' = assets \ {snap[h].pages}
      /\ h \in Actors
  BY TidyEffect, Typed DEF IInv
<1>2. /\ Only(h) /\ pc'[h] \in {"idle", "queue"}
      /\ snap'[h] \in {snap[h], NoFile} /\ key'[h] \in {key[h], 0}
  BY <1>1 DEF Ends, Turns
<1>3. snap[h].pages \in {0, snap[h].version}
  BY <1>1 DEF IInv, OwnPages
<1>4. faults = 0 /\ Exists => snap[h].version # file.version /\ file.version # 0
  BY <1>1, RowExists, Bounds DEF IInv, PagesKept
<1>. QED
  BY <1>1, <1>2, <1>3, <1>4, ImagesGo DEF Transaction

LEMMA ParseKeeps ==
  ASSUME SerialStore, IInv, NEW c \in Workers, Parse(c)
  PROVE  IInv'
<1>1. /\ TypeInv' /\ Turns(c, "complete") /\ JobsKept /\ pc[c] = "parse"
      /\ file' = file /\ versions' = versions /\ faults' = faults
      /\ assets' = (assets \cup {key[c]}) \ ({job[work[c]].oldPages} \ {key[c]})
      /\ c \in Actors
  BY ParseEffect, Typed DEF IInv
<1>2. job[work[c]].oldPages \in {0, key[c]}
  BY <1>1, WorkerHasJob DEF IInv, OwnPages
<1>3. Exists => file.version # 0
  BY RowExists, Bounds DEF IInv
<1>4. \A v \in assets : v = file.version /\ Exists => v \in assets'
  BY <1>1, <1>2, <1>3
<1>5. key[c] \in assets'
  BY <1>1
<1>. QED
  BY <1>1, <1>4, <1>5, ImagesGo DEF Turns, Transaction

LEMMA CleanUpKeeps ==
  ASSUME SerialStore, IInv, NEW c \in Workers, CleanUp(c)
  PROVE  IInv'
<1>1. /\ TypeInv' /\ Turns(c, "fail") /\ JobsKept /\ pc[c] = "cleanup"
      /\ file' = file /\ versions' = versions /\ faults' = faults
      /\ assets' = assets \ {key[c]}
      /\ c \in Actors
  BY CleanUpEffect, Typed DEF IInv
<1>2. faults = 0 /\ Exists => key[c] # file.version
  BY <1>1 DEF IInv, PagesKept, IsCurrent
<1>. QED
  BY <1>1, <1>2, ImagesGo DEF Turns, Transaction

\* CompleteParse replaces what it has read, which is all there is.
LEMMA CompleteKeeps ==
  ASSUME SerialStore, IInv, NEW c \in Workers, CompleteParse(c)
  PROVE  IInv'
<1>1. /\ TypeInv' /\ Turns(c, "record") /\ JobsKept /\ pc[c] = "completing"
      /\ versions' = versions /\ faults' = faults /\ assets' = assets
      /\ c \in Actors
  BY CompleteEffect, Typed DEF IInv
<1>. DEFINE new == (file.blocks \ snap[c].blocks) \cup {[by |-> c, version |-> key[c]]}
<1>2. PICK r : file' = Row(StatusWritten(c, "parsed"), file.version, new, key[c], r)
  BY CompleteEffect DEF IInv
<1>3. Exists /\ snap[c] = file /\ key[c] = file.version
  BY <1>1 DEF IInv, SnapsCurrent, Current, Transaction
<1>4. StatusWritten(c, "parsed") = "parsed"
  BY <1>3 DEF StatusWritten
<1>5. new = {[by |-> c, version |-> file.version]}
  BY <1>3
<1>6. /\ file'.status = "parsed" /\ file'.version = file.version
      /\ file'.blocks = {[by |-> c, version |-> file.version]}
      /\ file'.pages = file.version
  BY <1>2, <1>3, <1>4, <1>5, RowRead
<1>7. Alone' /\ SnapsCurrent'
  BY <1>1, LeavesSnaps DEF IInv, Turns, Transaction
<1>8. Content'
  BY <1>6 DEF Content
<1>9. KeysFresh'
  BY <1>1, <1>6, KeysStayFresh, Typed DEF IInv, JobsKept, Turns
<1>10. OwnPages'
  BY <1>1, PagesStayOwn DEF IInv, JobsKept, Turns
<1>11. ASSUME faults' = 0 PROVE PagesKept'
  <2>1. PagesKept /\ key[c] \in assets
    BY <1>1, <1>3, <1>11 DEF IInv, PagesKept, IsCurrent
  <2>2. Exists'
    BY <1>6 DEF Exists
  <2>3. (file.pages # 0 /\ Exists => file.pages \in assets)'
    BY <1>1, <1>3, <1>6, <2>1
  <2>4. \A d \in Workers : pc'[d] \in {"complete", "completing", "cleanup"} =>
          pc'[d] = pc[d] /\ key'[d] = key[d] /\ (IsCurrent(d)' <=> IsCurrent(d))
    BY <1>1, <1>3, <1>6, <2>2 DEF Turns, Only, Actors, IsCurrent
  <2>5. \A h \in Handlers : pc'[h] = "tidy" => pc[h] = "tidy" /\ snap'[h] = snap[h]
    BY <1>1 DEF Turns, Only, Actors
  <2>. QED
    BY <1>1, <1>3, <1>6, <2>1, <2>3, <2>4, <2>5 DEF PagesKept
<1>. QED
  BY <1>1, <1>7, <1>8, <1>9, <1>10, <1>11 DEF IInv

-----------------------------------------------------------------------------
(* The steps that write a status or a review.                              *)

\* What a transaction read of the row is the row.
LEMMA WhatWasRead ==
  ASSUME IInv, NEW a \in Actors, pc[a] \in Transaction \ {"replacing", "deleting"}, NEW s
  PROVE  /\ Exists /\ StatusWritten(a, s) = s
         /\ snap[a].pages = file.pages
         /\ pc[a] \in {"reviewing", "revising"} => file.status = "parsed"
  BY DEF IInv, SnapsCurrent, Current, StatusWritten

LEMMA RetryParseKeeps ==
  ASSUME SerialStore, IInv, NEW h \in Handlers, RetryParse(h)
  PROVE  IInv'
<1>1. /\ TypeInv' /\ Turns(h, "queue") /\ JobsKept /\ pc[h] = "retrying"
      /\ file' = Row(StatusWritten(h, "parse_pending"), file.version, file.blocks,
                     snap[h].pages, snap[h].review)
      /\ versions' = versions /\ faults' = faults /\ assets' = assets
      /\ h \in Actors
  BY RetryParseEffect, Typed DEF IInv
<1>2. Exists /\ StatusWritten(h, "parse_pending") = "parse_pending" /\ snap[h].pages = file.pages
  BY <1>1, WhatWasRead DEF Transaction
<1>3. file' = Row("parse_pending", file.version, file.blocks, file.pages, snap[h].review)
  BY <1>1, <1>2
<1>. QED
  BY <1>1, <1>2, <1>3, WriterKeeps DEF Turns, JobsKept, Transaction

LEMMA ReviewKeeps ==
  ASSUME SerialStore, IInv, NEW h \in Handlers, Review(h)
  PROVE  IInv'
<1>1. /\ TypeInv' /\ (Turns(h, "retry") \/ Ends(h)) /\ JobsKept /\ pc[h] = "reviewing"
      /\ versions' = versions /\ faults' = faults /\ assets' = assets
      /\ h \in Actors
  BY ReviewEffect, Typed DEF IInv
<1>2. PICK r : file' = Row(file.status, file.version, file.blocks, snap[h].pages, r)
  BY ReviewEffect DEF IInv
<1>3. Exists /\ file.status = "parsed" /\ snap[h].pages = file.pages
  BY <1>1, WhatWasRead DEF Transaction
<1>4. file' = Row("parsed", file.version, file.blocks, file.pages, r)
  BY <1>2, <1>3
<1>5. /\ Only(h) /\ pc'[h] \in {"retry", "idle"}
      /\ snap'[h] \in {snap[h], NoFile} /\ key'[h] \in {key[h], 0}
  BY <1>1 DEF Turns, Ends
<1>. QED
  BY <1>1, <1>3, <1>4, <1>5, WriterKeeps DEF JobsKept, Transaction

LEMMA ReviseKeeps ==
  ASSUME SerialStore, IInv, NEW h \in Handlers, ReviseBlock(h)
  PROVE  IInv'
<1>1. /\ TypeInv' /\ Ends(h) /\ JobsKept /\ pc[h] = "revising"
      /\ versions' = versions /\ faults' = faults /\ assets' = assets
      /\ h \in Actors
  BY ReviseEffect, Typed DEF IInv
<1>2. PICK r : file' = Row(file.status, file.version, file.blocks, snap[h].pages, r)
  BY ReviseEffect DEF IInv
<1>3. Exists /\ file.status = "parsed" /\ snap[h].pages = file.pages
  BY <1>1, WhatWasRead DEF Transaction
<1>4. file' = Row("parsed", file.version, file.blocks, file.pages, r)
  BY <1>2, <1>3
<1>. QED
  BY <1>1, <1>3, <1>4, WriterKeeps DEF Ends, JobsKept, Transaction

LEMMA StartKeeps ==
  ASSUME SerialStore, IInv, NEW c \in Workers, StartParse(c)
  PROVE  IInv'
<1>1. /\ TypeInv' /\ Turns(c, "parse") /\ JobsKept /\ pc[c] = "starting"
      /\ file' = Row(StatusWritten(c, "parsing"), file.version, file.blocks,
                     file.pages, file.review)
      /\ versions' = versions /\ faults' = faults /\ assets' = assets
      /\ c \in Actors
  BY StartEffect, Typed DEF IInv
<1>2. Exists /\ StatusWritten(c, "parsing") = "parsing"
  BY <1>1, WhatWasRead DEF Transaction
<1>3. file' = Row("parsing", file.version, file.blocks, file.pages, file.review)
  BY <1>1, <1>2
<1>. QED
  BY <1>1, <1>2, <1>3, WriterKeeps DEF Turns, JobsKept, Transaction

LEMMA FailKeeps ==
  ASSUME SerialStore, IInv, NEW c \in Workers, FailParse(c)
  PROVE  IInv'
<1>1. /\ TypeInv' /\ Turns(c, "failjob") /\ JobsKept /\ pc[c] = "failing"
      /\ file' = Row(StatusWritten(c, "parse_failed"), file.version, file.blocks,
                     snap[c].pages, snap[c].review)
      /\ versions' = versions /\ faults' = faults /\ assets' = assets
      /\ c \in Actors
  BY FailEffect, Typed DEF IInv
<1>2. Exists /\ StatusWritten(c, "parse_failed") = "parse_failed" /\ snap[c].pages = file.pages
  BY <1>1, WhatWasRead DEF Transaction
<1>3. file' = Row("parse_failed", file.version, file.blocks, file.pages, snap[c].review)
  BY <1>1, <1>2
<1>. QED
  BY <1>1, <1>2, <1>3, WriterKeeps DEF Turns, JobsKept, Transaction

LEMMA QueueKeeps ==
  ASSUME SerialStore, IInv, NEW h \in Handlers, QueueParse(h)
  PROVE  IInv'
<1>1. /\ TypeInv' /\ Only(h) /\ pc[h] = "queue" /\ Isolated(h)
      /\ pc'[h] \in {"idle", "publish"}
      /\ versions' = versions /\ faults' = faults /\ assets' = assets
      /\ h \in Actors
      /\ \/ Ends(h) /\ file' = file /\ JobsKept
         \/ /\ Exists /\ snap'[h] = snap[h] /\ key'[h] = key[h]
            /\ file' = Row("parse_pending", file.version, file.blocks, file.pages, file.review)
            /\ \E j \in Jobs :
                 /\ job'[j].version = file.version /\ job'[j].oldPages = file.pages
                 /\ \A i \in Jobs \ {j} : job'[i] = job[i]
  BY QueueEffect, Typed DEF IInv
<1>2. CASE Ends(h) /\ file' = file /\ JobsKept
  BY <1>1, <1>2, QuietKeeps DEF Quiet, Ends, Replacing, Transaction
<1>3. CASE /\ Exists /\ snap'[h] = snap[h] /\ key'[h] = key[h]
           /\ file' = Row("parse_pending", file.version, file.blocks, file.pages, file.review)
           /\ \E j \in Jobs :
                /\ job'[j].version = file.version /\ job'[j].oldPages = file.pages
                /\ \A i \in Jobs \ {j} : job'[i] = job[i]
  <2>1. \A i \in Jobs :
          \/ job'[i].version = job[i].version /\ job'[i].oldPages = job[i].oldPages
          \/ job'[i].version = file.version /\ job'[i].oldPages = file.pages
    BY <1>3
  <2>. QED
    BY <1>1, <1>3, <2>1, WriterKeeps DEF Transaction
<1>. QED
  BY <1>1, <1>2, <1>3

-----------------------------------------------------------------------------
(* The steps that write neither.                                           *)

LEMMA HandlerQuietKeeps ==
  ASSUME SerialStore, IInv, NEW h \in Handlers,
         BeginDelete(h) \/ BeginUpdate(h) \/ FindFile(h) \/ RetryAfterReview(h)
  PROVE  IInv'
<1>. h \in Actors /\ h \notin Workers
  BY Typed DEF IInv
<1>1. CASE BeginDelete(h)
  <2>1. Quiet /\ Reads(h, "delete") /\ pc[h] = "idle"
    BY <1>1, BeginDeleteEffect DEF IInv
  <2>. QED
    BY <2>1, QuietKeeps DEF Reads, Replacing, Transaction
<1>2. CASE BeginUpdate(h)
  <2>1. /\ Quiet /\ pc[h] = "idle" /\ Exists /\ Isolated(h)
        /\ \/ Reads(h, "retrying")
           \/ file.status = "parsed" /\ (Reads(h, "reviewing") \/ Reads(h, "revising"))
    BY <1>2, BeginUpdateEffect DEF IInv
  <2>2. Current(h)'
    BY <2>1 DEF Quiet, Reads, Current, Exists
  <2>. QED
    BY <2>1, <2>2, QuietKeeps DEF Reads, Replacing
<1>3. CASE FindFile(h)
  <2>1. /\ Quiet /\ Isolated(h) /\ pc[h] \in {"replace", "delete"}
        /\ \/ Ends(h)
           \/ Exists /\ pc[h] = "replace" /\ Turns(h, "replacing")
           \/ Exists /\ pc[h] = "delete" /\ Turns(h, "deleting")
    BY <1>3, FindFileEffect DEF IInv
  <2>2. CASE Ends(h)
    BY <2>1, <2>2, QuietKeeps DEF Ends, Replacing, Transaction
  <2>3. ASSUME Exists, NEW to \in {"replacing", "deleting"}, Turns(h, to),
               to = "replacing" => pc[h] = "replace"
        PROVE  IInv'
    <3>1. Current(h)'
      BY <2>1, <2>3 DEF Quiet, Turns, Current, Exists
    <3>. QED
      BY <2>1, <2>3, <3>1, QuietKeeps DEF Turns, Replacing
  <2>. QED
    BY <2>1, <2>2, <2>3
<1>4. CASE RetryAfterReview(h)
  <2>1. /\ Quiet /\ Isolated(h) /\ pc[h] = "retry"
        /\ (Exists /\ Reads(h, "retrying")) \/ Turns(h, "queue")
    BY <1>4, RetryAfterReviewEffect DEF IInv
  <2>2. CASE Exists /\ Reads(h, "retrying")
    <3>1. Current(h)'
      BY <2>1, <2>2 DEF Quiet, Reads, Current, Exists
    <3>. QED
      BY <2>1, <2>2, <3>1, QuietKeeps DEF Reads, Replacing
  <2>3. CASE Turns(h, "queue")
    BY <2>1, <2>3, QuietKeeps DEF Turns, Replacing, Transaction
  <2>. QED
    BY <2>1, <2>2, <2>3
<1>. QED
  BY <1>1, <1>2, <1>3, <1>4

\* A worker whose version is not shown any more goes on to its cleanup.
LEMMA ReadFileKeeps ==
  ASSUME SerialStore, IInv, NEW c \in Workers,
         \/ ReadFile(c, "start", "starting", "fail")
         \/ ReadFile(c, "complete", "completing", "cleanup")
         \/ ReadFile(c, "fail", "failing", "failjob")
  PROVE  IInv'
<1>1. PICK to \in {"starting", "completing", "failing"},
           otherwise \in {"fail", "cleanup", "failjob"} :
        /\ Quiet /\ Isolated(c)
        /\ to = "completing" => pc[c] = "complete"
        /\ (IsCurrent(c) /\ Reads(c, to)) \/ (~IsCurrent(c) /\ Turns(c, otherwise))
  <2>1. ASSUME NEW from \in {"start", "complete", "fail"},
               NEW to \in {"starting", "completing", "failing"},
               NEW otherwise \in {"fail", "cleanup", "failjob"}, ReadFile(c, from, to, otherwise)
        PROVE  /\ Quiet /\ Isolated(c) /\ pc[c] = from
               /\ (IsCurrent(c) /\ Reads(c, to)) \/ (~IsCurrent(c) /\ Turns(c, otherwise))
    BY <2>1, ReadFileEffect DEF IInv, WorkerPC
  <2>. QED
    BY <2>1
<1>2. c \in Actors /\ c \notin Handlers
  BY Typed DEF IInv
<1>3. CASE IsCurrent(c) /\ Reads(c, to)
  <2>1. Current(c)'
    BY <1>1, <1>3 DEF Quiet, Reads, Current, IsCurrent, Exists
  <2>. QED
    BY <1>1, <1>2, <1>3, <2>1, QuietKeeps DEF Reads
<1>4. CASE ~IsCurrent(c) /\ Turns(c, otherwise)
  BY <1>1, <1>2, <1>4, QuietKeeps DEF Turns, Transaction
<1>. QED
  BY <1>1, <1>3, <1>4

LEMMA TakesKeeps ==
  ASSUME SerialStore, IInv, NEW c \in Workers, NEW j \in Jobs, Takes(c, j)
  PROVE  IInv'
<1>1. /\ Quiet /\ Only(c)
      /\ pc'[c] = "claimed" /\ key'[c] = job[j].version /\ snap'[c] = snap[c]
      /\ c \in Actors /\ c \notin Handlers
  BY TakesEffect, Typed DEF IInv
<1>. QED
  BY <1>1, QuietKeeps DEF Transaction

LEMMA PassKeeps ==
  ASSUME SerialStore, IInv, NEW a \in Actors, Quiet, Passes(a)
  PROVE  IInv'
<1>1. CASE Ends(a)
  BY <1>1, QuietKeeps DEF Ends, Replacing, Transaction
<1>2. ASSUME NEW to \in {"start", "fail", "raise", "cleanup"}, Turns(a, to),
             to = "cleanup" => faults' # 0
      PROVE  IInv'
  BY <1>2, QuietKeeps DEF Turns, Replacing, Transaction
<1>. QED
  BY <1>1, <1>2 DEF Passes

LEMMA StutterKeeps ==
  ASSUME IInv, UNCHANGED vars
  PROVE  IInv'
<1>1. TypeInv'
  BY StutterTypes DEF IInv
<1>2. Alone' /\ SnapsCurrent' /\ Content'
  BY DEF vars, IInv, Alone, SnapsCurrent, Current, Exists, Content
<1>3. KeysFresh' /\ OwnPages'
  BY DEF vars, IInv, KeysFresh, Given, Fresh, Replacing, OwnPages
<1>4. faults' = 0 => PagesKept'
  BY DEF vars, IInv, PagesKept, Exists, IsCurrent
<1>. QED
  BY <1>1, <1>2, <1>3, <1>4 DEF IInv

LEMMA StepInv == ASSUME SerialStore PROVE IInv /\ [Next]_vars => IInv'
<1>. SUFFICES ASSUME IInv, [Next]_vars PROVE IInv'
  OBVIOUS
<1>1. ASSUME NEW h \in Handlers, HandlerStep(h) \/ HandlerProgress(h)
      PROVE  IInv'
  <2>1. CASE Publish(h)
    BY <2>1, OtherPasses, PassKeeps, Typed DEF IInv
  <2>. QED
    BY <1>1, <2>1, UploadKeeps, BeginReplaceKeeps, HandlerQuietKeeps, ReplaceKeeps, DeleteKeeps,
       TidyKeeps, RetryParseKeeps, ReviewKeeps, ReviseKeeps, QueueKeeps
    DEF HandlerStep, HandlerProgress
<1>2. ASSUME NEW c \in Workers, WorkerStep(c)
      PROVE  IInv'
  <2>1. CASE MarkRunning(c) \/ ParseFails(c) \/ RecordSuccess(c) \/ FailJob(c) \/ Raise(c)
    BY <2>1, WorkerPasses, PassKeeps, Typed DEF IInv
  <2>. QED
    BY <1>2, <2>1, TakesKeeps, ReadFileKeeps, StartKeeps, ParseKeeps, CompleteKeeps, CleanUpKeeps,
       FailKeeps DEF WorkerStep, WorkerProgress, Takes
<1>3. CASE FaultStep
  <2>1. ASSUME NEW c \in Workers, BodyBreaks(c) \/ RetryRow(c) PROVE IInv'
    BY <2>1, WorkerPasses, PassKeeps, Typed DEF IInv
  <2>2. ASSUME NEW a \in Actors, Crash(a) \/ (a \in Handlers /\ PublishFails(a)) PROVE IInv'
    BY <2>2, OtherPasses, PassKeeps DEF IInv
  <2>. QED
    BY <1>3, <2>1, <2>2, Typed DEF FaultStep, IInv
<1>. QED
  BY <1>1, <1>2, <1>3, WorkerSteps, StutterKeeps DEF Next

-----------------------------------------------------------------------------
(* What a parsed file shows.                                               *)

\* complete_task_file_parse tests the key of its job against the row it
\* writes: with serializable transactions a parsed file shows the blocks and
\* the pages of its current version, whoever replaces it or parses it again.
THEOREM ParsedIsCurrentHolds == ASSUME SerialStore PROVE Spec => []ParsedIsCurrent
<1>1. IInv => ParsedIsCurrent
  BY DEF IInv, Content, ParsedIsCurrent
<1>. QED
  BY <1>1, InitInv, StepInv, PTL DEF Spec

\* As long as nothing fails, no handler's tidying up and no worker's cleanup
\* takes away the page images that the row lists.
THEOREM PagesServedHolds == ASSUME SerialStore PROVE Spec => []UndisturbedPagesServed
<1>1. IInv => UndisturbedPagesServed
  BY DEF IInv, PagesKept, UndisturbedPagesServed, ListedPagesServed
<1>. QED
  BY <1>1, InitInv, StepInv, PTL DEF Spec

-----------------------------------------------------------------------------
(* The lifecycle that the other components rely on.                        *)

\* Rows that differ in what the lifecycle does not look at.
LEMMA MovesLifecycle ==
  ASSUME Exists, NEW s \in {"parse_pending", "parsing", "parse_failed"}, NEW p, NEW r,
         file' = Row(s, file.version, file.blocks, p, r)
  PROVE  Lifecycle!Move
<1>1. file'.status = s /\ file'.version = file.version /\ file'.blocks = file.blocks
  BY RowRead
<1>. QED
  BY <1>1 DEF Exists, Lifecycle!Move, Lifecycle!Live

LEMMA RestsLifecycle ==
  ASSUME \/ file' = file
         \/ \E p, r : file' = Row(file.status, file.version, file.blocks, p, r)
  PROVE  UNCHANGED Lifecycle!fileVars
<1>1. file'.status = file.status /\ file'.version = file.version /\ file'.blocks = file.blocks
  BY RowRead
<1>. QED
  BY <1>1 DEF Lifecycle!fileVars

\* A handler's transaction is a step of the lifecycle, or none.
LEMMA HandlerLifecycle ==
  ASSUME SerialStore, IInv, NEW h \in Handlers, HandlerStep(h) \/ HandlerProgress(h)
  PROVE  [Lifecycle!Next]_(Lifecycle!fileVars)
<1>. h \in Actors
  BY Typed DEF IInv
<1>1. CASE Upload(h)
  <2>1. file.status = "absent" /\ file' = Row("uploaded", versions + 1, {}, 0, "none")
    BY <1>1, UploadEffect DEF IInv
  <2>2. file.blocks = {}
    BY <2>1 DEF IInv, TypeInv, RowVersioned, NoFile
  <2>3. versions + 1 \in Nat \ {0}
    BY Typed, FileAssumption DEF IInv
  <2>4. file'.status = "uploaded" /\ file'.version = versions + 1 /\ file'.blocks = {}
    BY <2>1, RowRead
  <2>5. Lifecycle!Upload
    BY <2>1, <2>2, <2>3, <2>4 DEF Lifecycle!Upload
  <2>. QED
    BY <2>5 DEF Lifecycle!Next
<1>2. CASE Replace(h)
  <2>1. /\ pc[h] = "replacing" /\ key[h] \in Versions
        /\ file' = Row("uploaded", key[h], {}, 0, "none")
    BY <1>2, ReplaceEffect DEF IInv
  <2>2. Exists /\ key[h] # file.version /\ key[h] \in Nat \ {0}
    BY <2>1, FileAssumption DEF IInv, SnapsCurrent, Current, Transaction, KeysFresh, Fresh, Replacing,
       Versions
  <2>3. file'.status = "uploaded" /\ file'.version = key[h] /\ file'.blocks = {}
    BY <2>1, RowRead
  <2>4. Lifecycle!Replace
    BY <2>2, <2>3 DEF Lifecycle!Replace, Lifecycle!Live, Exists
  <2>. QED
    BY <2>4 DEF Lifecycle!Next
<1>3. CASE Delete(h)
  <2>1. /\ pc[h] = "deleting"
        /\ file' = Row("deleted", file.version, file.blocks, file.pages, file.review)
    BY <1>3, DeleteEffect DEF IInv
  <2>2. Exists
    BY <2>1 DEF IInv, SnapsCurrent, Current, Transaction
  <2>3. file'.status = "deleted" /\ file'.version = file.version /\ file'.blocks = file.blocks
    BY <2>1, RowRead
  <2>4. Lifecycle!Delete
    BY <2>2, <2>3 DEF Lifecycle!Delete, Lifecycle!Live, Exists
  <2>. QED
    BY <2>4 DEF Lifecycle!Next
<1>4. CASE RetryParse(h)
  <2>1. /\ pc[h] = "retrying"
        /\ file' = Row(StatusWritten(h, "parse_pending"), file.version, file.blocks,
                       snap[h].pages, snap[h].review)
    BY <1>4, RetryParseEffect DEF IInv
  <2>2. Exists /\ StatusWritten(h, "parse_pending") = "parse_pending"
    BY <2>1, WhatWasRead DEF Transaction
  <2>. QED
    BY <2>1, <2>2, MovesLifecycle DEF Lifecycle!Next
<1>5. CASE QueueParse(h)
  <2>1. \/ file' = file
        \/ Exists /\ file' = Row("parse_pending", file.version, file.blocks, file.pages, file.review)
    BY <1>5, QueueEffect DEF IInv
  <2>. QED
    BY <2>1, MovesLifecycle, RestsLifecycle DEF Lifecycle!Next
<1>6. CASE Review(h) \/ ReviseBlock(h)
  BY <1>6, ReviewEffect, ReviseEffect, RestsLifecycle DEF IInv
<1>7. CASE \/ BeginReplace(h) \/ BeginDelete(h) \/ BeginUpdate(h) \/ FindFile(h) \/ Tidy(h)
           \/ RetryAfterReview(h) \/ Publish(h)
  <2>1. file' = file
    BY <1>7, BeginReplaceEffect, BeginDeleteEffect, BeginUpdateEffect, FindFileEffect, TidyEffect,
       RetryAfterReviewEffect, OtherPasses DEF IInv, Quiet
  <2>. QED
    BY <2>1, RestsLifecycle
<1>. QED
  BY <1>1, <1>2, <1>3, <1>4, <1>5, <1>6, <1>7 DEF HandlerStep, HandlerProgress

LEMMA WorkerLifecycle ==
  ASSUME SerialStore, IInv, NEW c \in Workers, WorkerStep(c)
  PROVE  [Lifecycle!Next]_(Lifecycle!fileVars)
<1>1. CASE StartParse(c)
  <2>1. /\ pc[c] = "starting" /\ c \in Actors
        /\ file' = Row(StatusWritten(c, "parsing"), file.version, file.blocks,
                       file.pages, file.review)
    BY <1>1, StartEffect, Typed DEF IInv
  <2>2. Exists /\ StatusWritten(c, "parsing") = "parsing"
    BY <2>1, WhatWasRead DEF Transaction
  <2>. QED
    BY <2>1, <2>2, MovesLifecycle DEF Lifecycle!Next
<1>2. CASE FailParse(c)
  <2>1. /\ pc[c] = "failing" /\ c \in Actors
        /\ file' = Row(StatusWritten(c, "parse_failed"), file.version, file.blocks,
                       snap[c].pages, snap[c].review)
    BY <1>2, FailEffect, Typed DEF IInv
  <2>2. Exists /\ StatusWritten(c, "parse_failed") = "parse_failed"
    BY <2>1, WhatWasRead DEF Transaction
  <2>. QED
    BY <2>1, <2>2, MovesLifecycle DEF Lifecycle!Next
<1>3. CASE CompleteParse(c)
  <2>. DEFINE new == (file.blocks \ snap[c].blocks) \cup {[by |-> c, version |-> key[c]]}
  <2>1. pc[c] = "completing" /\ c \in Actors
    BY <1>3, CompleteEffect, Typed DEF IInv
  <2>2. PICK r : file' = Row(StatusWritten(c, "parsed"), file.version, new, key[c], r)
    BY <1>3, CompleteEffect DEF IInv
  <2>3. Exists /\ snap[c] = file /\ key[c] = file.version
    BY <2>1 DEF IInv, SnapsCurrent, Current, Transaction
  <2>4. /\ file'.status = "parsed" /\ file'.version = file.version
        /\ file'.blocks = {[by |-> c, version |-> file.version]}
    BY <2>2, <2>3, RowRead DEF StatusWritten
  <2>5. Lifecycle!Show
    BY <2>3, <2>4 DEF Lifecycle!Show, Lifecycle!Live, Exists
  <2>. QED
    BY <2>5 DEF Lifecycle!Next
<1>4. CASE \/ \E j \in Jobs : Takes(c, j)
           \/ ReadFile(c, "start", "starting", "fail")
           \/ ReadFile(c, "complete", "completing", "cleanup")
           \/ ReadFile(c, "fail", "failing", "failjob")
           \/ Parse(c) \/ CleanUp(c)
  BY <1>4, RestsLifecycle DEF Takes, Claim, RunJob, ReadFile, Parse, CleanUp
<1>5. CASE MarkRunning(c) \/ ParseFails(c) \/ RecordSuccess(c) \/ FailJob(c) \/ Raise(c)
  BY <1>5, WorkerPasses, RestsLifecycle DEF IInv, Quiet
<1>. QED
  BY <1>1, <1>2, <1>3, <1>4, <1>5 DEF WorkerStep, WorkerProgress, Takes

LEMMA StepLifecycle ==
  ASSUME SerialStore
  PROVE  IInv /\ [Next]_vars => [Lifecycle!Next]_(Lifecycle!fileVars)
<1>. SUFFICES ASSUME IInv, [Next]_vars PROVE [Lifecycle!Next]_(Lifecycle!fileVars)
  OBVIOUS
<1>1. CASE FaultStep
  BY <1>1, WorkerPasses, OtherPasses, RestsLifecycle, Typed DEF FaultStep, IInv, Quiet
<1>2. CASE UNCHANGED vars
  BY <1>2, RestsLifecycle DEF vars
<1>. QED
  BY <1>1, <1>2, HandlerLifecycle, WorkerLifecycle, WorkerSteps DEF Next

\* Each transaction on the row is a step of the lifecycle that the rounds rely
\* on: a replacement brings a new version without content, only a parse of the
\* current version shows content.
THEOREM FileKeepsPromise == ASSUME SerialStore PROVE Spec => ImplementsTaskFile
<1>1. Init => Lifecycle!Init
  BY DEF Init, NoFile, Lifecycle!Init
<1>. QED
  BY <1>1, InitInv, StepInv, StepLifecycle, PTL DEF Spec, ImplementsTaskFile, Lifecycle!Spec

\* A deleted file stays deleted: a late parse finds the row gone.
THEOREM DeletedStays == ASSUME SerialStore PROVE Spec => DeletedIsFinal
<1>1. ASSUME [Lifecycle!Next]_(Lifecycle!fileVars)
      PROVE  [file.status = "deleted" => file'.status = "deleted"]_vars
  BY <1>1 DEF Lifecycle!Next, Lifecycle!fileVars, Lifecycle!Upload, Lifecycle!Replace,
     Lifecycle!Delete, Lifecycle!Move, Lifecycle!Show, Lifecycle!Live
<1>. QED
  BY <1>1, InitInv, StepInv, StepLifecycle, PTL DEF Spec, DeletedIsFinal
-----------------------------------------------------------------------------
(* No file is forgotten: what can be said of ParseEnds without fairness.   *)

\* Somebody has yet to parse the version that the file shows.
ToBeParsed ==
  \/ \E j \in Jobs : job[j].version = file.version /\ job[j].status = "queued"
  \/ \E c \in Workers : Parsing(c, file.version)

WaitingAttended == Waiting => ToBeParsed \/ \E h \in Handlers : WillQueue(h)

\* A job that keeps create_task_file_parse_job from inserting another one is
\* there for a parse that has yet to write.
ActiveCounts == Waiting /\ ActiveJob(file.version) # {} => ToBeParsed

InBody == {"start", "starting", "parse", "complete", "completing", "record", "cleanup",
           "fail", "failing", "failjob"}

\* Nobody but a fault puts a job that has begun back in the queue.
BegunLeavesQueue == \A c \in Workers : pc[c] \in InBody => job[work[c]].status # "queued"

NoReparse == \A h \in Handlers : pc[h] \notin {"retry", "retrying", "reviewing", "revising"}

AttendFacts == WaitingAttended /\ ActiveCounts /\ BegunLeavesQueue

AttendInv == NoReparse /\ (faults = 0 => AttendFacts)

\* A worker in the body of a job has the job.
LEMMA BodyJob ==
  ASSUME TypeInv, NEW c \in Workers, pc[c] \in InBody \cup {"claimed"}
  PROVE  work[c] \in Jobs /\ key[c] = job[work[c]].version /\ job[work[c]].status # "absent"
  BY DEF TypeInv, Roles, Working, InBody

LEMMA JobSet ==
  ASSUME TypeInv, NEW j \in Jobs, NEW s, SetJob(j, s)
  PROVE  /\ job'[j].status = s
         /\ \A i \in Jobs : job'[i].version = job[i].version
         /\ \A i \in Jobs \ {j} : job'[i] = job[i]
  BY DEF SetJob, TypeInv, TypeOK, JobRow

\* Who parses a version goes on with it, as long as it has nothing to write.
LEMMA ToBeParsedKept ==
  ASSUME TypeInv, NEW a \in Actors, Only(a), file'.version = file.version, ToBeParsed,
         \A j \in Jobs : job[j].version = file.version /\ job[j].status = "queued" =>
           \/ job'[j].version = file.version /\ job'[j].status = "queued"
           \/ a \in Workers /\ Parsing(a, file.version)',
         a \in Workers /\ Parsing(a, file.version) => Parsing(a, file.version)'
  PROVE  ToBeParsed'
<1>1. CASE \E j \in Jobs : job[j].version = file.version /\ job[j].status = "queued"
  BY <1>1 DEF ToBeParsed
<1>2. ASSUME NEW c \in Workers, Parsing(c, file.version) PROVE ToBeParsed'
  <2>1. Parsing(c, file.version)'
    BY <1>2, Typed DEF Only, Parsing
  <2>. QED
    BY <2>1 DEF ToBeParsed
<1>. QED
  BY <1>1, <1>2 DEF ToBeParsed

\* The row and the jobs stay.
LEMMA MoveAttends ==
  ASSUME TypeInv, AttendFacts, NEW a \in Actors, Only(a), job' = job, file' = file,
         a \in Workers /\ Parsing(a, file.version) => Parsing(a, file.version)' \/ ~Exists,
         a \in Workers /\ pc'[a] \in InBody => pc[a] \in InBody /\ work'[a] = work[a],
         a \in Handlers /\ WillQueue(a) =>
           WillQueue(a)' \/ ~Exists \/ ActiveJob(file.version) # {}
  PROVE  AttendFacts'
<1>1. BegunLeavesQueue'
  BY Typed DEF AttendFacts, BegunLeavesQueue, Only
<1>2. ASSUME Waiting, ToBeParsed PROVE ToBeParsed'
  BY <1>2, ToBeParsedKept DEF Waiting, Exists
<1>3. Waiting' = Waiting /\ ActiveJob(file.version)' = ActiveJob(file.version)
  BY DEF Waiting, ActiveJob
<1>4. ActiveCounts'
  BY <1>2, <1>3 DEF AttendFacts, ActiveCounts
<1>5. WaitingAttended'
  <2>. SUFFICES ASSUME Waiting PROVE ToBeParsed' \/ \E h \in Handlers : WillQueue(h)'
    BY <1>3 DEF WaitingAttended
  <2>1. CASE ToBeParsed
    BY <1>2, <2>1
  <2>2. ASSUME NEW h \in Handlers, WillQueue(h) PROVE ToBeParsed' \/ WillQueue(h)'
    <3>1. CASE h # a
      BY <2>2, <3>1, Typed DEF Only, WillQueue
    <3>2. CASE h = a
      <4>1. CASE WillQueue(h)'
        BY <4>1
      <4>2. CASE ~WillQueue(h)'
        <5>1. ActiveJob(file.version) # {}
          BY <2>2, <3>2, <4>2 DEF Waiting, Exists
        <5>. QED
          BY <1>2, <5>1 DEF AttendFacts, ActiveCounts
      <4>. QED
        BY <4>1, <4>2
    <3>. QED
      BY <3>1, <3>2
  <2>. QED
    BY <2>1, <2>2 DEF AttendFacts, WaitingAttended
<1>. QED
  BY <1>1, <1>4, <1>5 DEF AttendFacts

\* The row waits for nothing, or is about to be parsed.
LEMMA SettledAttends ==
  ASSUME BegunLeavesQueue', ~Waiting' \/ ToBeParsed'
  PROVE  AttendFacts'
  BY DEF AttendFacts, WaitingAttended, ActiveCounts

LEMMA HandlerMovesAttend ==
  ASSUME TypeInv, AttendFacts, NEW h \in Handlers,
         BeginReplace(h) \/ BeginDelete(h) \/ FindFile(h) \/ Tidy(h) \/ Publish(h)
  PROVE  AttendFacts'
<1>. USE Typed
<1>1. CASE BeginReplace(h)
  <2>1. Only(h) /\ pc[h] = "idle" /\ pc'[h] = "replace"
    BY <1>1, BeginReplaceEffect
  <2>2. job' = job /\ file' = file
    BY <1>1 DEF BeginReplace, Request
  <2>3. ~WillQueue(h)
    BY <2>1 DEF WillQueue
  <2>. QED
    BY <2>1, <2>2, <2>3, MoveAttends
<1>2. CASE BeginDelete(h)
  <2>1. Reads(h, "delete") /\ pc[h] = "idle"
    BY <1>2, BeginDeleteEffect
  <2>2. job' = job /\ file' = file
    BY <1>2 DEF BeginDelete, Request
  <2>. QED
    BY <2>1, <2>2, MoveAttends DEF Reads, WillQueue
<1>3. CASE FindFile(h)
  <2>1. /\ Ends(h) \/ \E to \in {"replacing", "deleting"} : Turns(h, to)
        /\ pc[h] \in {"replace", "delete"}
    BY <1>3, FindFileEffect
  <2>2. job' = job /\ file' = file
    BY <1>3 DEF FindFile
  <2>. QED
    BY <2>1, <2>2, MoveAttends DEF Turns, Ends, WillQueue
<1>4. CASE Tidy(h)
  <2>1. (Ends(h) /\ key[h] = 0) \/ Turns(h, "queue")
    <3>1. CASE key[h] = 0
      BY <1>4, <3>1, ReleaseMoves DEF Tidy
    <3>2. CASE key[h] # 0
      BY <1>4, <3>2, GotoMoves DEF Tidy, HandlerPC
    <3>. QED
      BY <3>1, <3>2
  <2>2. job' = job /\ file' = file /\ pc[h] = "tidy"
    BY <1>4 DEF Tidy
  <2>. QED
    BY <2>1, <2>2, MoveAttends DEF Turns, Ends, WillQueue
<1>5. CASE Publish(h)
  <2>1. Ends(h) /\ pc[h] = "publish" /\ job' = job /\ file' = file
    BY <1>5, ReleaseMoves DEF Publish
  <2>. QED
    BY <2>1, MoveAttends DEF Ends, WillQueue
<1>. QED
  BY <1>1, <1>2, <1>3, <1>4, <1>5

\* A test that fails says that the file shows another version, or none.
LEMMA WorkerMovesAttend ==
  ASSUME TypeInv, AttendFacts, NEW c \in Workers,
         \/ ReadFile(c, "start", "starting", "fail")
         \/ ReadFile(c, "complete", "completing", "cleanup")
         \/ ReadFile(c, "fail", "failing", "failjob")
         \/ Parse(c) \/ ParseFails(c) \/ CleanUp(c) \/ Raise(c)
  PROVE  AttendFacts'
<1>. USE Typed
<1>1. job' = job /\ file' = file
  BY DEF ReadFile, Parse, ParseFails, CleanUp, Raise
<1>2. CASE Raise(c)
  <2>1. Ends(c) /\ pc[c] = "raise"
    BY <1>2, ReleaseMoves DEF Raise
  <2>. QED
    BY <1>1, <2>1, MoveAttends DEF Ends, InBody, Parsing
<1>3. ASSUME NEW to \in InBody \ {"record", "failjob"}, Turns(c, to) \/ Reads(c, to), pc[c] \in InBody
      PROVE  AttendFacts'
  BY <1>1, <1>3, MoveAttends DEF Turns, Reads, InBody, Parsing
<1>4. CASE Parse(c) \/ ParseFails(c) \/ CleanUp(c)
  <2>1. /\ pc[c] \in {"parse", "cleanup"}
        /\ \E to \in {"complete", "fail"} : Turns(c, to)
    BY <1>4, GotoMoves DEF Parse, ParseFails, CleanUp, WorkerPC
  <2>. QED
    BY <1>3, <2>1 DEF InBody
<1>5. CASE ReadFile(c, "start", "starting", "fail") \/ ReadFile(c, "complete", "completing", "cleanup")
  <2>1. /\ pc[c] \in {"start", "complete"}
        /\ \E to \in {"starting", "fail", "completing", "cleanup"} : Turns(c, to) \/ Reads(c, to)
    BY <1>5, ReadFileEffect DEF WorkerPC
  <2>. QED
    BY <1>3, <2>1 DEF InBody
<1>6. CASE ReadFile(c, "fail", "failing", "failjob")
  <2>1. pc[c] = "fail" /\ (Reads(c, "failing") \/ (~IsCurrent(c) /\ Turns(c, "failjob")))
    BY <1>6, ReadFileEffect DEF WorkerPC
  <2>2. CASE ~IsCurrent(c) /\ Turns(c, "failjob")
    BY <1>1, <2>1, <2>2, MoveAttends DEF Turns, InBody, IsCurrent, Parsing
  <2>. QED
    BY <1>3, <2>1, <2>2 DEF InBody
<1>. QED
  BY <1>2, <1>4, <1>5, <1>6

LEMMA TakesAttends ==
  ASSUME TypeInv, AttendFacts, NEW c \in Workers, NEW j \in Jobs, Takes(c, j)
  PROVE  AttendFacts'
<1>1. Only(c) /\ pc[c] = "idle" /\ pc'[c] = "claimed" /\ job' = job /\ file' = file
  BY TakesEffect
<1>. QED
  BY <1>1, Typed, MoveAttends DEF Parsing, InBody

\* The job leaves the queue, and its version is parsed.
LEMMA MarkAttends ==
  ASSUME TypeInv, AttendFacts, NEW c \in Workers, MarkRunning(c)
  PROVE  AttendFacts'
<1>. DEFINE j == work[c]
<1>. USE Typed
<1>1. /\ Turns(c, "start") /\ pc[c] = "claimed" /\ file' = file /\ SetJob(j, "running")
  BY GotoMoves DEF MarkRunning, WorkerPC
<1>2. j \in Jobs /\ key[c] = job[j].version
  BY <1>1, BodyJob
<1>3. /\ job'[j].status = "running"
      /\ \A i \in Jobs : job'[i].version = job[i].version
      /\ \A i \in Jobs \ {j} : job'[i] = job[i]
  BY <1>1, <1>2, JobSet
<1>4. Only(c) /\ pc'[c] = "start" /\ key'[c] = job[j].version /\ work'[c] = j
  BY <1>1, <1>2 DEF Turns
<1>. HIDE DEF j
<1>5. BegunLeavesQueue'
  <2>. SUFFICES ASSUME NEW d \in Workers, pc'[d] \in InBody PROVE job'[work'[d]].status # "queued"
    BY DEF BegunLeavesQueue
  <2>1. CASE d = c
    BY <1>3, <1>4, <2>1
  <2>2. CASE d # c
    <3>1. pc[d] \in InBody /\ work'[d] = work[d]
      BY <1>4, <2>2 DEF Only
    <3>2. work[d] \in Jobs /\ job[work[d]].status # "queued"
      BY <3>1, BodyJob DEF AttendFacts, BegunLeavesQueue
    <3>. QED
      BY <1>3, <3>1, <3>2
  <2>. QED
    BY <2>1, <2>2
<1>6. Waiting' = Waiting /\ file'.version = file.version
  BY <1>1 DEF Waiting
<1>7. CASE job[j].version = file.version
  <2>1. Parsing(c, file.version)'
    BY <1>1, <1>4, <1>7 DEF Parsing
  <2>2. ToBeParsed'
    BY <2>1 DEF ToBeParsed
  <2>. QED
    BY <1>5, <2>2, SettledAttends
<1>8. CASE job[j].version # file.version
  <2>1. ToBeParsed => ToBeParsed'
    BY <1>1, <1>3, <1>4, <1>6, <1>8, ToBeParsedKept DEF Parsing
  <2>2. ActiveJob(file.version)' = ActiveJob(file.version)
    BY <1>1, <1>3, <1>8 DEF ActiveJob
  <2>3. \A h \in Handlers : WillQueue(h) => WillQueue(h)'
    BY <1>4 DEF WillQueue, Only
  <2>. QED
    BY <1>5, <1>6, <2>1, <2>2, <2>3 DEF AttendFacts, WaitingAttended, ActiveCounts
<1>. QED
  BY <1>7, <1>8

LEMMA EndAttends ==
  ASSUME TypeInv, AttendFacts, NEW c \in Workers, RecordSuccess(c) \/ FailJob(c)
  PROVE  AttendFacts'
<1>. DEFINE j == work[c]
<1>. USE Typed
<1>1. /\ pc[c] \in {"record", "failjob"} /\ file' = file
      /\ \E s \in {"succeeded", "failed"} : SetJob(j, s)
      /\ Ends(c) \/ Turns(c, "raise")
  BY GotoMoves, ReleaseMoves DEF RecordSuccess, FailJob, WorkerPC
<1>2. j \in Jobs /\ job[j].status # "queued"
  BY <1>1, BodyJob DEF AttendFacts, BegunLeavesQueue, InBody
<1>3. /\ job'[j].status \in {"succeeded", "failed"}
      /\ \A i \in Jobs : job'[i].version = job[i].version
      /\ \A i \in Jobs \ {j} : job'[i] = job[i]
  BY <1>1, <1>2, JobSet
<1>4. Only(c) /\ pc'[c] \in {"idle", "raise"}
  BY <1>1 DEF Ends, Turns
<1>. HIDE DEF j
<1>5. BegunLeavesQueue'
  <2>. SUFFICES ASSUME NEW d \in Workers, pc'[d] \in InBody PROVE job'[work'[d]].status # "queued"
    BY DEF BegunLeavesQueue
  <2>1. d # c /\ pc[d] \in InBody /\ work'[d] = work[d]
    BY <1>4 DEF Only, InBody
  <2>2. work[d] \in Jobs /\ job[work[d]].status # "queued"
    BY <2>1, BodyJob DEF AttendFacts, BegunLeavesQueue
  <2>. QED
    BY <1>3, <2>1, <2>2
<1>6. Waiting' = Waiting /\ file'.version = file.version
  BY <1>1 DEF Waiting
<1>7. ToBeParsed => ToBeParsed'
  BY <1>1, <1>2, <1>3, <1>4, <1>6, ToBeParsedKept DEF Parsing
<1>8. ActiveJob(file.version)' \subseteq ActiveJob(file.version)
  BY <1>1, <1>3 DEF ActiveJob
<1>9. \A h \in Handlers : WillQueue(h) => WillQueue(h)'
  BY <1>4 DEF WillQueue, Only
<1>. QED
  BY <1>5, <1>6, <1>7, <1>8, <1>9 DEF AttendFacts, WaitingAttended, ActiveCounts

\* A worker that begins or ends a parse of the version that the file shows.
LEMMA WriteAttends ==
  ASSUME SerialStore, IInv, AttendFacts, NEW c \in Workers,
         StartParse(c) \/ CompleteParse(c) \/ FailParse(c)
  PROVE  AttendFacts'
<1>. USE Typed DEF IInv
<1>1. pc[c] \in {"starting", "completing", "failing"} /\ job' = job
  BY DEF StartParse, CompleteParse, FailParse
<1>2. snap[c] = file /\ key[c] = file.version
  BY <1>1 DEF SnapsCurrent, Current, Transaction, IInv
<1>3. \A s : StatusWritten(c, s) = s
  BY <1>2 DEF StatusWritten
<1>4. \/ file'.version = file.version /\ Turns(c, "parse")
      \/ file'.status = "parsed" /\ Turns(c, "record")
      \/ file'.status = "parse_failed" /\ Turns(c, "failjob")
  <2>1. CASE StartParse(c)
    BY <2>1, StartEffect, RowRead
  <2>2. CASE CompleteParse(c)
    <3>1. PICK b, r : file' = Row(StatusWritten(c, "parsed"), file.version, b, key[c], r)
      BY <2>2, CompleteEffect
    <3>2. file'.status = StatusWritten(c, "parsed")
      BY <3>1, RowRead
    <3>3. Turns(c, "record")
      BY <2>2, CompleteEffect
    <3>. QED
      BY <1>3, <3>2, <3>3
  <2>3. CASE FailParse(c)
    BY <1>3, <2>3, FailEffect, RowRead
  <2>. QED
    BY <2>1, <2>2, <2>3
<1>5. /\ work'[c] = work[c] /\ key'[c] = key[c] /\ Only(c)
      /\ pc'[c] \in {"parse", "record", "failjob"}
  BY <1>4 DEF Turns
<1>6. BegunLeavesQueue'
  BY <1>1, <1>5 DEF AttendFacts, BegunLeavesQueue, Only, InBody
<1>7. CASE file'.version = file.version /\ Turns(c, "parse")
  <2>1. Parsing(c, file.version)'
    BY <1>2, <1>5, <1>7 DEF Parsing, Turns
  <2>2. ToBeParsed'
    BY <2>1 DEF ToBeParsed
  <2>. QED
    BY <1>6, <2>2, SettledAttends
<1>8. CASE file'.status \in {"parsed", "parse_failed"}
  BY <1>6, <1>8, SettledAttends DEF Waiting
<1>. QED
  BY <1>4, <1>7, <1>8

LEMMA UploadAttends ==
  ASSUME TypeInv, AttendFacts, NEW h \in Handlers, Upload(h)
  PROVE  AttendFacts'
<1>. USE Typed
<1>1. /\ Turns(h, "queue") /\ job' = job /\ pc[h] = "idle" /\ file.status = "absent"
  BY UploadEffect DEF Upload
<1>2. /\ \A a \in Actors : pc[a] = "idle"
      /\ \A j \in Jobs : job[j].status = "absent"
  BY <1>1 DEF TypeInv, RowVersioned
<1>3. \A c \in Workers : pc'[c] = "idle"
  BY <1>1, <1>2 DEF Turns, Only
<1>4. BegunLeavesQueue'
  BY <1>3 DEF BegunLeavesQueue, InBody
<1>5. WaitingAttended'
  BY <1>1 DEF WaitingAttended, WillQueue, Turns
<1>6. ActiveCounts'
  BY <1>1, <1>2 DEF ActiveCounts, ActiveJob
<1>. QED
  BY <1>4, <1>5, <1>6 DEF AttendFacts

\* A replacement or a deletion cancels what is queued.
LEMMA Cancelled ==
  ASSUME TypeInv, CancelPending
  PROVE  \A j \in Jobs :
           /\ job'[j].version = job[j].version
           /\ job'[j].status = IF job[j].status = "queued" THEN "canceled" ELSE job[j].status
  BY DEF CancelPending, TypeInv, TypeOK, JobRow

LEMMA ReplaceAttends ==
  ASSUME SerialStore, IInv, AttendFacts, NEW h \in Handlers, Replace(h) \/ Delete(h)
  PROVE  AttendFacts'
<1>. USE Typed DEF IInv
<1>1. /\ Turns(h, "tidy") /\ pc[h] \in {"replacing", "deleting"} /\ CancelPending
      /\ \/ /\ pc[h] = "replacing" /\ key[h] \in Versions /\ file'.version = key[h]
         \/ file'.status = "deleted"
  <2>1. CASE Replace(h)
    <3>1. /\ Turns(h, "tidy") /\ pc[h] = "replacing" /\ key[h] \in Versions
          /\ file' = Row("uploaded", key[h], {}, 0, "none")
      BY <2>1, ReplaceEffect
    <3>2. file'.version = key[h]
      BY <3>1, RowRead
    <3>. QED
      BY <2>1, <3>1, <3>2 DEF Replace
  <2>2. CASE Delete(h)
    BY <2>2, DeleteEffect, RowRead DEF Delete
  <2>. QED
    BY <2>1, <2>2
<1>2. /\ Only(h) /\ pc'[h] = "tidy" /\ key'[h] = key[h]
      /\ \A j \in Jobs :
           /\ job'[j].version = job[j].version
           /\ job'[j].status = IF job[j].status = "queued" THEN "canceled" ELSE job[j].status
  BY <1>1, Cancelled DEF Turns
<1>3. BegunLeavesQueue'
  <2>1. \A c \in Workers : pc'[c] = pc[c] /\ work'[c] = work[c]
    BY <1>2 DEF Only
  <2>2. \A c \in Workers : pc[c] \in InBody => work[c] \in Jobs
    BY BodyJob
  <2>. QED
    BY <1>2, <2>1, <2>2 DEF BegunLeavesQueue
<1>4. CASE file'.status = "deleted"
  BY <1>3, <1>4, SettledAttends DEF Waiting
<1>5. CASE pc[h] = "replacing" /\ key[h] \in Versions /\ file'.version = key[h]
  <2>1. Fresh(h)
    BY <1>5 DEF KeysFresh, Replacing
  <2>2. \A j \in Jobs : job'[j].version # file'.version
    BY <1>2, <1>5, <2>1 DEF Fresh
  <2>3. ActiveCounts'
    BY <2>2 DEF ActiveCounts, ActiveJob
  <2>4. WaitingAttended'
    BY <1>2, <1>5, Bounds DEF WaitingAttended, WillQueue
  <2>. QED
    BY <1>3, <2>3, <2>4 DEF AttendFacts
<1>. QED
  BY <1>1, <1>4, <1>5

LEMMA QueueAttends ==
  ASSUME TypeInv, AttendFacts, NEW h \in Handlers, QueueParse(h)
  PROVE  AttendFacts'
<1>. USE Typed
<1>1. CASE ~(Exists /\ ActiveJob(file.version) = {})
  <2>1. Ends(h) /\ job' = job /\ file' = file /\ pc[h] = "queue"
    BY <1>1, ReleaseMoves DEF QueueParse
  <2>. QED
    BY <1>1, <2>1, MoveAttends DEF Ends
<1>2. CASE Exists /\ ActiveJob(file.version) = {}
  <2>1. PICK j \in Jobs :
          /\ job[j].status = "absent"
          /\ job' = [job EXCEPT ![j] = [status |-> "queued", version |-> file.version,
                                        oldPages |-> file.pages]]
          /\ file' = [file EXCEPT !.status = "parse_pending"]
          /\ pc' = [pc EXCEPT ![h] = "publish"]
          /\ work' = [work EXCEPT ![h] = j]
          /\ UNCHANGED <<key, snap>>
    BY <1>2 DEF QueueParse
  <2>2. /\ file'.version = file.version
        /\ job'[j].status = "queued" /\ job'[j].version = file.version
        /\ \A i \in Jobs \ {j} : job'[i] = job[i]
        /\ \A c \in Workers : work'[c] = work[c] /\ pc'[c] = pc[c]
    BY <2>1 DEF TypeInv, TypeOK, FileRow
  <2>3. ToBeParsed'
    BY <2>2 DEF ToBeParsed
  <2>4. \A c \in Workers : pc[c] \in InBody => work[c] \in Jobs \ {j}
    BY <2>1, BodyJob
  <2>5. BegunLeavesQueue'
    BY <2>2, <2>4 DEF AttendFacts, BegunLeavesQueue
  <2>. QED
    BY <2>3, <2>5, SettledAttends
<1>. QED
  BY <1>1, <1>2

\* Nothing but a fault counts as one.
LEMMA FaultsKept ==
  ASSUME TypeInv, [Next]_vars, ~FaultStep
  PROVE  faults' = faults
<1>1. ASSUME NEW h \in Handlers, HandlerStep(h) \/ HandlerProgress(h) PROVE faults' = faults
  BY <1>1 DEF HandlerStep, HandlerProgress, Upload, BeginReplace, BeginDelete, BeginUpdate, Request,
     FindFile, Replace, Delete, Tidy, RetryParse, Review, RetryAfterReview, ReviseBlock, QueueParse,
     Publish, limitVars
<1>2. ASSUME NEW c \in Workers, WorkerProgress(c) \/ \E j \in Jobs : RunJob(c, j)
      PROVE  faults' = faults
  BY <1>2 DEF WorkerProgress, Claim, RunJob, MarkRunning, ReadFile, StartParse, Parse, ParseFails,
     CompleteParse, RecordSuccess, CleanUp, FailParse, FailJob, Raise, limitVars
<1>3. CASE UNCHANGED vars
  BY <1>3 DEF vars
<1>. QED
  BY <1>1, <1>2, <1>3 DEF Next

\* A fault is counted.
LEMMA NoFault ==
  ASSUME TypeInv, faults' = 0
  PROVE  ~Fault /\ ~FaultStep
<1>1. ~Fault
  BY FaultCounted
<1>. QED
  BY <1>1 DEF FaultStep, PublishFails, BodyBreaks, RetryRow, Crash

LEMMA StepAttends ==
  ASSUME SerialStore, Requests \subseteq {"replace", "delete", "run"}, IInv, AttendInv, [Next]_vars
  PROVE  AttendInv'
<1>. USE Typed DEF IInv
<1>1. NoReparse'
  <2>1. ASSUME NEW a \in Actors, a \in Handlers => pc'[a] \notin {"retry", "retrying", "reviewing", "revising"},
               Only(a)
        PROVE  NoReparse'
    BY <2>1 DEF AttendInv, NoReparse, Only
  <2>2. ASSUME NEW h \in Handlers, HandlerStep(h) \/ HandlerProgress(h) PROVE NoReparse'
    <3>1. \A kind : Request(h, kind) => kind \in {"replace", "delete", "run"}
      BY DEF Request
    <3>2. ~BeginUpdate(h)
      BY <3>1 DEF BeginUpdate
    <3>3. ~RetryParse(h) /\ ~Review(h) /\ ~ReviseBlock(h) /\ ~RetryAfterReview(h)
      BY DEF AttendInv, NoReparse, RetryParse, Review, ReviseBlock, RetryAfterReview
    <3>4. Only(h) /\ pc'[h] \in {"queue", "replace", "delete", "replacing", "deleting", "idle", "tidy", "publish"}
      BY <2>2, <3>2, <3>3, UploadEffect, BeginReplaceEffect, BeginDeleteEffect, FindFileEffect,
         ReplaceEffect, DeleteEffect, TidyEffect, QueueEffect, ReleaseMoves
      DEF HandlerStep, HandlerProgress, Turns, Reads, Ends, Publish
    <3>. QED
      BY <2>1, <3>4
  <2>3. ASSUME NEW c \in Workers, WorkerStep(c) \/ BodyBreaks(c) \/ RetryRow(c) PROVE NoReparse'
    <3>1. ASSUME NEW from \in {"start", "complete", "fail"},
                 NEW to \in {"starting", "completing", "failing"},
                 NEW otherwise \in {"fail", "cleanup", "failjob"}, ReadFile(c, from, to, otherwise)
          PROVE  Only(c)
      BY <3>1, ReadFileEffect DEF WorkerPC, Turns, Reads
    <3>2. Only(c)
      BY <2>3, <3>1, TakesEffect, StartEffect, ParseEffect, CompleteEffect, CleanUpEffect, FailEffect,
         WorkerPasses DEF WorkerStep, WorkerProgress, Takes, Turns, Passes, Ends
    <3>. QED
      BY <2>1, <3>2
  <2>4. ASSUME NEW a \in Actors, Crash(a) \/ (a \in Handlers /\ PublishFails(a)) PROVE NoReparse'
    <3>1. Only(a) /\ pc'[a] = "idle"
      BY <2>4, ReleaseMoves DEF Crash, PublishFails, Ends
    <3>. QED
      BY <2>1, <3>1
  <2>5. CASE UNCHANGED vars
    BY <2>5 DEF vars, AttendInv, NoReparse
  <2>. QED
    BY <2>2, <2>3, <2>4, <2>5, WorkerSteps DEF Next, FaultStep
<1>2. ASSUME faults' = 0 PROVE AttendFacts'
  <2>1. ~Fault /\ ~FaultStep
    BY <1>2, NoFault
  <2>2. ASSUME faults # 0 PROVE FALSE
    BY <1>2, <2>1, <2>2, FaultsKept
  <2>3. AttendFacts
    BY <2>2 DEF AttendInv
  <2>4. ASSUME NEW h \in Handlers, HandlerStep(h) \/ HandlerProgress(h) PROVE AttendFacts'
    <3>1. ~BeginUpdate(h)
      BY DEF Request, BeginUpdate
    <3>2. ~RetryParse(h) /\ ~Review(h) /\ ~ReviseBlock(h) /\ ~RetryAfterReview(h)
      BY DEF AttendInv, NoReparse, RetryParse, Review, ReviseBlock, RetryAfterReview
    <3>. QED
      BY <2>3, <2>4, <3>1, <3>2, UploadAttends, HandlerMovesAttend, ReplaceAttends, QueueAttends
      DEF HandlerStep, HandlerProgress
  <2>5. ASSUME NEW c \in Workers, WorkerStep(c) PROVE AttendFacts'
    BY <2>3, <2>5, TakesAttends, MarkAttends, EndAttends, WriteAttends, WorkerMovesAttend
    DEF WorkerStep, WorkerProgress, Takes
  <2>6. CASE UNCHANGED vars
    BY <2>3, <2>6 DEF vars, AttendFacts, WaitingAttended, ActiveCounts, BegunLeavesQueue, Waiting,
       WillQueue, ToBeParsed, Parsing, ActiveJob
  <2>. QED
    BY <2>1, <2>4, <2>5, <2>6, WorkerSteps DEF Next
<1>. QED
  BY <1>1, <1>2 DEF AttendInv

\* With serializable transactions, without requests to parse again and without
\* faults, a file that waits for its parse has somebody who will see to it: a
\* handler, a queued job, or a worker that has yet to write; also when a worker
\* and run_job, or two calls of run_job, are at work on one job.
THEOREM FileNotForgottenHolds ==
  ASSUME SerialStore, Requests \subseteq {"replace", "delete", "run"}
  PROVE  Spec => []FileNotForgotten
<1>1. Init => AttendInv
  <2>. SUFFICES ASSUME Init PROVE AttendInv
    OBVIOUS
  <2>1. (\A a \in Actors : pc[a] = "idle") /\ file.status = "absent"
    BY DEF Init, NoFile
  <2>2. ~Waiting /\ BegunLeavesQueue /\ NoReparse
    BY <2>1 DEF Waiting, BegunLeavesQueue, InBody, NoReparse, Actors
  <2>. QED
    BY <2>2 DEF AttendInv, AttendFacts, WaitingAttended, ActiveCounts
<1>2. AttendInv => FileNotForgotten
  BY DEF AttendInv, AttendFacts, WaitingAttended, ToBeParsed, FileNotForgotten
<1>. QED
  BY <1>1, <1>2, InitInv, StepInv, StepAttends, PTL DEF Spec
=============================================================================
