--------------------------- MODULE DemoStoreProofs ---------------------------
(***************************************************************************)
(* Proofs about the in-memory store.  Of DemoFiles, for any jobs, threads, *)
(* versions and retries: the file of the in-memory store implements        *)
(* TaskFile, and it is not left as being parsed.  Of DemoStore, whose      *)
(* parts do not disturb each other: the run that is handed back is still   *)
(* to be answered, a version shows its revision as it is, the rules that   *)
(* are shown as published can be run, and every variable keeps its type.   *)
(***************************************************************************)
EXTENDS DemoStore, SequenceTheorems, TLAPS

-----------------------------------------------------------------------------
(* Rows with some of their fields written.                                 *)

\* The status written.
LEMMA FileStatusWritten ==
  ASSUME NEW f \in FileRow, NEW s
  PROVE  [f EXCEPT !.status = s] =
           [status |-> s, version |-> f.version, blocks |-> f.blocks, review |-> f.review]
  BY DEF FileRow

\* The review written.
LEMMA FileReviewWritten ==
  ASSUME NEW f \in FileRow, NEW r
  PROVE  [f EXCEPT !.review = r] =
           [status |-> f.status, version |-> f.version, blocks |-> f.blocks, review |-> r]
  BY DEF FileRow

\* The status and the version written.
LEMMA FileVersionWritten ==
  ASSUME NEW f \in FileRow, NEW s, NEW v
  PROVE  [f EXCEPT !.status = s, !.version = v] =
           [status |-> s, version |-> v, blocks |-> f.blocks, review |-> f.review]
<1>. DEFINE g == [status |-> s, version |-> f.version, blocks |-> f.blocks,
                  review |-> f.review]
<1>1. [f EXCEPT !.status = s, !.version = v] = [g EXCEPT !.version = v]
  BY FileStatusWritten
<1>. QED
  BY <1>1

\* The result of a parse written.
LEMMA FileBlocksWritten ==
  ASSUME NEW f \in FileRow, NEW s, NEW b, NEW r
  PROVE  [f EXCEPT !.status = s, !.blocks = b, !.review = r] =
           [status |-> s, version |-> f.version, blocks |-> b, review |-> r]
<1>. DEFINE g == [status |-> s, version |-> f.version, blocks |-> f.blocks,
                  review |-> f.review]
            h == [status |-> s, version |-> f.version, blocks |-> b,
                  review |-> f.review]
<1>1. [f EXCEPT !.status = s] = g
  BY FileStatusWritten
<1>2. [g EXCEPT !.blocks = b] = h
  OBVIOUS
<1>3. [h EXCEPT !.review = r] =
        [status |-> s, version |-> f.version, blocks |-> b, review |-> r]
  OBVIOUS
<1>. HIDE DEF g, h
<1>. QED
  BY <1>1, <1>2, <1>3

\* A row of a job with another status is a row.
LEMMA JobStatusWritten ==
  ASSUME NEW f \in [Jobs -> JobRow], NEW j \in Jobs,
         NEW s \in {"absent", "queued", "running", "succeeded", "failed", "canceled"}
  PROVE  [f EXCEPT ![j].status = s] \in [Jobs -> JobRow]
<1>. DEFINE row == [status |-> s, version |-> f[j].version, retries |-> f[j].retries]
<1>1. row \in JobRow
  BY DEF JobRow
<1>2. [f[j] EXCEPT !.status = s] = row
  BY DEF JobRow
<1>3. [f EXCEPT ![j].status = s] = [f EXCEPT ![j] = row]
  BY <1>2
<1>. HIDE DEF row
<1>. QED
  BY <1>1, <1>3

\* What a request writes to the rows of jobs, whatever thread holds the job.
LEMMA JobWritten ==
  ASSUME TypeOK, NEW j, NEW s \in {"running", "succeeded", "failed", "canceled"}, SetJob(j, s)
  PROVE  job' \in [Jobs -> JobRow]
<1>1. CASE j \in Jobs
  BY <1>1, JobStatusWritten DEF SetJob, TypeOK
<1>2. CASE j \notin Jobs
  <2>1. job' = job
    BY <1>2 DEF SetJob, TypeOK
  <2>. QED
    BY <2>1 DEF TypeOK
<1>. QED
  BY <1>1, <1>2

\* The rows of jobs after a cancellation are rows of jobs.
LEMMA CanceledRows ==
  ASSUME TypeOK PROVE Canceled \in [Jobs -> JobRow]
  BY DEF Canceled, JobRow, TypeOK

-----------------------------------------------------------------------------
(* Types.                                                                  *)

\* The store begins with rows of these types.
LEMMA TypeInit == Init => TypeOK
  BY DemoFilesAssumption DEF Init, TypeOK, FileRow, FileStatus, JobRow, Places

\* A handler keeps the types.
LEMMA HandleTypes ==
  ASSUME TypeOK, NEW t \in Threads, Handle(t) PROVE TypeOK'
<1>. USE DemoFilesAssumption DEF TypeOK, FileStatus, Places, At, Goto
<1>1. CASE Upload(t)
  <2>1. versions + 1 \in 1..MaxVersion
    BY <1>1 DEF Upload
  <2>2. file' = [status |-> "uploaded", version |-> versions + 1,
                 blocks |-> file.blocks, review |-> file.review]
    BY <1>1, FileVersionWritten DEF Upload
  <2>. QED
    BY <1>1, <2>1, <2>2 DEF Upload, FileRow
<1>2. CASE BeginReplace(t)
  BY <1>2 DEF BeginReplace, FileRow
<1>3. CASE CommitReplace(t)
  <2>1. CASE Exists
    <3>1. key[t] \in 0..MaxVersion
      OBVIOUS
    <3>2. file' \in FileRow
      BY <1>3, <2>1, <3>1 DEF CommitReplace, FileRow
    <3>. QED
      BY <1>3, <2>1, <3>2, CanceledRows DEF CommitReplace
  <2>2. CASE ~Exists
    <3>1. UNCHANGED <<file, job, versions>> /\ objects' \subseteq 1..MaxVersion
      BY <1>3, <2>2 DEF CommitReplace
    <3>2. Done(t)
      BY <1>3, <2>2 DEF CommitReplace
    <3>3. /\ pc' \in [Threads -> Places]
          /\ work' \in [Threads -> Jobs \cup {NoJob}]
      BY <3>2 DEF Done
    <3>4. /\ key' \in [Threads -> 0..MaxVersion]
          /\ old' \in [Threads -> 0..MaxVersion]
      BY <3>2 DEF Done
    <3>. QED
      BY <3>1, <3>3, <3>4
  <2>. QED
    BY <2>1, <2>2
<1>4. CASE Tidy(t)
  BY <1>4 DEF Tidy
<1>5. CASE Delete(t)
  <2>1. file' \in FileRow
    BY <1>5, FileStatusWritten DEF Delete, FileRow
  <2>. QED
    BY <1>5, <2>1, CanceledRows DEF Delete
<1>6. CASE RetryParse(t)
  <2>1. file' \in FileRow
    BY <1>6, FileStatusWritten DEF RetryParse, FileRow
  <2>. QED
    BY <1>6, <2>1 DEF RetryParse
<1>7. CASE UpdateBlock(t)
  <2>1. file' \in FileRow
    BY <1>7, FileReviewWritten DEF UpdateBlock, FileRow
  <2>. QED
    BY <1>7, <2>1 DEF UpdateBlock
<1>8. CASE QueueParse(t)
  <2>1. file' \in FileRow
    BY <1>8, FileStatusWritten DEF QueueParse, FileRow
  <2>2. [status |-> "queued", version |-> file.version, retries |-> 0] \in JobRow
    BY DEF JobRow, FileRow
  <2>3. job' \in [Jobs -> JobRow]
    BY <1>8, <2>2 DEF QueueParse
  <2>. QED
    BY <1>8, <2>1, <2>3 DEF QueueParse, Done
<1>9. ASSUME NEW decision \in {"accepted", "reparse"}, ReviewParse(t, decision)
      PROVE  TypeOK'
  <2>1. file' \in FileRow
    BY <1>9, FileReviewWritten DEF ReviewParse, FileRow
  <2>. QED
    BY <1>9, <2>1 DEF ReviewParse
<1>. QED
  BY <1>1, <1>2, <1>3, <1>4, <1>5, <1>6, <1>7, <1>8, <1>9 DEF Handle

\* A step of a job keeps the types.
LEMMA RunTypes ==
  ASSUME TypeOK, NEW t \in Threads, RunJob(t) PROVE TypeOK'
<1>. USE DemoFilesAssumption DEF TypeOK, FileStatus, Places, At, Goto
<1>1. ASSUME NEW j \in Jobs, TakeJob(t, j) PROVE TypeOK'
  <2>1. job[j].version \in 0..MaxVersion
    BY DEF JobRow
  <2>. QED
    BY <1>1, <2>1 DEF TakeJob
<1>2. CASE MarkRunning(t)
  <2>1. job' \in [Jobs -> JobRow]
    BY <1>2, JobWritten DEF MarkRunning
  <2>. QED
    BY <1>2, <2>1 DEF MarkRunning
<1>3. CASE StartParse(t)
  <2>1. file' \in FileRow
    BY <1>3, FileStatusWritten DEF StartParse, FileRow
  <2>. QED
    BY <1>3, <2>1 DEF StartParse
<1>4. CASE Parse(t)
  BY <1>4 DEF Parse
<1>5. CASE CompleteParse(t)
  <2>1. CASE IsCurrent(t)
    <3>1. PICK review \in {"pending", "not_required"} :
            file' = [file EXCEPT !.status = "parsed", !.blocks = {key[t]},
                                 !.review = review]
      BY <1>5, <2>1 DEF CompleteParse
    <3>2. file' = [status |-> "parsed", version |-> file.version,
                   blocks |-> {key[t]}, review |-> review]
      BY <3>1, FileBlocksWritten
    <3>. QED
      BY <1>5, <2>1, <3>2 DEF CompleteParse, FileRow
  <2>2. CASE ~ IsCurrent(t)
    BY <1>5, <2>2 DEF CompleteParse
  <2>. QED
    BY <2>1, <2>2
<1>6. CASE RecordSuccess(t)
  <2>1. job' \in [Jobs -> JobRow]
    BY <1>6, JobWritten DEF RecordSuccess
  <2>. QED
    BY <1>6, <2>1 DEF RecordSuccess, Done
<1>7. CASE FailParse(t)
  <2>1. file' \in FileRow
    BY <1>7, FileStatusWritten DEF FailParse, FileRow
  <2>. QED
    BY <1>7, <2>1 DEF FailParse
<1>8. CASE FailJob(t)
  <2>1. job' \in [Jobs -> JobRow]
    BY <1>8, JobWritten DEF FailJob
  <2>. QED
    BY <1>8, <2>1 DEF FailJob, Done
<1>. QED
  BY <1>1, <1>2, <1>3, <1>4, <1>5, <1>6, <1>7, <1>8 DEF RunJob

\* Every step keeps the types.
LEMMA TypeStep == TypeOK /\ [Next]_vars => TypeOK'
<1>. SUFFICES ASSUME TypeOK, [Next]_vars PROVE TypeOK'
  OBVIOUS
<1>1. ASSUME NEW j \in Jobs, CancelJob(j) PROVE TypeOK'
  <2>1. job' \in [Jobs -> JobRow]
    BY <1>1, JobWritten DEF CancelJob
  <2>. QED
    BY <1>1, <2>1 DEF CancelJob, TypeOK
<1>2. ASSUME NEW j \in Jobs, RetryJob(j) PROVE TypeOK'
  <2>1. [status |-> "queued", version |-> job[j].version, retries |-> job[j].retries + 1]
          \in JobRow
    BY <1>2, DemoFilesAssumption DEF RetryJob, TypeOK, JobRow
  <2>2. job' \in [Jobs -> JobRow]
    BY <1>2, <2>1 DEF RetryJob, TypeOK
  <2>. QED
    BY <1>2, <2>2 DEF RetryJob, TypeOK
<1>3. CASE UNCHANGED vars
  BY <1>3 DEF vars, TypeOK
<1>. QED
  BY <1>1, <1>2, <1>3, HandleTypes, RunTypes DEF Next

\* The row of the file, the jobs and the threads keep their types.
THEOREM DemoFileTypes == Spec => []TypeOK
<1>. QED
  BY TypeInit, TypeStep, PTL DEF Spec

-----------------------------------------------------------------------------
(* The promise of a task file.  A replacement that has stored its content  *)
(* holds a version of its own, which is not yet that of the file.          *)

Replacing == {t \in Threads : pc[t] = "replace"}

Fresh ==
  /\ file.version <= versions
  /\ \A t \in Replacing : key[t] \in (1..versions) \ {file.version}
  /\ \A t, u \in Replacing : key[t] = key[u] => t = u

\* Nothing but an upload or a replacement changes what Fresh speaks of.
LEMMA FreshKept ==
  ASSUME Fresh, file'.version = file.version, versions' = versions,
         \A u \in Threads : pc'[u] = "replace" => pc[u] = "replace" /\ key'[u] = key[u]
  PROVE  Fresh'
  BY DEF Fresh, Replacing

\* What a step that only moves the thread t leaves of the other threads.
LEMMA OthersKept ==
  ASSUME TypeOK, NEW t \in Threads, NEW p, NEW u \in Threads \ {t}, Goto(t, p)
  PROVE  pc'[u] = pc[u] /\ pc'[t] = p
  BY DEF Goto, TypeOK

\* A handler keeps the versions of the replacements apart.
LEMMA FreshHandled ==
  ASSUME TypeOK, Fresh, NEW t \in Threads, Handle(t) PROVE Fresh'
<1>. USE DEF At, Goto, Done, TypeOK
<1>1. CASE Upload(t)
  <2>1. file'.version = versions + 1 /\ versions' = versions + 1
    BY <1>1, FileVersionWritten DEF Upload
  <2>2. \A u \in Threads : pc'[u] = "replace" => pc[u] = "replace" /\ key'[u] = key[u]
    BY <1>1 DEF Upload
  <2>. QED
    BY <2>1, <2>2 DEF Fresh, Replacing
<1>2. CASE BeginReplace(t)
  <2>1. versions' = versions + 1 /\ file' = file /\ key'[t] = versions + 1
    BY <1>2 DEF BeginReplace
  <2>2. \A u \in Threads \ {t} : pc'[u] = pc[u] /\ key'[u] = key[u]
    BY <1>2 DEF BeginReplace
  <2>3. file.version \in Nat /\ versions \in Nat
    BY DEF FileRow
  <2>. QED
    BY <2>1, <2>2, <2>3 DEF Fresh, Replacing
<1>3. CASE CommitReplace(t)
  <2>1. \A u \in Threads : pc'[u] = "replace" =>
          u # t /\ pc[u] = "replace" /\ key'[u] = key[u]
    BY <1>3 DEF CommitReplace
  <2>2. versions' = versions /\ (file'.version = key[t] \/ file' = file)
    BY <1>3 DEF CommitReplace
  <2>3. t \in Replacing
    BY <1>3 DEF CommitReplace, Replacing
  <2>. QED
    BY <2>1, <2>2, <2>3 DEF Fresh, Replacing
<1>4. CASE Tidy(t)
  BY <1>4, FreshKept DEF Tidy
<1>5. CASE Delete(t)
  <2>1. file'.version = file.version
    BY <1>5, FileStatusWritten DEF Delete
  <2>. QED
    BY <1>5, <2>1, FreshKept DEF Delete
<1>6. CASE RetryParse(t)
  <2>1. file'.version = file.version
    BY <1>6, FileStatusWritten DEF RetryParse
  <2>. QED
    BY <1>6, <2>1, FreshKept DEF RetryParse
<1>7. CASE UpdateBlock(t)
  <2>1. file'.version = file.version
    BY <1>7, FileReviewWritten DEF UpdateBlock
  <2>. QED
    BY <1>7, <2>1, FreshKept DEF UpdateBlock
<1>8. CASE QueueParse(t)
  <2>1. file'.version = file.version
    BY <1>8, FileStatusWritten DEF QueueParse
  <2>. QED
    BY <1>8, <2>1, FreshKept DEF QueueParse
<1>9. ASSUME NEW decision \in {"accepted", "reparse"}, ReviewParse(t, decision)
      PROVE  Fresh'
  <2>1. file'.version = file.version
    BY <1>9, FileReviewWritten DEF ReviewParse
  <2>. QED
    BY <1>9, <2>1, FreshKept DEF ReviewParse
<1>. QED
  BY <1>1, <1>2, <1>3, <1>4, <1>5, <1>6, <1>7, <1>8, <1>9 DEF Handle

\* What a job does to the row: nothing, the status, or the blocks of the
\* version it works for, and only while that version is the current one.
Handled(t) ==
  \/ file' = file
  \/ /\ IsCurrent(t)
     /\ \E s \in {"parsing", "parse_failed"} : file' = [file EXCEPT !.status = s]
  \/ /\ IsCurrent(t)
     /\ file'.status = "parsed"
     /\ file'.version = file.version
     /\ file'.blocks = {file.version}

\* A step of a job is one of those.
LEMMA JobHandles ==
  ASSUME TypeOK, NEW t \in Threads, RunJob(t) PROVE Handled(t)
<1>1. CASE CompleteParse(t)
  <2>1. CASE IsCurrent(t)
    <3>1. PICK review \in {"pending", "not_required"} :
            file' = [file EXCEPT !.status = "parsed", !.blocks = {key[t]},
                                 !.review = review]
      BY <1>1, <2>1 DEF CompleteParse
    <3>2. file' = [status |-> "parsed", version |-> file.version,
                   blocks |-> {key[t]}, review |-> review]
      BY <3>1, FileBlocksWritten DEF TypeOK
    <3>3. key[t] = file.version
      BY <2>1 DEF IsCurrent
    <3>. QED
      BY <2>1, <3>2, <3>3 DEF Handled
  <2>2. CASE ~ IsCurrent(t)
    BY <1>1, <2>2 DEF CompleteParse, Handled
  <2>. QED
    BY <2>1, <2>2
<1>2. CASE StartParse(t)
  BY <1>2 DEF StartParse, Handled
<1>3. CASE FailParse(t)
  <2>1. CASE IsCurrent(t)
    BY <1>3, <2>1 DEF FailParse, Handled
  <2>2. CASE ~ IsCurrent(t)
    <3>1. file' = [file EXCEPT !.status = file.status]
      BY <1>3, <2>2 DEF FailParse
    <3>2. file' = file
      BY <3>1 DEF TypeOK, FileRow
    <3>. QED
      BY <3>2 DEF Handled
  <2>. QED
    BY <2>1, <2>2
<1>. QED
  BY <1>1, <1>2, <1>3
  DEF RunJob, TakeJob, MarkRunning, Parse, RecordSuccess, FailJob, Handled

\* A step of a job keeps the versions of the replacements apart.
LEMMA FreshRun ==
  ASSUME TypeOK, Fresh, NEW t \in Threads, RunJob(t) PROVE Fresh'
<1>1. file'.version = file.version
  BY JobHandles, FileStatusWritten DEF Handled, TypeOK
<1>2. versions' = versions
  BY DEF RunJob, TakeJob, MarkRunning, StartParse, Parse, CompleteParse, RecordSuccess,
         FailParse, FailJob
<1>3. \A u \in Threads :
        pc'[u] = "replace" => pc[u] = "replace" /\ key'[u] = key[u]
  BY DEF RunJob, TakeJob, MarkRunning, StartParse, Parse, CompleteParse, RecordSuccess,
         FailParse, FailJob, At, Goto, Done, TypeOK
<1>. QED
  BY <1>1, <1>2, <1>3, FreshKept

\* No replacement has begun.
LEMMA FreshInit == Init => Fresh
  BY DEF Init, Fresh, Replacing

\* Every step keeps the versions of the replacements apart.
LEMMA FreshStep == TypeOK /\ Fresh /\ [Next]_vars => Fresh'
<1>. SUFFICES ASSUME TypeOK, Fresh, [Next]_vars PROVE Fresh'
  OBVIOUS
<1>1. ASSUME NEW j \in Jobs, CancelJob(j) \/ RetryJob(j) PROVE Fresh'
  BY <1>1, FreshKept DEF CancelJob, RetryJob
<1>2. CASE UNCHANGED vars
  BY <1>2, FreshKept DEF vars
<1>. QED
  BY <1>1, <1>2, FreshHandled, FreshRun DEF Next

Promised == [Promise!Next]_(Promise!fileVars)

\* A handler keeps the promise.
LEMMA HandlerPromise ==
  ASSUME TypeOK, Fresh, NEW t \in Threads, Handle(t) PROVE Promised
<1>. USE DEF Promised, Promise!Next, Promise!fileVars, Promise!Live
<1>1. CASE Upload(t)
  <2>1. /\ file'.status = "uploaded" /\ file'.version = versions + 1
        /\ file'.blocks = file.blocks
    BY <1>1, FileVersionWritten DEF Upload, TypeOK
  <2>2. versions + 1 \in Nat \ {0}
    BY DEF TypeOK
  <2>. QED
    BY <1>1, <2>1, <2>2 DEF Upload, Promise!Upload
<1>2. CASE CommitReplace(t)
  <2>1. CASE Exists
    <3>1. key[t] \in Nat \ {0, file.version}
      BY <1>2, DemoFilesAssumption DEF CommitReplace, At, Fresh, Replacing, TypeOK
    <3>2. file' = [status |-> "uploaded", version |-> key[t], blocks |-> {},
                   review |-> "none"]
      BY <1>2, <2>1 DEF CommitReplace
    <3>. QED
      BY <2>1, <3>1, <3>2 DEF Exists, Promise!Replace
  <2>2. CASE ~ Exists
    BY <1>2, <2>2 DEF CommitReplace
  <2>. QED
    BY <2>1, <2>2
<1>3. CASE Delete(t)
  <2>1. /\ file'.status = "deleted" /\ file'.version = file.version
        /\ file'.blocks = file.blocks
    BY <1>3, FileStatusWritten DEF Delete, TypeOK
  <2>. QED
    BY <1>3, <2>1 DEF Delete, Exists, Promise!Delete
<1>4. CASE RetryParse(t)
  <2>1. CASE Exists
    <3>1. /\ file'.status = "parse_pending" /\ file'.version = file.version
          /\ file'.blocks = file.blocks
      BY <1>4, <2>1, FileStatusWritten DEF RetryParse, TypeOK
    <3>. QED
      BY <2>1, <3>1 DEF Exists, Promise!Move
  <2>2. CASE ~ Exists
    <3>1. file' = [file EXCEPT !.status = file.status]
      BY <1>4, <2>2 DEF RetryParse
    <3>2. file' = file
      BY <3>1 DEF TypeOK, FileRow
    <3>. QED
      BY <3>2
  <2>. QED
    BY <2>1, <2>2
<1>5. CASE UpdateBlock(t)
  <2>1. /\ file'.status = file.status /\ file'.version = file.version
        /\ file'.blocks = file.blocks
    BY <1>5, FileReviewWritten DEF UpdateBlock, TypeOK
  <2>. QED
    BY <2>1
<1>6. CASE QueueParse(t)
  <2>1. CASE Exists /\ ActiveJobs = {}
    <3>1. /\ file'.status = "parse_pending" /\ file'.version = file.version
          /\ file'.blocks = file.blocks
      BY <1>6, <2>1, FileStatusWritten DEF QueueParse, TypeOK
    <3>. QED
      BY <2>1, <3>1 DEF Exists, Promise!Move
  <2>2. CASE ~ (Exists /\ ActiveJobs = {})
    BY <1>6, <2>2 DEF QueueParse
  <2>. QED
    BY <2>1, <2>2
<1>7. ASSUME NEW decision \in {"accepted", "reparse"}, ReviewParse(t, decision)
      PROVE  Promised
  <2>1. /\ file'.status = file.status /\ file'.version = file.version
        /\ file'.blocks = file.blocks
    BY <1>7, FileReviewWritten DEF ReviewParse, TypeOK
  <2>. QED
    BY <2>1
<1>8. CASE BeginReplace(t) \/ Tidy(t)
  BY <1>8 DEF BeginReplace, Tidy
<1>. QED
  BY <1>1, <1>2, <1>3, <1>4, <1>5, <1>6, <1>7, <1>8 DEF Handle

\* A step of a job keeps the promise: it is a move, shows the content of the
\* current version, or is a stutter.
LEMMA JobPromise ==
  ASSUME TypeOK, NEW t \in Threads, RunJob(t) PROVE Promised
<1>. USE DEF Promised, Promise!Next, Promise!fileVars, Promise!Live
<1>1. CASE file' = file
  BY <1>1
<1>2. ASSUME IsCurrent(t), NEW s \in {"parsing", "parse_failed"},
             file' = [file EXCEPT !.status = s]
      PROVE  Promised
  <2>1. file'.status = s /\ file'.version = file.version /\ file'.blocks = file.blocks
    BY <1>2, FileStatusWritten DEF TypeOK
  <2>. QED
    BY <1>2, <2>1 DEF IsCurrent, Exists, Promise!Move
<1>3. CASE /\ IsCurrent(t)
           /\ file'.status = "parsed"
           /\ file'.version = file.version
           /\ file'.blocks = {file.version}
  BY <1>3 DEF IsCurrent, Exists, Promise!Show
<1>. QED
  BY <1>1, <1>2, <1>3, JobHandles DEF Handled

\* Every step keeps the promise of a task file.
LEMMA StepPromise == TypeOK /\ Fresh /\ [Next]_vars => Promised
<1>. SUFFICES ASSUME TypeOK, Fresh, [Next]_vars PROVE Promised
  OBVIOUS
<1>1. ASSUME NEW j \in Jobs, CancelJob(j) \/ RetryJob(j) PROVE Promised
  BY <1>1 DEF CancelJob, RetryJob, Promised, Promise!fileVars
<1>2. CASE UNCHANGED vars
  BY <1>2 DEF vars, Promised, Promise!fileVars
<1>. QED
  BY <1>1, <1>2, HandlerPromise, JobPromise DEF Next

\* Whatever the handlers and the jobs do to each other, the in-memory store
\* shows only the content of the version a file has: it implements TaskFile.
THEOREM DemoFileKeepsPromise == Spec => ImplementsTaskFile
<1>1. Init => Promise!Init
  BY DEF Init, Promise!Init
<1>2. TypeOK /\ Fresh /\ [Next]_vars => [Promise!Next]_(Promise!fileVars)
  BY StepPromise DEF Promised
<1>. QED
  BY <1>1, <1>2, TypeInit, TypeStep, FreshInit, FreshStep, PTL
  DEF Spec, ImplementsTaskFile, Promise!Spec

-----------------------------------------------------------------------------
(* A file that is being parsed has a thread that will say how it ended.    *)

Attending == {t \in Threads : pc[t] \in {"parse", "complete", "fail"}}

Attended == file.status = "parsing" => \E t \in Attending : key[t] = file.version

\* A handler leaves the attending threads and their versions alone.
LEMMA AttendedHandled ==
  ASSUME TypeOK, Attended, NEW t \in Threads, Handle(t) PROVE Attended'
<1>1. t \notin Attending
  BY DEF Handle, Upload, BeginReplace, CommitReplace, Tidy, Delete, RetryParse, UpdateBlock,
         QueueParse, ReviewParse, At, Attending
<1>2. \A u \in Threads \ {t} : pc'[u] = pc[u] /\ key'[u] = key[u]
  BY DEF Handle, Upload, BeginReplace, CommitReplace, Tidy, Delete, RetryParse, UpdateBlock,
         QueueParse, ReviewParse, Goto, Done, TypeOK
<1>3. file'.status = "parsing" => file.status = "parsing" /\ file'.version = file.version
  <2>1. CASE Upload(t)
    BY <2>1, FileVersionWritten DEF Upload, TypeOK
  <2>2. CASE CommitReplace(t)
    BY <2>2 DEF CommitReplace
  <2>3. CASE Delete(t) \/ RetryParse(t) \/ QueueParse(t)
    BY <2>3, FileStatusWritten DEF Delete, RetryParse, QueueParse, TypeOK
  <2>4. CASE UpdateBlock(t)
    BY <2>4, FileReviewWritten DEF UpdateBlock, TypeOK
  <2>5. ASSUME NEW decision \in {"accepted", "reparse"}, ReviewParse(t, decision)
        PROVE  file'.status = file.status /\ file'.version = file.version
    BY <2>5, FileReviewWritten DEF ReviewParse, TypeOK
  <2>6. CASE BeginReplace(t) \/ Tidy(t)
    BY <2>6 DEF BeginReplace, Tidy
  <2>. QED
    BY <2>1, <2>2, <2>3, <2>4, <2>5, <2>6 DEF Handle
<1>. QED
  BY <1>1, <1>2, <1>3 DEF Attended, Attending

\* A thread that starts a parse attends to it until it has written its outcome.
LEMMA AttendedRun ==
  ASSUME TypeOK, Attended, NEW t \in Threads, RunJob(t) PROVE Attended'
<1>. USE DEF At, Goto, Done, TypeOK
<1>1. CASE StartParse(t)
  <2>1. CASE IsCurrent(t)
    <3>1. file'.version = file.version
      BY <1>1, <2>1, FileStatusWritten DEF StartParse
    <3>2. pc'[t] = "parse" /\ key'[t] = file.version
      BY <1>1, <2>1 DEF StartParse, IsCurrent
    <3>. QED
      BY <3>1, <3>2 DEF Attended, Attending
  <2>2. CASE ~ IsCurrent(t)
    <3>1. file' = file /\ key' = key /\ Attending \subseteq Attending'
      BY <1>1, <2>2 DEF StartParse, Attending
    <3>. QED
      BY <3>1 DEF Attended
  <2>. QED
    BY <2>1, <2>2
<1>2. CASE Parse(t)
  <2>1. file' = file /\ key' = key /\ Attending \subseteq Attending'
    BY <1>2 DEF Parse, Attending
  <2>. QED
    BY <2>1 DEF Attended
<1>3. CASE CompleteParse(t)
  <2>1. CASE IsCurrent(t)
    <3>1. PICK review \in {"pending", "not_required"} :
            file' = [file EXCEPT !.status = "parsed", !.blocks = {key[t]},
                                 !.review = review]
      BY <1>3, <2>1 DEF CompleteParse
    <3>2. file' = [status |-> "parsed", version |-> file.version,
                   blocks |-> {key[t]}, review |-> review]
      BY <3>1, FileBlocksWritten
    <3>3. file'.status = "parsed"
      BY <3>2
    <3>. QED
      BY <3>3 DEF Attended
  <2>2. CASE ~ IsCurrent(t)
    <3>1. file' = file /\ key' = key /\ Attending \subseteq Attending'
      BY <1>3, <2>2 DEF CompleteParse, Attending
    <3>. QED
      BY <3>1 DEF Attended
  <2>. QED
    BY <2>1, <2>2
<1>4. CASE FailParse(t)
  <2>1. CASE IsCurrent(t)
    <3>1. file'.status = "parse_failed"
      BY <1>4, <2>1, FileStatusWritten DEF FailParse
    <3>. QED
      BY <3>1 DEF Attended
  <2>2. CASE ~ IsCurrent(t)
    <3>1. file' = [file EXCEPT !.status = file.status]
      BY <1>4, <2>2 DEF FailParse
    <3>2. file' = file /\ key' = key
      BY <1>4, <3>1 DEF FailParse, FileRow
    <3>3. \A u \in Attending \ {t} : u \in Attending'
      BY <1>4 DEF FailParse, Attending
    <3>4. file.status = "parsing" => key[t] # file.version
      BY <2>2 DEF IsCurrent, Exists
    <3>. QED
      BY <3>2, <3>3, <3>4 DEF Attended
  <2>. QED
    BY <2>1, <2>2
<1>5. CASE MarkRunning(t) \/ RecordSuccess(t) \/ FailJob(t) \/ \E j \in Jobs : TakeJob(t, j)
  <2>1. file' = file
    BY <1>5 DEF MarkRunning, RecordSuccess, FailJob, TakeJob
  <2>2. \A u \in Attending : u \in Attending' /\ key'[u] = key[u]
    BY <1>5 DEF MarkRunning, RecordSuccess, FailJob, TakeJob, Attending
  <2>. QED
    BY <2>1, <2>2 DEF Attended
<1>. QED
  BY <1>1, <1>2, <1>3, <1>4, <1>5 DEF RunJob

\* Nothing is parsed at first.
LEMMA AttendedInit == Init => Attended
  BY DEF Init, Attended

\* Every step keeps a file that is being parsed attended.
LEMMA AttendedStep == TypeOK /\ Attended /\ [Next]_vars => Attended'
<1>. SUFFICES ASSUME TypeOK, Attended, [Next]_vars PROVE Attended'
  OBVIOUS
<1>1. ASSUME NEW j \in Jobs, CancelJob(j) \/ RetryJob(j) PROVE Attended'
  BY <1>1 DEF CancelJob, RetryJob, Attended, Attending
<1>2. CASE UNCHANGED vars
  BY <1>2 DEF vars, Attended, Attending
<1>. QED
  BY <1>1, <1>2, AttendedHandled, AttendedRun DEF Next

\* However two runs of the same job, replacements, retries and cancellations
\* interleave, the file is not left as being parsed when everybody is done.
THEOREM DemoFileNotLeftParsing == Spec => []NotLeftParsing
<1>1. Attended => NotLeftParsing
  BY DEF Attended, Attending, NotLeftParsing, At
<1>. QED
  BY <1>1, TypeInit, TypeStep, AttendedInit, AttendedStep, PTL DEF Spec

-----------------------------------------------------------------------------
(* The file as a part of the in-memory store.                              *)

\* The store does with the file what DemoFiles does, or nothing.
LEMMA DemoStoreFile == DemoSpec => Spec
<1>1. DemoInit => Init
  BY DEF DemoInit
<1>2. [DemoNext]_demoVars => [Next]_vars
  BY DEF DemoNext, demoVars, auditVars, standardVars, ruleVars
<1>. QED
  BY <1>1, <1>2, PTL DEF DemoSpec, Spec

\* What is proved of the file holds of it as a part of the in-memory store.
THEOREM DemoStoreFileHolds == DemoSpec => ImplementsTaskFile /\ []NotLeftParsing
  BY DemoStoreFile, DemoFileKeepsPromise, DemoFileNotLeftParsing, PTL

-----------------------------------------------------------------------------
(* The audit.                                                              *)

AuditInv ==
  /\ runs \in Seq(Auditing!RunRow)
  /\ exec \in [Auditing!Numbers -> [AuditRules -> Auditing!Execution]]
  /\ QueuedRunUnanswered

\* A thread that runs the job of a run knows which, and what it has listed.
Running(t) ==
  /\ at[t] = [run |-> at[t].run, todo |-> at[t].todo, broke |-> at[t].broke,
              report |-> at[t].report]
  /\ place[t] \in {"taken", "list", "run"} => at[t].run \in Auditing!Numbers
  /\ at[t].todo \subseteq AuditRules

RunningInv ==
  /\ DOMAIN at = Threads /\ DOMAIN place = Threads
  /\ \A t \in Threads : Running(t)

\* Whether an execution of the run is still to be answered.
Unanswered(n) == \E k \in AuditRules : exec[n][k].status \in {"pending", "running"}

\* A run that is added with something to answer, while the others keep what they
\* have to answer.
LEMMA RunAdded ==
  ASSUME AuditInv, NEW row \in Auditing!RunRow, runs' = Append(runs, row),
         NEW last, last = Len(runs) + 1, Unanswered(last)',
         exec' \in [Auditing!Numbers -> [AuditRules -> Auditing!Execution]],
         \A n \in DOMAIN runs : Unanswered(n) => Unanswered(n)'
  PROVE  AuditInv'
<1>1. /\ runs' \in Seq(Auditing!RunRow)
      /\ DOMAIN runs' = DOMAIN runs \cup {last}
      /\ \A n \in DOMAIN runs : runs'[n] = runs[n]
  BY AppendProperties DEF AuditInv
<1>2. ASSUME NEW n \in DOMAIN runs', runs'[n].status = "queued" PROVE Unanswered(n)'
  <2>1. CASE n \in DOMAIN runs
    BY <1>1, <1>2, <2>1
       DEF AuditInv, QueuedRunUnanswered, Auditing!QueuedRunUnanswered, Auditing!Active, Unanswered
  <2>. QED
    BY <1>1, <2>1
<1>. QED
  BY <1>1, <1>2
     DEF AuditInv, QueuedRunUnanswered, Auditing!QueuedRunUnanswered, Auditing!Active, Unanswered

\* The status of a run is written, if there is one.
LEMMA StatusWritten ==
  ASSUME AuditInv, NEW n, NEW s \in {"queued", "completed", "succeeded", "failed"}
  PROVE  LET rows == [runs EXCEPT ![n].status = s] IN
         /\ rows \in Seq(Auditing!RunRow) /\ DOMAIN rows = DOMAIN runs
         /\ \A m \in DOMAIN runs : rows[m] = IF m = n THEN [runs[m] EXCEPT !.status = s] ELSE runs[m]
         /\ n \in DOMAIN runs => rows[n].status = s
<1>. DEFINE rows == [runs EXCEPT ![n].status = s]
<1>1. runs \in Seq(Auditing!RunRow)
  BY DEF AuditInv
<1>2. \A m \in DOMAIN runs : /\ [runs[m] EXCEPT !.status = s] \in Auditing!RunRow
                             /\ [runs[m] EXCEPT !.status = s].status = s
  <2>1. ASSUME NEW row \in Auditing!RunRow
        PROVE  /\ [row EXCEPT !.status = s] \in Auditing!RunRow
               /\ [row EXCEPT !.status = s].status = s
    BY DEF Auditing!RunRow
  <2>. QED
    BY <1>1, <2>1
<1>3. /\ DOMAIN rows = DOMAIN runs
      /\ \A m \in DOMAIN runs : rows[m] = IF m = n THEN [runs[m] EXCEPT !.status = s] ELSE runs[m]
  OBVIOUS
<1>4. rows \in Seq(Auditing!RunRow)
  <2>1. \A m \in DOMAIN runs : rows[m] \in Auditing!RunRow
    BY <1>1, <1>2, <1>3
  <2>2. rows = [m \in DOMAIN runs |-> rows[m]]
    OBVIOUS
  <2>. HIDE DEF rows
  <2>. QED
    BY <1>1, <2>1, <2>2
<1>. QED
  BY <1>2, <1>3, <1>4

\* The executions of a new run.
LEMMA NewRun ==
  ASSUME NEW K \in SUBSET AuditRules
  PROVE  /\ Auditing!New(K) \in [AuditRules -> Auditing!Execution]
         /\ \A k \in K : Auditing!New(K)[k].status = "pending"
  BY DEF Auditing!New, Auditing!Execution

\* A run is created with every rule to answer, of which there is one.
LEMMA StartAuditKeeps ==
  ASSUME AuditInv, Auditing!StartAudit
  PROVE  AuditInv'
<1>. PICK n : n = Len(runs) + 1
  OBVIOUS
<1>. DEFINE row == [scope |-> "full", status |-> "queued"]
<1>1. /\ n \in Auditing!Numbers /\ n \notin DOMAIN runs /\ DOMAIN runs \subseteq Auditing!Numbers
      /\ runs' = Append(runs, row)
      /\ exec' = [exec EXCEPT ![n] = Auditing!New(AuditRules)]
  BY DemoStoreAssumption DEF AuditInv, Auditing!StartAudit, Auditing!Numbers
<1>2. row \in Auditing!RunRow
  BY DEF Auditing!RunRow
<1>3. /\ exec' \in [Auditing!Numbers -> [AuditRules -> Auditing!Execution]]
      /\ exec'[n] = Auditing!New(AuditRules)
      /\ \A m \in DOMAIN runs : exec'[m] = exec[m]
  BY <1>1, NewRun DEF AuditInv
<1>4. Unanswered(n)'
  BY <1>3, NewRun, DemoStoreAssumption DEF Unanswered
<1>. QED
  BY <1>1, <1>2, <1>3, <1>4, RunAdded DEF Unanswered

\* A rerun of some rules is created with these to answer.
LEMMA LocalRerunKeeps ==
  ASSUME AuditInv, NEW K \in SUBSET AuditRules, K # {}, Auditing!LocalRerun(K)
  PROVE  AuditInv'
<1>. PICK n : n = Len(runs) + 1
  OBVIOUS
<1>. DEFINE row == [scope |-> "local", status |-> "queued"]
            Kept(m) == [k \in AuditRules |->
                          IF k \in K \cap Auditing!InRun(m)
                          THEN [exec[m][k] EXCEPT !.expired = TRUE] ELSE exec[m][k]]
<1>1. /\ n \in Auditing!Numbers /\ n \notin DOMAIN runs /\ DOMAIN runs \subseteq Auditing!Numbers
      /\ runs' = Append(runs, row)
      /\ exec' = [m \in Auditing!Numbers |-> IF m = n THEN Auditing!New(K) ELSE Kept(m)]
  BY DemoStoreAssumption DEF AuditInv, Auditing!LocalRerun, Auditing!Numbers
<1>2. row \in Auditing!RunRow
  BY DEF Auditing!RunRow
<1>3. ASSUME NEW m \in Auditing!Numbers
      PROVE  /\ Kept(m) \in [AuditRules -> Auditing!Execution]
             /\ \A k \in AuditRules : Kept(m)[k].status = exec[m][k].status
  <2>1. exec[m] \in [AuditRules -> Auditing!Execution]
    BY DEF AuditInv
  <2>2. \A e \in Auditing!Execution :
          /\ [e EXCEPT !.expired = TRUE] \in Auditing!Execution
          /\ [e EXCEPT !.expired = TRUE].status = e.status
    BY DEF Auditing!Execution
  <2>. QED
    BY <2>1, <2>2
<1>. HIDE DEF Kept
<1>4. /\ exec' \in [Auditing!Numbers -> [AuditRules -> Auditing!Execution]]
      /\ exec'[n] = Auditing!New(K)
      /\ \A m \in DOMAIN runs : exec'[m] = Kept(m)
  BY <1>1, <1>3, NewRun
<1>5. Unanswered(n)'
  BY <1>4, NewRun DEF Unanswered
<1>6. \A m \in DOMAIN runs : Unanswered(m) => Unanswered(m)'
  BY <1>1, <1>3, <1>4 DEF Unanswered
<1>. QED
  BY <1>1, <1>2, <1>4, <1>5, <1>6, RunAdded

\* Whoever records the last answer to a queued run completes it.
LEMMA RecordKeeps ==
  ASSUME AuditInv, NEW n \in Auditing!Numbers, NEW k \in AuditRules,
         NEW s \in Auditing!Terminal \cup {"running"}, Auditing!Record(n, k, s)
  PROVE  AuditInv'
<1>. DEFINE E == [exec[n] EXCEPT ![k].status = s]
            completes == Auditing!AllDone(E) /\ runs[n].status = "queued"
<1>1. /\ exec' = [exec EXCEPT ![n] = E]
      /\ runs' = IF completes THEN [runs EXCEPT ![n].status = "completed"] ELSE runs
  BY DEF Auditing!Record
<1>2. E \in [AuditRules -> Auditing!Execution]
  <2>1. exec[n] \in [AuditRules -> Auditing!Execution]
    BY DEF AuditInv
  <2>2. [exec[n][k] EXCEPT !.status = s] \in Auditing!Execution
    BY <2>1 DEF Auditing!Execution, Auditing!Terminal
  <2>. QED
    BY <2>1, <2>2
<1>. HIDE DEF E
<1>3. /\ exec' \in [Auditing!Numbers -> [AuditRules -> Auditing!Execution]]
      /\ exec'[n] = E
      /\ \A m \in Auditing!Numbers \ {n} : exec'[m] = exec[m]
  BY <1>1, <1>2 DEF AuditInv
<1>4. /\ runs' \in Seq(Auditing!RunRow) /\ DOMAIN runs' = DOMAIN runs
      /\ \A m \in DOMAIN runs \ {n} : runs'[m] = runs[m]
      /\ n \in DOMAIN runs /\ completes => runs'[n].status = "completed"
      /\ ~completes => runs' = runs
  <2>1. CASE completes
    BY <1>1, <2>1, StatusWritten
  <2>2. CASE ~completes
    BY <1>1, <2>2 DEF AuditInv
  <2>. QED
    BY <2>1, <2>2
<1>5. ASSUME NEW m \in DOMAIN runs', runs'[m].status = "queued" PROVE Unanswered(m)'
  <2>1. CASE m # n
    <3>1. Unanswered(m)
      BY <1>4, <1>5, <2>1
         DEF AuditInv, QueuedRunUnanswered, Auditing!QueuedRunUnanswered, Auditing!Active, Unanswered
    <3>2. exec'[m] = exec[m]
      BY <1>3, <1>1, <2>1 DEF AuditInv
    <3>. QED
      BY <3>1, <3>2 DEF Unanswered
  <2>2. CASE m = n
    <3>1. ~Auditing!AllDone(E)
      BY <1>4, <1>5, <2>2
    <3>. QED
      BY <1>2, <1>3, <2>2, <3>1 DEF Unanswered, Auditing!AllDone, Auditing!Execution, Auditing!Terminal
  <2>. QED
    BY <2>1, <2>2
<1>. QED
  BY <1>3, <1>4, <1>5
     DEF AuditInv, QueuedRunUnanswered, Auditing!QueuedRunUnanswered, Auditing!Active, Unanswered

\* An answered execution is put back, and is to be answered again.
LEMMA RetryKeeps ==
  ASSUME AuditInv, NEW n \in Auditing!Numbers, NEW k \in AuditRules,
         Auditing!RetryExecution(n, k)
  PROVE  AuditInv'
<1>. DEFINE E == [exec[n] EXCEPT ![k].status = "pending"]
<1>1. runs' = runs /\ exec' = [exec EXCEPT ![n] = E]
  BY DEF Auditing!RetryExecution
<1>2. E \in [AuditRules -> Auditing!Execution] /\ E[k].status = "pending"
  <2>1. exec[n] \in [AuditRules -> Auditing!Execution]
    BY DEF AuditInv
  <2>2. /\ [exec[n][k] EXCEPT !.status = "pending"] \in Auditing!Execution
        /\ [exec[n][k] EXCEPT !.status = "pending"].status = "pending"
    BY <2>1 DEF Auditing!Execution
  <2>. QED
    BY <2>1, <2>2
<1>. HIDE DEF E
<1>3. /\ exec' \in [Auditing!Numbers -> [AuditRules -> Auditing!Execution]]
      /\ exec'[n] = E
      /\ \A m : m # n => exec'[m] = exec[m]
  BY <1>1, <1>2 DEF AuditInv
<1>. QED
  BY <1>1, <1>2, <1>3
     DEF AuditInv, QueuedRunUnanswered, Auditing!QueuedRunUnanswered, Auditing!Active

\* A run that is completed is queued no more.
LEMMA CompleteKeeps ==
  ASSUME AuditInv, NEW t \in Threads, Auditing!CompleteRun(t)
  PROVE  AuditInv'
<1>1. PICK s \in {"failed", "succeeded"} : runs' = [runs EXCEPT ![at[t].run].status = s]
  BY DEF Auditing!CompleteRun
<1>2. exec' = exec
  BY DEF Auditing!CompleteRun
<1>3. /\ runs' \in Seq(Auditing!RunRow) /\ DOMAIN runs' = DOMAIN runs
      /\ \A m \in DOMAIN runs : runs'[m] = runs[m] \/ runs'[m].status = s
  BY <1>1, StatusWritten DEF Auditing!RunRow
<1>. QED
  BY <1>2, <1>3
     DEF AuditInv, QueuedRunUnanswered, Auditing!QueuedRunUnanswered, Auditing!Active

\* There is no run at the start.
LEMMA AuditInit == Auditing!Init => AuditInv /\ RunningInv
<1>. SUFFICES ASSUME Auditing!Init PROVE AuditInv /\ RunningInv
  OBVIOUS
<1>1. runs = <<>> /\ exec = [n \in Auditing!Numbers |->
        [k \in AuditRules |-> [status |-> "none", expired |-> FALSE]]]
  BY DEF Auditing!Init
<1>2. exec \in [Auditing!Numbers -> [AuditRules -> Auditing!Execution]]
  BY <1>1 DEF Auditing!Execution
<1>3. RunningInv
  BY DEF Auditing!Init, Auditing!Nowhere, RunningInv, Running
<1>. QED
  BY <1>1, <1>2, <1>3
     DEF AuditInv, QueuedRunUnanswered, Auditing!QueuedRunUnanswered, Auditing!Active

\* Fields of what a thread works on written.
LEMMA RunOrReportWritten ==
  ASSUME NEW b
  PROVE  /\ [Auditing!Nowhere EXCEPT !.run = b] =
              [run |-> b, todo |-> {}, broke |-> FALSE, report |-> 0]
         /\ [Auditing!Nowhere EXCEPT !.report = b] =
              [run |-> 0, todo |-> {}, broke |-> FALSE, report |-> b]
<1>1. ASSUME NEW a, a = [run |-> a.run, todo |-> a.todo, broke |-> a.broke, report |-> a.report]
      PROVE  /\ [a EXCEPT !.run = b] =
                  [run |-> b, todo |-> a.todo, broke |-> a.broke, report |-> a.report]
             /\ [a EXCEPT !.report = b] =
                  [run |-> a.run, todo |-> a.todo, broke |-> a.broke, report |-> b]
  BY <1>1
<1>. PICK n : n = Auditing!Nowhere
  OBVIOUS
<1>2. /\ n = [run |-> n.run, todo |-> n.todo, broke |-> n.broke, report |-> n.report]
      /\ n.run = 0 /\ n.todo = {} /\ n.broke = FALSE /\ n.report = 0
  BY DEF Auditing!Nowhere
<1>. QED
  BY <1>1, <1>2

\* The list of a thread written.
LEMMA ListWritten ==
  ASSUME NEW a, a = [run |-> a.run, todo |-> a.todo, broke |-> a.broke, report |-> a.report],
         NEW S
  PROVE  [a EXCEPT !.todo = S] =
           [run |-> a.run, todo |-> S, broke |-> a.broke, report |-> a.report]
  OBVIOUS

\* The list of a thread and whether it broke written.
LEMMA ListAndBreakWritten ==
  ASSUME NEW a, a = [run |-> a.run, todo |-> a.todo, broke |-> a.broke, report |-> a.report],
         NEW S, NEW b
  PROVE  [a EXCEPT !.todo = S, !.broke = b] =
           [run |-> a.run, todo |-> S, broke |-> b, report |-> a.report]
<1>. DEFINE g == [run |-> a.run, todo |-> S, broke |-> a.broke, report |-> a.report]
<1>1. [a EXCEPT !.todo = S] = g
  OBVIOUS
<1>2. [a EXCEPT !.todo = S, !.broke = b] = [g EXCEPT !.broke = b]
  BY <1>1
<1>3. [g EXCEPT !.broke = b] = [run |-> a.run, todo |-> S, broke |-> b, report |-> a.report]
  OBVIOUS
<1>. QED
  BY <1>2, <1>3

\* Every step of the audit leaves the threads with a run and a list of its rules.
LEMMA RunningStep == RunningInv /\ Auditing!Next => RunningInv'
<1>. SUFFICES ASSUME RunningInv, Auditing!Next PROVE RunningInv'
  OBVIOUS
<1>1. CASE UNCHANGED <<place, at>>
  BY <1>1 DEF RunningInv, Running
<1>2. ASSUME NEW t \in Threads, NEW p, NEW x, Auditing!Goto(t, p, x),
             x = [run |-> x.run, todo |-> x.todo, broke |-> x.broke, report |-> x.report],
             p \in {"taken", "list", "run"} => x.run \in Auditing!Numbers,
             x.todo \subseteq AuditRules
      PROVE  RunningInv'
  BY <1>2 DEF RunningInv, Running, Auditing!Goto
<1>3. ASSUME NEW t \in Threads, NEW n \in Auditing!Numbers, Auditing!TakeJob(t, n)
      PROVE  RunningInv'
  <2>. DEFINE x == [run |-> n, todo |-> {}, broke |-> FALSE, report |-> 0]
  <2>1. [Auditing!Nowhere EXCEPT !.run = n] = x
    BY RunOrReportWritten
  <2>2. Auditing!Goto(t, "taken", x)
    BY <1>3, <2>1 DEF Auditing!TakeJob
  <2>. QED
    BY <1>2, <2>2
<1>4. ASSUME NEW t \in Threads,
             \/ Auditing!MarkRunning(t) \/ Auditing!ListPending(t) \/ Auditing!RunNext(t)
             \/ Auditing!CompleteRun(t)
      PROVE  RunningInv'
  <2>. DEFINE a == at[t]
  <2>1. /\ a = [run |-> a.run, todo |-> a.todo, broke |-> a.broke, report |-> a.report]
        /\ a.run \in Auditing!Numbers
        /\ a.todo \subseteq AuditRules
    BY <1>4 DEF RunningInv, Running, Auditing!MarkRunning, Auditing!ListPending, Auditing!RunNext,
        Auditing!CompleteRun
  <2>2. PICK p, S, b :
          /\ S \subseteq AuditRules
          /\ Auditing!Goto(t, p, [run |-> a.run, todo |-> S, broke |-> b, report |-> a.report])
    <3>1. CASE Auditing!MarkRunning(t)
      BY <2>1, <3>1 DEF Auditing!MarkRunning
    <3>2. CASE Auditing!ListPending(t)
      <4>1. Auditing!Pending(a.run) \subseteq AuditRules
        BY DEF Auditing!Pending
      <4>2. [a EXCEPT !.todo = Auditing!Pending(a.run)] =
              [run |-> a.run, todo |-> Auditing!Pending(a.run), broke |-> a.broke, report |-> a.report]
        BY <2>1, ListWritten
      <4>. QED
        BY <2>1, <3>2, <4>1, <4>2 DEF Auditing!ListPending
    <3>3. CASE Auditing!RunNext(t)
      <4>1. PICK k, b : Auditing!Goto(t, "run", [a EXCEPT !.todo = a.todo \ {k}, !.broke = b])
        BY <3>3 DEF Auditing!RunNext
      <4>2. PICK S : S = a.todo \ {k}
        OBVIOUS
      <4>3. [a EXCEPT !.todo = S, !.broke = b] =
              [run |-> a.run, todo |-> S, broke |-> b, report |-> a.report]
        BY <2>1, ListAndBreakWritten
      <4>4. S \subseteq AuditRules
        BY <2>1, <4>2
      <4>5. Auditing!Goto(t, "run", [run |-> a.run, todo |-> S, broke |-> b, report |-> a.report])
        BY <4>1, <4>2, <4>3
      <4>. QED
        BY <4>4, <4>5
    <3>4. CASE Auditing!CompleteRun(t)
      BY <2>1, <3>4 DEF Auditing!CompleteRun
    <3>. QED
      BY <1>4, <3>1, <3>2, <3>3, <3>4
  <2>. DEFINE x == [run |-> a.run, todo |-> S, broke |-> b, report |-> a.report]
  <2>3. /\ x = [run |-> x.run, todo |-> x.todo, broke |-> x.broke, report |-> x.report]
        /\ x.run \in Auditing!Numbers /\ x.todo \subseteq AuditRules
    BY <2>1, <2>2
  <2>. HIDE DEF x
  <2>. QED
    BY <1>2, <2>2, <2>3 DEF x
<1>5. ASSUME NEW t \in Threads,
             \/ Auditing!FinishJob(t) \/ Auditing!BeginReport(t) \/ Auditing!CommitReport(t)
             \/ Auditing!CommitPublish(t) \/ \E i \in DOMAIN reports : Auditing!BeginPublish(t, i)
      PROVE  RunningInv'
  <2>1. ASSUME NEW n
        PROVE  [Auditing!Nowhere EXCEPT !.report = n] =
                 [run |-> 0, todo |-> {}, broke |-> FALSE, report |-> n]
    BY RunOrReportWritten
  <2>2. PICK n, p :
          /\ p \in {"idle", "report", "publish"}
          /\ Auditing!Goto(t, p, [run |-> 0, todo |-> {}, broke |-> FALSE, report |-> n])
    <3>1. CASE Auditing!FinishJob(t) \/ Auditing!CommitReport(t) \/ Auditing!CommitPublish(t)
      BY <3>1 DEF Auditing!FinishJob, Auditing!CommitReport, Auditing!Done, Auditing!CommitPublish,
         Auditing!Nowhere
    <3>2. CASE Auditing!BeginReport(t) \/ \E i \in DOMAIN reports : Auditing!BeginPublish(t, i)
      <4>1. PICK n, p :
              /\ p \in {"report", "publish"}
              /\ Auditing!Goto(t, p, [Auditing!Nowhere EXCEPT !.report = n])
        BY <3>2 DEF Auditing!BeginReport, Auditing!BeginPublish
      <4>2. [Auditing!Nowhere EXCEPT !.report = n] =
              [run |-> 0, todo |-> {}, broke |-> FALSE, report |-> n]
        BY <2>1
      <4>3. Auditing!Goto(t, p, [run |-> 0, todo |-> {}, broke |-> FALSE, report |-> n])
        BY <4>1, <4>2
      <4>. QED
        BY <4>1, <4>3
    <3>. QED
      BY <1>5, <3>1, <3>2
  <2>. DEFINE x == [run |-> 0, todo |-> {}, broke |-> FALSE, report |-> n]
  <2>3. /\ x = [run |-> x.run, todo |-> x.todo, broke |-> x.broke, report |-> x.report]
        /\ x.todo = {}
    OBVIOUS
  <2>. HIDE DEF x
  <2>. QED
    BY <1>2, <2>2, <2>3 DEF x
<1>6. CASE \/ Auditing!StartAudit
           \/ \E K \in (SUBSET AuditRules) \ {{}} : Auditing!LocalRerun(K)
           \/ \E n \in Auditing!Numbers :
                \/ Auditing!CancelJob(n) \/ Auditing!RetryJob(n)
                \/ \E k \in AuditRules :
                     \/ Auditing!RetryExecution(n, k)
                     \/ \E s \in Auditing!Terminal \cup {"running"} : Auditing!RecordByHand(n, k, s)
           \/ \E k \in AuditRules : Auditing!DecideIssue(k)
  BY <1>1, <1>6 DEF Auditing!StartAudit, Auditing!LocalRerun, Auditing!CancelJob, Auditing!RetryJob,
     Auditing!RetryExecution, Auditing!RecordByHand, Auditing!DecideIssue
<1>. QED
  BY <1>3, <1>4, <1>5, <1>6 DEF Auditing!Next

\* Every step of the audit leaves a queued or running run with something to answer.
LEMMA AuditStep == AuditInv /\ RunningInv /\ Auditing!Next => AuditInv'
<1>. SUFFICES ASSUME AuditInv, RunningInv, Auditing!Next PROVE AuditInv'
  OBVIOUS
<1>1. ASSUME UNCHANGED <<runs, exec>> PROVE AuditInv'
  BY <1>1 DEF AuditInv, QueuedRunUnanswered, Auditing!QueuedRunUnanswered, Auditing!Active
<1>2. CASE Auditing!StartAudit \/ \E K \in (SUBSET AuditRules) \ {{}} : Auditing!LocalRerun(K)
  BY <1>2, StartAuditKeeps, LocalRerunKeeps
<1>3. ASSUME NEW n \in Auditing!Numbers,
             \/ Auditing!CancelJob(n)
             \/ Auditing!RetryJob(n)
             \/ \E k \in AuditRules :
                  \/ Auditing!RetryExecution(n, k)
                  \/ \E s \in Auditing!Terminal \cup {"running"} : Auditing!RecordByHand(n, k, s)
      PROVE  AuditInv'
  <2>1. CASE Auditing!CancelJob(n) \/ Auditing!RetryJob(n)
    BY <1>1, <2>1 DEF Auditing!CancelJob, Auditing!RetryJob
  <2>2. ASSUME NEW k \in AuditRules, NEW s \in Auditing!Terminal \cup {"running"},
               Auditing!RecordByHand(n, k, s)
        PROVE  AuditInv'
    BY <2>2, RecordKeeps DEF Auditing!RecordByHand
  <2>. QED
    BY <1>3, <2>1, <2>2, RetryKeeps
<1>4. ASSUME NEW k \in AuditRules, Auditing!DecideIssue(k) PROVE AuditInv'
  BY <1>1, <1>4 DEF Auditing!DecideIssue, Auditing!rows
<1>5. ASSUME NEW t \in Threads, Auditing!RunNext(t) PROVE AuditInv'
  <2>1. PICK k \in at[t].todo, s \in Auditing!Terminal : Auditing!Record(at[t].run, k, s)
    BY <1>5 DEF Auditing!RunNext
  <2>2. at[t].run \in Auditing!Numbers /\ k \in AuditRules
    BY <1>5 DEF Auditing!RunNext, RunningInv, Running
  <2>. QED
    BY <2>1, <2>2, RecordKeeps
<1>6. ASSUME NEW t \in Threads,
             \/ \E n \in Auditing!Numbers : Auditing!TakeJob(t, n)
             \/ Auditing!MarkRunning(t) \/ Auditing!ListPending(t) \/ Auditing!FinishJob(t)
             \/ Auditing!BeginReport(t) \/ Auditing!CommitReport(t) \/ Auditing!CommitPublish(t)
             \/ \E i \in DOMAIN reports : Auditing!BeginPublish(t, i)
      PROVE  AuditInv'
  <2>1. UNCHANGED <<runs, exec>>
    BY <1>6 DEF Auditing!TakeJob, Auditing!MarkRunning, Auditing!ListPending, Auditing!FinishJob,
        Auditing!BeginReport, Auditing!CommitReport, Auditing!CommitPublish, Auditing!BeginPublish,
        Auditing!rows
  <2>. QED
    BY <1>1, <2>1
<1>. QED
  BY <1>2, <1>3, <1>4, <1>5, <1>6, CompleteKeeps DEF Auditing!Next

\* The invariants of the audit hold in the whole store.
LEMMA AuditInvariant == DemoSpec => [](AuditInv /\ RunningInv)
<1>1. DemoInit => AuditInv /\ RunningInv
  BY AuditInit DEF DemoInit
<1>2. AuditInv /\ RunningInv /\ [DemoNext]_demoVars => (AuditInv /\ RunningInv)'
  <2>. SUFFICES ASSUME AuditInv, RunningInv, [DemoNext]_demoVars PROVE (AuditInv /\ RunningInv)'
    OBVIOUS
  <2>1. CASE UNCHANGED auditVars
    BY <2>1 DEF auditVars, AuditInv, RunningInv, Running, QueuedRunUnanswered,
       Auditing!QueuedRunUnanswered, Auditing!Active
  <2>2. CASE Auditing!Next
    BY <2>2, AuditStep, RunningStep
  <2>. QED
    BY <2>1, <2>2 DEF DemoNext, demoVars
<1>. QED
  BY <1>1, <1>2, PTL DEF DemoSpec

\* A run of the in-memory store that is handed back instead of a new one is
\* still to be answered.
THEOREM QueuedUnansweredHolds == DemoSpec => []QueuedRunUnanswered
<1>1. AuditInv => QueuedRunUnanswered
  BY DEF AuditInv
<1>. QED
  BY <1>1, AuditInvariant, PTL

-----------------------------------------------------------------------------
(* The standards.                                                          *)

RevisionRow == [clauses : SUBSET Codes, status : {"draft", "published", "archived"}]

CopyRow ==
  [no : Nat, clauses : SUBSET Codes, status : {"draft", "published", "archived"}]

StandardsInv ==
  /\ version \in [Versions -> Standards!Statuses]
  /\ revisions \in [Versions -> Seq(RevisionRow)]
  /\ latest \in [Versions -> CopyRow]
  /\ LatestIsCurrent

\* A version gets other revisions, of which it copies one.
LEMMA CopyKeeps ==
  ASSUME StandardsInv, NEW v \in Versions, NEW L \in Seq(RevisionRow), NEW n \in DOMAIN L,
         revisions' = [revisions EXCEPT ![v] = L],
         latest' = [latest EXCEPT ![v] = Standards!Copy(v, n)],
         version' \in [Versions -> Standards!Statuses],
         \A u \in Versions \ {v} : version'[u] = version[u]
  PROVE  StandardsInv'
<1>1. /\ revisions' \in [Versions -> Seq(RevisionRow)] /\ revisions'[v] = L
      /\ \A u \in Versions \ {v} : revisions'[u] = revisions[u]
  BY DEF StandardsInv
<1>. DEFINE c == [no |-> n, clauses |-> L[n].clauses, status |-> L[n].status]
<1>2. Standards!Copy(v, n) = c
  BY <1>1 DEF Standards!Copy
<1>3. L[n] \in RevisionRow /\ n \in Nat
  OBVIOUS
<1>4. /\ c \in CopyRow /\ c.no = n
      /\ L[n] = [clauses |-> c.clauses, status |-> c.status]
  BY <1>3 DEF CopyRow, RevisionRow
<1>. HIDE DEF c
<1>5. /\ latest' \in [Versions -> CopyRow] /\ latest'[v] = c
      /\ \A u \in Versions \ {v} : latest'[u] = latest[u]
  BY <1>2, <1>4 DEF StandardsInv
<1>6. LatestIsCurrent'
  BY <1>1, <1>4, <1>5 DEF StandardsInv, LatestIsCurrent, Standards!LatestIsCurrent
<1>. QED
  BY <1>1, <1>5, <1>6 DEF StandardsInv

\* The list of revisions after a publication.
LEMMA PublishedRows ==
  ASSUME StandardsInv, NEW v \in Versions, NEW n
  PROVE  /\ Standards!Published(v, n) \in Seq(RevisionRow)
         /\ DOMAIN Standards!Published(v, n) = DOMAIN revisions[v]
<1>1. revisions[v] \in Seq(RevisionRow)
  BY DEF StandardsInv
<1>2. \A m \in DOMAIN revisions[v] : Standards!Published(v, n)[m] \in RevisionRow
  <2>. TAKE m \in DOMAIN revisions[v]
  <2>. PICK s : s = IF m = n THEN "published"
                    ELSE IF revisions[v][m].status = "published" THEN "archived"
                    ELSE revisions[v][m].status
    OBVIOUS
  <2>1. revisions[v][m] \in RevisionRow
    BY <1>1
  <2>2. /\ revisions[v][m].clauses \in SUBSET Codes
        /\ s \in {"draft", "published", "archived"}
    BY <2>1 DEF RevisionRow
  <2>3. Standards!Published(v, n)[m] = [clauses |-> revisions[v][m].clauses, status |-> s]
    BY DEF Standards!Published
  <2>. QED
    BY <2>2, <2>3 DEF RevisionRow
<1>3. /\ DOMAIN Standards!Published(v, n) = 1..Len(revisions[v])
      /\ Standards!Published(v, n) = [m \in 1..Len(revisions[v]) |-> Standards!Published(v, n)[m]]
  BY <1>1 DEF Standards!Published
<1>4. Standards!Published(v, n) \in [1..Len(revisions[v]) -> RevisionRow]
  BY <1>1, <1>2, <1>3
<1>. QED
  BY <1>1, <1>3, <1>4

\* No version has a copy at the start.
LEMMA StandardsInit == Standards!Init => StandardsInv
  BY DEF Standards!Init, StandardsInv, CopyRow, Standards!Statuses, LatestIsCurrent,
     Standards!LatestIsCurrent

\* Every step of the standards keeps the copies current.
LEMMA StandardsStep == StandardsInv /\ Standards!Next => StandardsInv'
<1>. SUFFICES ASSUME StandardsInv, Standards!Next PROVE StandardsInv'
  OBVIOUS
<1>1. ASSUME UNCHANGED <<version, revisions, latest>> PROVE StandardsInv'
  BY <1>1 DEF StandardsInv, LatestIsCurrent, Standards!LatestIsCurrent
<1>2. ASSUME NEW v \in Versions, NEW s \in Standards!Statuses \ {"absent"},
             Standards!CreateVersion(v, s)
      PROVE  StandardsInv'
  <2>. DEFINE L == <<[clauses |-> {}, status |-> "draft"]>>
  <2>1. L \in Seq(RevisionRow) /\ 1 \in DOMAIN L
    BY DEF RevisionRow
  <2>2. /\ version' \in [Versions -> Standards!Statuses]
        /\ \A u \in Versions \ {v} : version'[u] = version[u]
    BY <1>2 DEF Standards!CreateVersion, StandardsInv
  <2>3. /\ revisions' = [revisions EXCEPT ![v] = L]
        /\ latest' = [latest EXCEPT ![v] = Standards!Copy(v, 1)]
    BY <1>2 DEF Standards!CreateVersion
  <2>. HIDE DEF L
  <2>. QED
    BY <2>1, <2>2, <2>3, CopyKeeps
<1>3. ASSUME NEW v \in Versions, NEW C \in SUBSET Codes, Standards!CreateRevision(v, C)
      PROVE  StandardsInv'
  <2>. DEFINE L == Append(revisions[v], [clauses |-> C, status |-> "draft"])
              n == Len(revisions[v]) + 1
  <2>1. L \in Seq(RevisionRow) /\ n \in DOMAIN L
    <3>1. [clauses |-> C, status |-> "draft"] \in RevisionRow
      BY DEF RevisionRow
    <3>. QED
      BY <3>1, AppendProperties DEF StandardsInv
  <2>2. /\ revisions' = [revisions EXCEPT ![v] = L]
        /\ latest' = [latest EXCEPT ![v] = Standards!Copy(v, n)]
        /\ version' = version
    BY <1>3 DEF Standards!CreateRevision
  <2>. HIDE DEF L, n
  <2>. QED
    BY <2>1, <2>2, CopyKeeps DEF StandardsInv
<1>4. ASSUME NEW v \in Versions, NEW n \in DOMAIN revisions[v],
             revisions' = [revisions EXCEPT ![v] = Standards!Published(v, n)],
             latest' = [latest EXCEPT ![v] = Standards!Copy(v, n)],
             version' = [version EXCEPT ![v] = "active"]
      PROVE  StandardsInv'
  <2>1. /\ version' \in [Versions -> Standards!Statuses]
        /\ \A u \in Versions \ {v} : version'[u] = version[u]
    BY <1>4 DEF StandardsInv, Standards!Statuses
  <2>. QED
    BY <1>4, <2>1, PublishedRows, CopyKeeps
<1>5. ASSUME NEW v \in Versions, \E n \in DOMAIN revisions[v] : Standards!PublishRevision(v, n)
      PROVE  StandardsInv'
  BY <1>4, <1>5 DEF Standards!PublishRevision
<1>6. ASSUME NEW v \in Versions, Standards!PublishVersion(v) PROVE StandardsInv'
  <2>. DEFINE n == Len(revisions[v])
  <2>1. n \in DOMAIN revisions[v]
    <3>1. revisions[v] \in Seq(RevisionRow) /\ DOMAIN revisions[v] # {}
      BY <1>6 DEF Standards!PublishVersion, StandardsInv, LatestIsCurrent, Standards!LatestIsCurrent
    <3>. QED
      BY <3>1
  <2>2. /\ revisions' = [revisions EXCEPT ![v] = Standards!Published(v, n)]
        /\ latest' = [latest EXCEPT ![v] = Standards!Copy(v, n)]
        /\ version' = [version EXCEPT ![v] = "active"]
    BY <1>6 DEF Standards!PublishVersion, StandardsInv
  <2>. HIDE DEF n
  <2>. QED
    BY <1>4, <2>1, <2>2
<1>7. ASSUME NEW v \in Versions, Standards!AbolishVersion(v) PROVE StandardsInv'
  <2>1. /\ revisions' = revisions /\ latest' = latest
        /\ version' \in [Versions -> Standards!Statuses]
        /\ \A u \in Versions : version'[u] # "absent" => version[u] # "absent"
    BY <1>7 DEF Standards!AbolishVersion, StandardsInv, Standards!Statuses
  <2>. QED
    BY <2>1 DEF StandardsInv, LatestIsCurrent, Standards!LatestIsCurrent
<1>8. CASE \/ Standards!CreateRound
           \/ \E r \in DOMAIN rounds :
                \/ \E v \in Versions : Standards!AddStandard(r, v)
                \/ \E e \in rounds[r] : Standards!ConfirmStandard(r, e)
                \/ \E t \in Threads, then \in Standards!Decisions \cup {"list"} :
                     Standards!BeginList(t, r, then)
           \/ \E t \in Threads :
                \/ Standards!CommitList(t)
                \/ Standards!DecideNothing(t)
                \/ \E i \in items : Standards!DecideItem(t, i)
  BY <1>1, <1>8 DEF Standards!CreateRound, Standards!AddStandard, Standards!ConfirmStandard,
     Standards!BeginList, Standards!CommitList, Standards!DecideNothing, Standards!DecideItem,
     Standards!catalog
<1>. QED
  BY <1>2, <1>3, <1>5, <1>6, <1>7, <1>8 DEF Standards!Next

\* The invariant of the standards holds in the whole store.
LEMMA StandardsInvariant == DemoSpec => []StandardsInv
<1>1. DemoInit => StandardsInv
  BY StandardsInit DEF DemoInit
<1>2. StandardsInv /\ [DemoNext]_demoVars => StandardsInv'
  <2>. SUFFICES ASSUME StandardsInv, [DemoNext]_demoVars PROVE StandardsInv'
    OBVIOUS
  <2>1. CASE UNCHANGED standardVars
    BY <2>1 DEF standardVars, StandardsInv, LatestIsCurrent, Standards!LatestIsCurrent
  <2>2. CASE Standards!Next
    BY <2>2, StandardsStep
  <2>. QED
    BY <2>1, <2>2 DEF DemoNext, demoVars
<1>. QED
  BY <1>1, <1>2, PTL DEF DemoSpec

\* The copy that a version of the in-memory store shows stays what the revision
\* is that it was made from, whatever is created, published or published again.
THEOREM LatestCurrentHolds == DemoSpec => []LatestIsCurrent
<1>1. StandardsInv => LatestIsCurrent
  BY DEF StandardsInv
<1>. QED
  BY <1>1, StandardsInvariant, PTL

-----------------------------------------------------------------------------
(* The rules.                                                              *)

RuleRow == [status : {"absent", "draft", "published", "disabled"}, shows : Nat]

VersionRow ==
  [status : {"draft", "published", "archived", "disabled"}, deps : SUBSET Rules, executor : Nat]

\* A published version is the one that its rule shows, and the other way round.
Shown(r) ==
  Catalog!PublishedOf(r) = IF rule[r].status = "published" THEN {rule[r].shows} ELSE {}

OnPublishedExecutors(r) ==
  \A n \in Catalog!PublishedOf(r) : executors[ruleVersions[r][n].executor] = "published"

RulesInv ==
  /\ executors \in Seq({"draft", "published"})
  /\ rule \in [Rules -> RuleRow]
  /\ ruleVersions \in [Rules -> Seq(VersionRow)]
  /\ \A r \in Rules : \A n \in DOMAIN ruleVersions[r] :
       ruleVersions[r][n].executor \in DOMAIN executors
  /\ ShownRulesUsable

\* The three parts of the property, by name.
LEMMA RulesUsable ==
  ShownRulesUsable <=> /\ \A r \in Rules : Shown(r) /\ OnPublishedExecutors(r)
                       /\ Catalog!Acyclic(Catalog!PublishedDeps)
  BY DEF ShownRulesUsable, Catalog!ShownRulesUsable, Shown, OnPublishedExecutors

\* Fewer dependencies do not make a circle.
LEMMA FewerDeps ==
  ASSUME NEW f, NEW g, Catalog!Acyclic(f), \A r \in Rules : g[r] \subseteq f[r]
  PROVE  Catalog!Acyclic(g)
  BY DEF Catalog!Acyclic

\* Steps after which the published versions are, rule by rule, some of those
\* before, with their dependencies and executors.
LEMMA NothingPublished ==
  ASSUME RulesInv,
         executors' \in Seq({"draft", "published"}),
         \A e \in DOMAIN executors : e \in DOMAIN executors' /\ executors'[e] = executors[e],
         rule' \in [Rules -> RuleRow],
         ruleVersions' \in [Rules -> Seq(VersionRow)],
         \A r \in Rules : \A n \in DOMAIN ruleVersions'[r] :
           ruleVersions'[r][n].executor \in DOMAIN executors',
         \A r \in Rules : Shown(r)',
         \A r \in Rules : \A n \in Catalog!PublishedOf(r)' :
           /\ n \in Catalog!PublishedOf(r)
           /\ ruleVersions'[r][n].deps = ruleVersions[r][n].deps
           /\ ruleVersions'[r][n].executor = ruleVersions[r][n].executor
  PROVE  RulesInv'
<1>. DEFINE P(r) == Catalog!PublishedOf(r)
<1>1. \A r \in Rules : OnPublishedExecutors(r)'
  <2>. SUFFICES ASSUME NEW r \in Rules, NEW n \in P(r)'
                PROVE  executors'[ruleVersions'[r][n].executor] = "published"
    BY DEF OnPublishedExecutors
  <2>1. n \in P(r) /\ ruleVersions'[r][n].executor = ruleVersions[r][n].executor
    OBVIOUS
  <2>2. executors[ruleVersions[r][n].executor] = "published"
    BY <2>1, RulesUsable DEF RulesInv, OnPublishedExecutors
  <2>3. ruleVersions[r][n].executor \in DOMAIN executors
    BY <2>1 DEF RulesInv, Catalog!PublishedOf
  <2>. QED
    BY <2>1, <2>2, <2>3
<1>2. \A r \in Rules : Catalog!PublishedDeps'[r] \subseteq Catalog!PublishedDeps[r]
  <2>. SUFFICES ASSUME NEW r \in Rules
                PROVE  UNION {ruleVersions'[r][n].deps : n \in P(r)'}
                         \subseteq UNION {ruleVersions[r][n].deps : n \in P(r)}
    BY DEF Catalog!PublishedDeps
  <2>. HIDE DEF P
  <2>1. \A n \in P(r)' : n \in P(r) /\ ruleVersions'[r][n].deps = ruleVersions[r][n].deps
    BY DEF P
  <2>. QED
    BY <2>1
<1>3. Catalog!Acyclic(Catalog!PublishedDeps')
  <2>1. PICK f, g : f = Catalog!PublishedDeps /\ g = Catalog!PublishedDeps'
    OBVIOUS
  <2>. QED
    BY <1>2, <2>1, FewerDeps, RulesUsable DEF RulesInv
<1>4. ShownRulesUsable'
  BY <1>1, <1>3 DEF ShownRulesUsable, Catalog!ShownRulesUsable, Shown, OnPublishedExecutors,
     Catalog!Acyclic
<1>. QED
  BY <1>4 DEF RulesInv

\* An executor version is created.
LEMMA ExecutorKeeps ==
  ASSUME RulesInv, NEW s \in {"draft", "published"}, Catalog!CreateExecutorVersion(s)
  PROVE  RulesInv'
<1>1. /\ executors' \in Seq({"draft", "published"})
      /\ \A e \in DOMAIN executors : e \in DOMAIN executors' /\ executors'[e] = executors[e]
  BY AppendProperties DEF RulesInv, Catalog!CreateExecutorVersion
<1>2. rule' = rule /\ ruleVersions' = ruleVersions
  BY DEF Catalog!CreateExecutorVersion
<1>3. \A r \in Rules : Shown(r)' /\ Catalog!PublishedOf(r)' = Catalog!PublishedOf(r)
  BY <1>2, RulesUsable DEF RulesInv, Shown, Catalog!PublishedOf
<1>. QED
  BY <1>1, <1>2, <1>3, NothingPublished DEF RulesInv

\* A rule is created, which shows nothing.
LEMMA CreateRuleKeeps ==
  ASSUME RulesInv, NEW r \in Rules, Catalog!CreateRule(r)
  PROVE  RulesInv'
<1>1. /\ rule' = [rule EXCEPT ![r].status = "draft"] /\ rule[r].status = "absent"
      /\ executors' = executors /\ ruleVersions' = ruleVersions
  BY DEF Catalog!CreateRule
<1>2. /\ rule' \in [Rules -> RuleRow] /\ rule'[r].status = "draft"
      /\ \A q \in Rules \ {r} : rule'[q] = rule[q]
  BY <1>1 DEF RulesInv, RuleRow
<1>3. ASSUME NEW q \in Rules
      PROVE  Shown(q)' /\ Catalog!PublishedOf(q)' = Catalog!PublishedOf(q)
  <2>1. Catalog!PublishedOf(q)' = Catalog!PublishedOf(q)
    BY <1>1 DEF Catalog!PublishedOf
  <2>2. Shown(q)
    BY RulesUsable DEF RulesInv
  <2>3. CASE q = r
    BY <1>1, <1>2, <2>1, <2>2, <2>3 DEF Shown
  <2>4. CASE q # r
    BY <1>2, <2>1, <2>2, <2>4 DEF Shown
  <2>. QED
    BY <2>1, <2>3, <2>4
<1>. QED
  BY <1>1, <1>2, <1>3, NothingPublished DEF RulesInv

\* A draft is added to the versions of a rule.
LEMMA DraftKeeps ==
  ASSUME RulesInv, NEW r \in Rules, NEW D \in SUBSET Rules, NEW e \in DOMAIN executors,
         Catalog!Drafted(r, D, e), executors' = executors, rule' = rule
  PROVE  RulesInv'
<1>. DEFINE d == [status |-> "draft", deps |-> D, executor |-> e]
            L == Append(ruleVersions[r], d)
<1>1. d \in VersionRow /\ d.status = "draft" /\ d.executor = e
  BY DEF VersionRow, RulesInv
<1>. HIDE DEF d
<1>2. ruleVersions' = [ruleVersions EXCEPT ![r] = L]
  BY DEF Catalog!Drafted, d
<1>3. /\ ruleVersions[r] \in Seq(VersionRow) /\ L \in Seq(VersionRow)
      /\ DOMAIN L = DOMAIN ruleVersions[r] \cup {Len(ruleVersions[r]) + 1}
      /\ L[Len(ruleVersions[r]) + 1] = d
      /\ \A n \in DOMAIN ruleVersions[r] : L[n] = ruleVersions[r][n]
  BY <1>1, AppendProperties DEF RulesInv
<1>. HIDE DEF L
<1>4. /\ ruleVersions' \in [Rules -> Seq(VersionRow)] /\ ruleVersions'[r] = L
      /\ \A q \in Rules \ {r} : ruleVersions'[q] = ruleVersions[q]
  BY <1>2, <1>3 DEF RulesInv
<1>5. ASSUME NEW q \in Rules, NEW n \in DOMAIN ruleVersions'[q]
      PROVE  /\ ruleVersions'[q][n].executor \in DOMAIN executors
             /\ \/ ruleVersions'[q][n].status = "draft"
                \/ n \in DOMAIN ruleVersions[q] /\ ruleVersions'[q][n] = ruleVersions[q][n]
  BY <1>1, <1>3, <1>4 DEF RulesInv
<1>6. ASSUME NEW q \in Rules
      PROVE  Catalog!PublishedOf(q)' = Catalog!PublishedOf(q)
  <2>1. \A n \in DOMAIN ruleVersions[q] :
          n \in DOMAIN ruleVersions'[q] /\ ruleVersions'[q][n] = ruleVersions[q][n]
    BY <1>3, <1>4
  <2>. QED
    BY <1>5, <2>1 DEF Catalog!PublishedOf
<1>7. \A q \in Rules : Shown(q)'
  BY <1>6, RulesUsable DEF RulesInv, Shown
<1>8. \A q \in Rules : \A n \in Catalog!PublishedOf(q)' :
        ruleVersions'[q][n] = ruleVersions[q][n]
  BY <1>5 DEF Catalog!PublishedOf
<1>. QED
  BY <1>4, <1>5, <1>6, <1>7, <1>8, NothingPublished DEF RulesInv

\* A version is published in the place of the one its rule shows.
LEMMA PublishedVersionRows ==
  ASSUME RulesInv, NEW r \in Rules, NEW k \in DOMAIN ruleVersions[r],
         Catalog!PublishVersion(<<r, k>>)
  PROVE  /\ ruleVersions' \in [Rules -> Seq(VersionRow)]
         /\ \A q \in Rules \ {r} : ruleVersions'[q] = ruleVersions[q]
         /\ DOMAIN ruleVersions'[r] = DOMAIN ruleVersions[r]
         /\ \A n \in DOMAIN ruleVersions[r] :
              /\ ruleVersions'[r][n].deps = ruleVersions[r][n].deps
              /\ ruleVersions'[r][n].executor = ruleVersions[r][n].executor
              /\ ruleVersions'[r][n].status = "published" <=> n = k
<1>. DEFINE S == ruleVersions[r]
            Status(n) == IF n = k THEN "published"
                         ELSE IF S[n].status = "published" THEN "archived" ELSE S[n].status
            L == [n \in DOMAIN S |-> [S[n] EXCEPT !.status = Status(n)]]
<1>1. ruleVersions' = [ruleVersions EXCEPT ![r] = L]
  BY DEF Catalog!PublishVersion
<1>2. S \in Seq(VersionRow)
  BY DEF RulesInv
<1>3. ASSUME NEW n \in DOMAIN S
      PROVE  /\ L[n] \in VersionRow /\ L[n].deps = S[n].deps /\ L[n].executor = S[n].executor
             /\ L[n].status = "published" <=> n = k
  <2>1. S[n] \in VersionRow
    BY <1>2
  <2>. QED
    BY <2>1 DEF VersionRow
<1>4. DOMAIN L = DOMAIN S /\ L \in Seq(VersionRow)
  <2>1. DOMAIN S = 1..Len(S) /\ Len(S) \in Nat
    BY <1>2
  <2>2. L \in [1..Len(S) -> VersionRow]
    BY <1>3, <2>1
  <2>. QED
    BY <2>1, <2>2, SeqDef
<1>. HIDE DEF L
<1>. QED
  BY <1>1, <1>2, <1>3, <1>4 DEF RulesInv

\* It takes the place of the one the rule showed, and its graph has no circle.
LEMMA PublishKeeps ==
  ASSUME RulesInv, NEW r \in Rules, NEW k \in DOMAIN ruleVersions[r],
         Catalog!PublishVersion(<<r, k>>)
  PROVE  RulesInv'
<1>. DEFINE v == <<r, k>>
            P(q) == Catalog!PublishedOf(q)
<1>1. /\ rule' = [rule EXCEPT ![r] = [status |-> "published", shows |-> k]]
      /\ executors' = executors
      /\ executors[ruleVersions[r][k].executor] = "published"
      /\ Catalog!Acyclic(Catalog!Graph(v))
  BY DEF Catalog!PublishVersion, Catalog!Valid, Catalog!At
<1>2. k \in Nat
  BY DEF RulesInv
<1>3. /\ rule' \in [Rules -> RuleRow]
      /\ rule'[r].status = "published" /\ rule'[r].shows = k
      /\ \A q \in Rules \ {r} : rule'[q] = rule[q]
  BY <1>1, <1>2 DEF RulesInv, RuleRow
<1>4. P(r)' = {k}
  BY PublishedVersionRows DEF Catalog!PublishedOf
<1>5. \A q \in Rules \ {r} : P(q)' = P(q)
  BY PublishedVersionRows DEF Catalog!PublishedOf
<1>6. \A q \in Rules : Shown(q)'
  <2>. SUFFICES ASSUME NEW q \in Rules PROVE Shown(q)'
    OBVIOUS
  <2>1. CASE q = r
    BY <1>3, <1>4, <2>1 DEF Shown
  <2>2. CASE q # r
    BY <1>3, <1>5, <2>2, RulesUsable DEF RulesInv, Shown
  <2>. QED
    BY <2>1, <2>2
<1>7. ASSUME NEW q \in Rules, NEW n \in DOMAIN ruleVersions'[q]
      PROVE  ruleVersions'[q][n].executor \in DOMAIN executors'
  <2>1. CASE q = r
    BY <1>1, <2>1, PublishedVersionRows DEF RulesInv
  <2>2. CASE q # r
    BY <1>1, <2>2, PublishedVersionRows DEF RulesInv
  <2>. QED
    BY <2>1, <2>2
<1>8. \A q \in Rules : OnPublishedExecutors(q)'
  <2>. SUFFICES ASSUME NEW q \in Rules, NEW n \in P(q)'
                PROVE  executors'[ruleVersions'[q][n].executor] = "published"
    BY DEF OnPublishedExecutors
  <2>1. CASE q = r
    BY <1>1, <1>4, <2>1, PublishedVersionRows
  <2>2. CASE q # r
    BY <1>1, <1>5, <2>2, PublishedVersionRows, RulesUsable DEF RulesInv, OnPublishedExecutors
  <2>. QED
    BY <2>1, <2>2
<1>9. Catalog!PublishedDeps' = Catalog!Graph(v)
  <2>1. ASSUME NEW q \in Rules
        PROVE  UNION {ruleVersions'[q][n].deps : n \in P(q)'} = Catalog!Graph(v)[q]
    <3>1. CASE q = r
      <4>1. UNION {ruleVersions'[r][n].deps : n \in {k}} = ruleVersions[r][k].deps
        BY PublishedVersionRows
      <4>. QED
        BY <1>4, <3>1, <4>1 DEF Catalog!Graph, Catalog!At
    <3>2. CASE q # r
      <4>1. Catalog!First(P(q)) = P(q)
        <5>1. P(q) = {} \/ \E n \in Nat : P(q) = {n}
          BY RulesUsable DEF RulesInv, Shown, RuleRow
        <5>. QED
          BY <5>1 DEF Catalog!First
      <4>2. Catalog!Graph(v)[q] = UNION {ruleVersions[q][n].deps : n \in P(q)}
        BY <3>2, <4>1 DEF Catalog!Graph
      <4>3. ruleVersions'[q] = ruleVersions[q] /\ P(q)' = P(q)
        BY <1>5, <3>2, PublishedVersionRows
      <4>. HIDE DEF P
      <4>. QED
        BY <4>2, <4>3
    <3>. QED
      BY <3>1, <3>2
  <2>2. DOMAIN Catalog!Graph(v) = Rules /\ Catalog!Graph(v) = [q \in Rules |-> Catalog!Graph(v)[q]]
    BY DEF Catalog!Graph
  <2>. QED
    BY <2>1, <2>2 DEF Catalog!PublishedDeps
<1>10. Catalog!Acyclic(Catalog!PublishedDeps')
  BY <1>1, <1>9 DEF Catalog!Acyclic
<1>11. ShownRulesUsable'
  BY <1>6, <1>8, <1>10 DEF ShownRulesUsable, Catalog!ShownRulesUsable, Shown,
     OnPublishedExecutors, Catalog!Acyclic
<1>. QED
  BY <1>1, <1>3, <1>7, <1>11, PublishedVersionRows DEF RulesInv

\* A version is disabled, and its rule when that is what the rule shows.
LEMMA DisableKeeps ==
  ASSUME RulesInv, NEW r \in Rules, NEW k \in DOMAIN ruleVersions[r],
         Catalog!DisableVersion(<<r, k>>)
  PROVE  RulesInv'
<1>. DEFINE S == ruleVersions[r]
            d == [S[k] EXCEPT !.status = "disabled"]
            L == [S EXCEPT ![k] = d]
<1>1. /\ ruleVersions' = [ruleVersions EXCEPT ![r] = L]
      /\ rule' = [rule EXCEPT ![r].status = IF rule[r].shows = k THEN "disabled" ELSE @]
      /\ executors' = executors
  BY DEF Catalog!DisableVersion
<1>2. S \in Seq(VersionRow)
  BY DEF RulesInv
<1>3. S[k] \in VersionRow
  BY <1>2
<1>4. d \in VersionRow /\ d.status = "disabled" /\ d.deps = S[k].deps /\ d.executor = S[k].executor
  BY <1>3 DEF VersionRow
<1>. HIDE DEF d
<1>5. /\ L \in Seq(VersionRow) /\ DOMAIN L = DOMAIN S /\ L[k] = d
      /\ \A n \in DOMAIN S \ {k} : L[n] = S[n]
  BY <1>2, <1>4, ExceptSeq
<1>. HIDE DEF L
<1>6. /\ ruleVersions' \in [Rules -> Seq(VersionRow)] /\ ruleVersions'[r] = L
      /\ \A q \in Rules \ {r} : ruleVersions'[q] = ruleVersions[q]
  BY <1>1, <1>5 DEF RulesInv
<1>7. /\ rule' \in [Rules -> RuleRow]
      /\ rule'[r].shows = rule[r].shows
      /\ rule'[r].status = IF rule[r].shows = k THEN "disabled" ELSE rule[r].status
      /\ \A q \in Rules \ {r} : rule'[q] = rule[q]
  BY <1>1 DEF RulesInv, RuleRow
<1>8. ASSUME NEW q \in Rules
      PROVE  Catalog!PublishedOf(q)' = Catalog!PublishedOf(q) \ (IF q = r THEN {k} ELSE {})
  <2>1. CASE q = r
    BY <1>4, <1>5, <1>6, <2>1 DEF Catalog!PublishedOf
  <2>2. CASE q # r
    BY <1>6, <2>2 DEF Catalog!PublishedOf
  <2>. QED
    BY <2>1, <2>2
<1>9. ASSUME NEW q \in Rules
      PROVE  Shown(q)'
  <2>1. Shown(q)
    BY RulesUsable DEF RulesInv
  <2>2. CASE q = r
    BY <1>7, <1>8, <2>1, <2>2 DEF Shown
  <2>3. CASE q # r
    BY <1>7, <1>8, <2>1, <2>3 DEF Shown
  <2>. QED
    BY <2>2, <2>3
<1>10. ASSUME NEW q \in Rules, NEW n \in DOMAIN ruleVersions'[q]
       PROVE  /\ n \in DOMAIN ruleVersions[q]
              /\ ruleVersions'[q][n].deps = ruleVersions[q][n].deps
              /\ ruleVersions'[q][n].executor = ruleVersions[q][n].executor
  <2>1. CASE q = r
    BY <1>4, <1>5, <1>6, <2>1
  <2>2. CASE q # r
    BY <1>6, <2>2
  <2>. QED
    BY <2>1, <2>2
<1>11. \A q \in Rules : \A n \in Catalog!PublishedOf(q)' :
         /\ n \in Catalog!PublishedOf(q) /\ n \in DOMAIN ruleVersions'[q]
  BY <1>8 DEF Catalog!PublishedOf
<1>12. \A q \in Rules : \A n \in DOMAIN ruleVersions'[q] :
         ruleVersions'[q][n].executor \in DOMAIN executors'
  BY <1>1, <1>10 DEF RulesInv
<1>. QED
  BY <1>1, <1>6, <1>7, <1>9, <1>10, <1>11, <1>12, NothingPublished DEF RulesInv

\* What a copy has read before the lock is a version that exists.
CopyingInv ==
  /\ DOMAIN copying = Copiers
  /\ \A t \in Copiers : copying[t] # Idle =>
       \E r \in Rules : \E k \in DOMAIN ruleVersions[r] : copying[t].version = <<r, k>>

\* A copy is committed as a draft, or refused.
LEMMA CommitCopyKeeps ==
  ASSUME RulesInv, CopyingInv, NEW t \in Copiers, Catalog!CommitCopy(t)
  PROVE  RulesInv'
<1>1. PICK r, k : r \in Rules /\ k \in DOMAIN ruleVersions[r] /\ copying[t].version = <<r, k>>
  BY DEF CopyingInv, Catalog!CommitCopy
<1>2. executors' = executors /\ rule' = rule
  BY DEF Catalog!CommitCopy
<1>3. CASE UNCHANGED ruleVersions
  <2>1. \A q \in Rules : Shown(q)' /\ Catalog!PublishedOf(q)' = Catalog!PublishedOf(q)
    BY <1>2, <1>3, RulesUsable DEF RulesInv, Shown, Catalog!PublishedOf
  <2>. QED
    BY <1>2, <1>3, <2>1, NothingPublished DEF RulesInv
<1>4. CASE Catalog!Drafted(r, ruleVersions[r][k].deps, ruleVersions[r][k].executor)
  <2>1. ruleVersions[r][k] \in VersionRow /\ ruleVersions[r][k].executor \in DOMAIN executors
    BY <1>1 DEF RulesInv
  <2>2. ruleVersions[r][k].deps \in SUBSET Rules
    BY <2>1 DEF VersionRow
  <2>. QED
    BY <1>1, <1>2, <1>4, <2>1, <2>2, DraftKeeps
<1>. QED
  BY <1>1, <1>3, <1>4 DEF Catalog!CommitCopy, Catalog!At

\* No step takes a version away, so that what a copy has read stays.
LEMMA CopyingKeeps ==
  ASSUME CopyingInv,
         \A r \in Rules : DOMAIN ruleVersions[r] \subseteq DOMAIN ruleVersions'[r],
         DOMAIN copying' = Copiers,
         \A t \in Copiers : copying'[t] # Idle =>
           \/ copying'[t] = copying[t]
           \/ \E r \in Rules : \E k \in DOMAIN ruleVersions[r] :
                copying'[t].version = <<r, k>>
  PROVE  CopyingInv'
<1>. SUFFICES ASSUME NEW t \in Copiers, copying'[t] # Idle
              PROVE  \E r \in Rules : \E k \in DOMAIN ruleVersions'[r] :
                       copying'[t].version = <<r, k>>
  BY DEF CopyingInv
<1>1. PICK r, k : r \in Rules /\ k \in DOMAIN ruleVersions[r] /\ copying'[t].version = <<r, k>>
  BY DEF CopyingInv
<1>. QED
  BY <1>1

\* Drafting a version of a rule keeps those that are there.
LEMMA DraftedLonger ==
  ASSUME RulesInv, NEW r \in Rules, NEW D, NEW e, Catalog!Drafted(r, D, e)
  PROVE  \A q \in Rules : DOMAIN ruleVersions[q] \subseteq DOMAIN ruleVersions'[q]
<1>. DEFINE d == [status |-> "draft", deps |-> D, executor |-> e]
<1>. HIDE DEF d
<1>1. ruleVersions' = [ruleVersions EXCEPT ![r] = Append(ruleVersions[r], d)]
  BY DEF Catalog!Drafted, d
<1>2. ruleVersions[r] \in Seq(VersionRow)
  BY DEF RulesInv
<1>3. DOMAIN ruleVersions[r] \subseteq DOMAIN Append(ruleVersions[r], d)
  <2>1. /\ DOMAIN ruleVersions[r] = 1..Len(ruleVersions[r])
        /\ DOMAIN Append(ruleVersions[r], d) = 1..(Len(ruleVersions[r]) + 1)
        /\ Len(ruleVersions[r]) \in Nat
    BY <1>2
  <2>. QED
    BY <2>1
<1>. QED
  BY <1>1, <1>3 DEF RulesInv

\* The seeded rules show their versions.
LEMMA RulesInit == Catalog!Init => RulesInv /\ CopyingInv
<1>. SUFFICES ASSUME Catalog!Init PROVE RulesInv /\ CopyingInv
  OBVIOUS
<1>1. Catalog!SeedVersion \in VersionRow /\ Catalog!SeedVersion.executor = 1
      /\ Catalog!SeedVersion.status = "published" /\ Catalog!SeedVersion.deps = {}
  BY DEF Catalog!SeedVersion, VersionRow
<1>2. executors \in Seq({"draft", "published"}) /\ DOMAIN executors = {1}
      /\ executors[1] = "published"
  BY DEF Catalog!Init
<1>3. rule \in [Rules -> RuleRow]
  BY DEF Catalog!Init, RuleRow
<1>4. /\ ruleVersions \in [Rules -> Seq(VersionRow)]
      /\ \A r \in Rules : ruleVersions[r] = IF r \in Seeded THEN <<Catalog!SeedVersion>> ELSE << >>
  BY <1>1 DEF Catalog!Init
<1>5. ASSUME NEW r \in Rules, NEW n \in DOMAIN ruleVersions[r]
      PROVE  r \in Seeded /\ n = 1 /\ ruleVersions[r][n] = Catalog!SeedVersion
  BY <1>4, <1>5
<1>6. ASSUME NEW r \in Rules
      PROVE  Catalog!PublishedOf(r) = IF r \in Seeded THEN {1} ELSE {}
  <2>1. CASE r \in Seeded
    <3>1. 1 \in DOMAIN ruleVersions[r] /\ ruleVersions[r][1] = Catalog!SeedVersion
      BY <1>4, <2>1
    <3>. QED
      BY <1>1, <1>5, <2>1, <3>1 DEF Catalog!PublishedOf
  <2>2. CASE r \notin Seeded
    BY <1>5, <2>2 DEF Catalog!PublishedOf
  <2>. QED
    BY <2>1, <2>2
<1>7. \A r \in Rules : Shown(r)
  BY <1>6 DEF Shown, Catalog!Init
<1>8. \A r \in Rules : OnPublishedExecutors(r)
  BY <1>1, <1>2, <1>5 DEF OnPublishedExecutors, Catalog!PublishedOf
<1>9. Catalog!Acyclic(Catalog!PublishedDeps)
  <2>1. \A r \in Rules : Catalog!PublishedDeps[r] = {}
    <3>. SUFFICES ASSUME NEW r \in Rules
                  PROVE  UNION {ruleVersions[r][n].deps : n \in Catalog!PublishedOf(r)} = {}
      BY DEF Catalog!PublishedDeps
    <3>1. \A n \in Catalog!PublishedOf(r) : ruleVersions[r][n].deps = {}
      BY <1>1, <1>5 DEF Catalog!PublishedOf
    <3>. QED
      BY <3>1
  <2>. QED
    BY <2>1 DEF Catalog!Acyclic
<1>10. RulesInv
  BY <1>1, <1>2, <1>3, <1>4, <1>5, <1>7, <1>8, <1>9, RulesUsable DEF RulesInv
<1>11. CopyingInv
  BY DEF CopyingInv, Catalog!Init
<1>. QED
  BY <1>10, <1>11

\* Every step of the rules keeps what they show usable.
LEMMA RulesStep == RulesInv /\ CopyingInv /\ Catalog!Next => RulesInv' /\ CopyingInv'
<1>. SUFFICES ASSUME RulesInv, CopyingInv, Catalog!Next PROVE RulesInv' /\ CopyingInv'
  OBVIOUS
<1>1. ASSUME NEW s \in {"draft", "published"}, Catalog!CreateExecutorVersion(s)
      PROVE  RulesInv' /\ CopyingInv'
  <2>1. CopyingInv'
    BY <1>1, CopyingKeeps DEF Catalog!CreateExecutorVersion, CopyingInv
  <2>. QED
    BY <1>1, <2>1, ExecutorKeeps
<1>2. ASSUME NEW r \in Rules, Catalog!CreateRule(r)
      PROVE  RulesInv' /\ CopyingInv'
  <2>1. CopyingInv'
    BY <1>2, CopyingKeeps DEF Catalog!CreateRule, CopyingInv
  <2>. QED
    BY <1>2, <2>1, CreateRuleKeeps
<1>3. ASSUME NEW r \in Rules, NEW D \in Depends[r],
             \/ Catalog!CreateVersion(r, D)
             \/ \E e \in DOMAIN executors : Catalog!CreateVersionFor(r, D, e)
      PROVE  RulesInv' /\ CopyingInv'
  <2>1. PICK e \in DOMAIN executors : Catalog!Drafted(r, D, e)
    BY <1>3 DEF Catalog!CreateVersion, Catalog!CreateVersionFor
  <2>2. executors' = executors /\ rule' = rule /\ copying' = copying
    BY <1>3 DEF Catalog!CreateVersion, Catalog!CreateVersionFor
  <2>3. D \in SUBSET Rules
    BY DemoStoreAssumption
  <2>4. RulesInv'
    BY <2>1, <2>2, <2>3, DraftKeeps
  <2>5. CopyingInv'
    BY <2>1, <2>2, DraftedLonger, CopyingKeeps DEF CopyingInv
  <2>. QED
    BY <2>4, <2>5
<1>4. ASSUME NEW v \in Catalog!Ids, Catalog!PublishVersion(v) \/ Catalog!DisableVersion(v)
      PROVE  RulesInv' /\ CopyingInv'
  <2>1. PICK r, k : r \in Rules /\ k \in DOMAIN ruleVersions[r] /\ v = <<r, k>>
    BY <1>4 DEF Catalog!Ids, Catalog!PublishVersion, Catalog!DisableVersion, Catalog!Exists
  <2>2. CASE Catalog!PublishVersion(v)
    <3>1. Catalog!PublishVersion(<<r, k>>)
      BY <2>1, <2>2
    <3>2. \A q \in Rules : DOMAIN ruleVersions[q] \subseteq DOMAIN ruleVersions'[q]
      <4>1. DOMAIN ruleVersions'[r] = DOMAIN ruleVersions[r]
        BY <2>1, <3>1, PublishedVersionRows
      <4>2. \A q \in Rules \ {r} : ruleVersions'[q] = ruleVersions[q]
        BY <2>1, <3>1, PublishedVersionRows
      <4>. QED
        BY <4>1, <4>2
    <3>3. CopyingInv'
      BY <2>2, <3>2, CopyingKeeps DEF Catalog!PublishVersion, CopyingInv
    <3>. QED
      BY <2>1, <3>1, <3>3, PublishKeeps
  <2>3. CASE Catalog!DisableVersion(v)
    <3>1. Catalog!DisableVersion(<<r, k>>)
      BY <2>1, <2>3
    <3>2. \A q \in Rules : DOMAIN ruleVersions[q] \subseteq DOMAIN ruleVersions'[q]
      BY <3>1 DEF Catalog!DisableVersion, RulesInv
    <3>3. CopyingInv'
      BY <2>3, <3>2, CopyingKeeps DEF Catalog!DisableVersion, CopyingInv
    <3>. QED
      BY <2>1, <3>1, <3>3, DisableKeeps
  <2>. QED
    BY <1>4, <2>2, <2>3
<1>5. ASSUME NEW t \in Copiers, NEW v \in Catalog!Ids, Catalog!BeginCopy(t, v)
      PROVE  RulesInv' /\ CopyingInv'
  <2>1. PICK r, k : r \in Rules /\ k \in DOMAIN ruleVersions[r] /\ v = <<r, k>>
    BY <1>5 DEF Catalog!Ids, Catalog!BeginCopy, Catalog!Exists
  <2>2. UNCHANGED <<executors, rule, ruleVersions>>
    BY <1>5 DEF Catalog!BeginCopy, Catalog!catalog
  <2>3. /\ DOMAIN copying' = Copiers
        /\ \A u \in Copiers : copying'[u] = copying[u] \/ copying'[u].version = v
    BY <1>5 DEF Catalog!BeginCopy, CopyingInv
  <2>4. CopyingInv'
    BY <2>1, <2>2, <2>3, CopyingKeeps
  <2>5. RulesInv'
    <3>1. \A q \in Rules : Shown(q)' /\ Catalog!PublishedOf(q)' = Catalog!PublishedOf(q)
      BY <2>2, RulesUsable DEF RulesInv, Shown, Catalog!PublishedOf
    <3>. QED
      BY <2>2, <3>1, NothingPublished DEF RulesInv
  <2>. QED
    BY <2>4, <2>5
<1>6. ASSUME NEW t \in Copiers, Catalog!CommitCopy(t)
      PROVE  RulesInv' /\ CopyingInv'
  <2>1. \A q \in Rules : DOMAIN ruleVersions[q] \subseteq DOMAIN ruleVersions'[q]
    <3>1. PICK r, k : r \in Rules /\ k \in DOMAIN ruleVersions[r] /\ copying[t].version = <<r, k>>
      BY <1>6 DEF CopyingInv, Catalog!CommitCopy
    <3>2. \/ UNCHANGED ruleVersions
          \/ Catalog!Drafted(r, ruleVersions[r][k].deps, ruleVersions[r][k].executor)
      BY <1>6, <3>1 DEF Catalog!CommitCopy, Catalog!At
    <3>. QED
      BY <3>1, <3>2, DraftedLonger
  <2>2. /\ DOMAIN copying' = Copiers
        /\ \A u \in Copiers : copying'[u] = copying[u] \/ copying'[u] = Idle
    BY <1>6 DEF Catalog!CommitCopy, CopyingInv
  <2>3. CopyingInv'
    BY <2>1, <2>2, CopyingKeeps
  <2>. QED
    BY <1>6, <2>3, CommitCopyKeeps
<1>7. CASE \/ \E p \in Packs, status \in {"draft", "published"} :
                \E M \in SUBSET Catalog!Packable :
                  Catalog!CreatePack(p, M, status) \/ Catalog!UpdatePack(p, M, status)
           \/ Catalog!CreateTask
           \/ \E inherit \in BOOLEAN : Catalog!CreateRound(inherit)
           \/ \E k \in DOMAIN ruleRounds : Catalog!AssembleRules(k)
  <2>1. UNCHANGED <<executors, rule, ruleVersions, copying>>
    BY <1>7 DEF Catalog!CreatePack, Catalog!UpdatePack, Catalog!SavePack, Catalog!CreateTask,
       Catalog!CreateRound, Catalog!AssembleRules, Catalog!catalog
  <2>2. CopyingInv'
    BY <2>1 DEF CopyingInv
  <2>3. \A q \in Rules : Shown(q)' /\ Catalog!PublishedOf(q)' = Catalog!PublishedOf(q)
    BY <2>1, RulesUsable DEF RulesInv, Shown, Catalog!PublishedOf
  <2>4. RulesInv'
    BY <2>1, <2>3, NothingPublished DEF RulesInv
  <2>. QED
    BY <2>2, <2>4
<1>. QED
  BY <1>1, <1>2, <1>3, <1>4, <1>5, <1>6, <1>7 DEF Catalog!Next

\* The invariants of the rules hold in the whole store.
LEMMA RulesInvariant == DemoSpec => [](RulesInv /\ CopyingInv)
<1>. DEFINE Inv == RulesInv /\ CopyingInv
<1>1. DemoInit => Inv
  BY RulesInit DEF DemoInit
<1>2. Inv /\ [DemoNext]_demoVars => Inv'
  <2>. SUFFICES ASSUME Inv, [DemoNext]_demoVars PROVE Inv'
    OBVIOUS
  <2>1. CASE UNCHANGED ruleVars
    <3>1. UNCHANGED <<executors, rule, ruleVersions, copying>>
      BY <2>1 DEF ruleVars
    <3>2. CopyingInv'
      BY <3>1 DEF CopyingInv
    <3>3. \A q \in Rules : Shown(q)' /\ Catalog!PublishedOf(q)' = Catalog!PublishedOf(q)
      BY <3>1, RulesUsable DEF RulesInv, Shown, Catalog!PublishedOf
    <3>4. RulesInv'
      BY <3>1, <3>3, NothingPublished DEF RulesInv
    <3>. QED
      BY <3>2, <3>4
  <2>2. CASE Catalog!Next
    BY <2>2, RulesStep
  <2>. QED
    BY <2>1, <2>2 DEF DemoNext, demoVars
<1>. HIDE DEF Inv
<1>3. DemoSpec => []Inv
  BY <1>1, <1>2, PTL DEF DemoSpec
<1>. QED
  BY <1>3 DEF Inv

\* Whatever is created, copied, published and disabled, in whatever order, a
\* rule that the list of the in-memory store shows as published has one published
\* version, the one it shows, on a published executor, and the published rules do
\* not depend on each other in a circle.
THEOREM ShownRulesUsableHolds == DemoSpec => []ShownRulesUsable
<1>1. RulesInv => ShownRulesUsable
  BY DEF RulesInv
<1>. QED
  BY <1>1, RulesInvariant, PTL

-----------------------------------------------------------------------------
(* The types of every part.                                                *)

AuditStatuses == {"draft", "auditing", "awaiting_review", "waiting_review", "completed"}

AuditJobRow ==
  [status : {"absent", "queued", "running", "succeeded", "failed", "canceled"},
   retries : 0..MaxRetries]

ReportRow == [version : Nat, status : {"draft", "published"}]

AuditPlaces == {"idle", "taken", "list", "run", "finish", "report", "publish"}

WorkRow == [run : 0..MaxRuns, todo : SUBSET AuditRules, broke : BOOLEAN, report : Nat]

\* The rows of the audit but for those that AuditInv gives the types of.
AuditRows ==
  /\ round \in AuditStatuses
  /\ Len(runs) <= MaxRuns
  /\ issue \in [AuditRules -> {"none", "open", "decided"}]
  /\ requests \in 0..MaxRequests

\* What the rows of jobs and reports and the threads hold.
AuditWork ==
  /\ auditJob \in [Auditing!Numbers -> AuditJobRow]
  /\ reports \in Seq(ReportRow)
  /\ place \in [Threads -> AuditPlaces]
  /\ at \in [Threads -> WorkRow]

\* A step of the audit stays within the runs and requests, and writes statuses.
LEMMA AuditRowsStep == AuditInv /\ RunningInv /\ AuditRows /\ Auditing!Next => AuditRows'
<1>. SUFFICES ASSUME AuditInv, RunningInv, AuditRows, Auditing!Next PROVE AuditRows'
  OBVIOUS
<1>1. ASSUME Auditing!Request PROVE requests' \in 0..MaxRequests
  BY <1>1, DemoStoreAssumption DEF Auditing!Request, AuditRows
<1>2. ASSUME NEW row, runs' = Append(runs, row), Len(runs) < MaxRuns PROVE Len(runs') <= MaxRuns
  BY <1>2, DemoStoreAssumption, AppendProperties DEF AuditInv, AuditRows
<1>3. ASSUME NEW n, NEW k \in AuditRules, NEW s, Auditing!Record(n, k, s)
      PROVE  /\ round' \in AuditStatuses
             /\ Len(runs') <= MaxRuns
             /\ issue' \in [AuditRules -> {"none", "open", "decided"}]
  <2>1. Len(runs') = Len(runs)
    BY <1>3, StatusWritten DEF Auditing!Record, AuditInv
  <2>2. issue' \in [AuditRules -> {"none", "open", "decided"}]
    BY <1>3 DEF Auditing!Record, Auditing!Issues, AuditRows
  <2>3. round' \in AuditStatuses
    BY <1>3 DEF Auditing!Record, AuditRows, AuditStatuses
  <2>. QED
    BY <2>1, <2>2, <2>3 DEF AuditRows
<1>4. CASE Auditing!StartAudit
  BY <1>1, <1>2, <1>4 DEF Auditing!StartAudit, AuditRows, AuditStatuses
<1>5. ASSUME NEW K, Auditing!LocalRerun(K) PROVE AuditRows'
  BY <1>1, <1>2, <1>5 DEF Auditing!LocalRerun, AuditRows
<1>6. ASSUME NEW n, NEW k \in AuditRules, NEW s, Auditing!RecordByHand(n, k, s) PROVE AuditRows'
  BY <1>1, <1>3, <1>6 DEF Auditing!RecordByHand, AuditRows
<1>7. ASSUME NEW n, NEW k,
             Auditing!CancelJob(n) \/ Auditing!RetryJob(n) \/ Auditing!RetryExecution(n, k)
      PROVE  AuditRows'
  BY <1>1, <1>7 DEF Auditing!CancelJob, Auditing!RetryJob, Auditing!RetryExecution, AuditRows
<1>8. ASSUME NEW k \in AuditRules, Auditing!DecideIssue(k) PROVE AuditRows'
  BY <1>1, <1>8 DEF Auditing!DecideIssue, Auditing!rows, AuditRows
<1>9. ASSUME NEW t \in Threads, Auditing!RunNext(t) PROVE AuditRows'
  <2>1. PICK k, s : k \in at[t].todo /\ Auditing!Record(at[t].run, k, s)
    BY <1>9 DEF Auditing!RunNext
  <2>2. k \in AuditRules
    BY <2>1 DEF RunningInv, Running
  <2>3. requests' = requests
    BY <1>9 DEF Auditing!RunNext
  <2>. QED
    BY <1>3, <2>1, <2>2, <2>3 DEF AuditRows
<1>10. ASSUME NEW t \in Threads, Auditing!CompleteRun(t) PROVE AuditRows'
  <2>1. Len(runs') = Len(runs)
    <3>1. PICK n, s : s \in {"failed", "succeeded"} /\ runs' = [runs EXCEPT ![n].status = s]
      BY <1>10 DEF Auditing!CompleteRun
    <3>. QED
      BY <3>1, StatusWritten DEF AuditInv
  <2>. QED
    BY <1>10, <2>1 DEF Auditing!CompleteRun, AuditRows, AuditStatuses
<1>11. ASSUME NEW t \in Threads,
              \/ Auditing!BeginReport(t)
              \/ \E i \in DOMAIN reports : Auditing!BeginPublish(t, i)
       PROVE  AuditRows'
  BY <1>1, <1>11 DEF Auditing!BeginReport, Auditing!BeginPublish, Auditing!rows, AuditRows
<1>12. ASSUME NEW t \in Threads,
              \/ \E n \in Auditing!Numbers : Auditing!TakeJob(t, n)
              \/ Auditing!MarkRunning(t) \/ Auditing!ListPending(t) \/ Auditing!FinishJob(t)
              \/ Auditing!CommitReport(t) \/ Auditing!CommitPublish(t)
       PROVE  AuditRows'
  BY <1>12 DEF Auditing!TakeJob, Auditing!MarkRunning, Auditing!ListPending, Auditing!FinishJob,
     Auditing!CommitReport, Auditing!CommitPublish, Auditing!rows, AuditRows, AuditStatuses
<1>13. ASSUME NEW t \in Threads,
              \/ \E n \in Auditing!Numbers : Auditing!TakeJob(t, n)
              \/ Auditing!MarkRunning(t) \/ Auditing!ListPending(t) \/ Auditing!RunNext(t)
              \/ Auditing!CompleteRun(t) \/ Auditing!FinishJob(t)
              \/ Auditing!BeginReport(t) \/ Auditing!CommitReport(t) \/ Auditing!CommitPublish(t)
              \/ \E i \in DOMAIN reports : Auditing!BeginPublish(t, i)
       PROVE  AuditRows'
  BY <1>9, <1>10, <1>11, <1>12, <1>13
<1>. QED
  BY <1>4, <1>5, <1>6, <1>7, <1>8, <1>13 DEF Auditing!Next

\* The status of a job written.
LEMMA AuditJobWritten ==
  ASSUME NEW J \in [Auditing!Numbers -> AuditJobRow], NEW n,
         NEW s \in {"absent", "queued", "running", "succeeded", "failed", "canceled"}
  PROVE  [J EXCEPT ![n].status = s] \in [Auditing!Numbers -> AuditJobRow]
<1>1. ASSUME NEW j \in AuditJobRow PROVE [j EXCEPT !.status = s] \in AuditJobRow
  BY DEF AuditJobRow
<1>. QED
  BY <1>1

\* A job is retried at most MaxRetries times.
LEMMA AuditJobsStep ==
  AuditWork /\ Auditing!Next => auditJob' \in [Auditing!Numbers -> AuditJobRow]
<1>. SUFFICES ASSUME AuditWork, Auditing!Next
              PROVE  auditJob' \in [Auditing!Numbers -> AuditJobRow]
  OBVIOUS
<1>1. auditJob \in [Auditing!Numbers -> AuditJobRow]
  BY DEF AuditWork
<1>2. ASSUME NEW n, Auditing!RetryJob(n) PROVE auditJob' \in [Auditing!Numbers -> AuditJobRow]
  <2>1. CASE n \in Auditing!Numbers
    <3>. DEFINE j == auditJob[n]
                x == [status |-> "queued", retries |-> j.retries + 1]
    <3>1. j \in AuditJobRow /\ j.retries < MaxRetries
      BY <1>1, <1>2, <2>1 DEF Auditing!RetryJob
    <3>2. x \in AuditJobRow
      BY <3>1, DemoFilesAssumption DEF AuditJobRow
    <3>3. auditJob' = [auditJob EXCEPT ![n] =
                         [[j EXCEPT !.status = "queued"] EXCEPT !.retries = j.retries + 1]]
      BY <1>1, <1>2, <2>1 DEF Auditing!RetryJob
    <3>4. [[j EXCEPT !.status = "queued"] EXCEPT !.retries = j.retries + 1] = x
      <4>1. j = [status |-> j.status, retries |-> j.retries]
        BY <3>1 DEF AuditJobRow
      <4>. DEFINE g == [status |-> "queued", retries |-> j.retries]
      <4>2. [j EXCEPT !.status = "queued"] = g
        BY <4>1
      <4>3. ASSUME NEW r PROVE [g EXCEPT !.retries = r] = [status |-> "queued", retries |-> r]
        OBVIOUS
      <4>4. [g EXCEPT !.retries = j.retries + 1] = x
        BY <4>3
      <4>. HIDE DEF g
      <4>. QED
        BY <4>2, <4>4
    <3>5. auditJob' = [auditJob EXCEPT ![n] = x]
      BY <3>3, <3>4
    <3>. HIDE DEF x, j
    <3>. QED
      BY <1>1, <3>2, <3>5
  <2>2. CASE n \notin Auditing!Numbers
    BY <1>1, <1>2, <2>2 DEF Auditing!RetryJob
  <2>. QED
    BY <2>1, <2>2
<1>3. CASE \/ Auditing!StartAudit
           \/ \E n \in Auditing!Numbers : Auditing!CancelJob(n)
           \/ \E t \in Threads : Auditing!MarkRunning(t) \/ Auditing!FinishJob(t)
  <2>1. PICK n, s :
          /\ s \in {"absent", "queued", "running", "succeeded", "failed", "canceled"}
          /\ auditJob' = [auditJob EXCEPT ![n].status = s]
    BY <1>3 DEF Auditing!StartAudit, Auditing!CancelJob, Auditing!MarkRunning, Auditing!FinishJob
  <2>. QED
    BY <1>1, <2>1, AuditJobWritten
<1>4. CASE \/ \E K \in (SUBSET AuditRules) \ {{}} : Auditing!LocalRerun(K)
           \/ \E n \in Auditing!Numbers, k \in AuditRules :
                \/ Auditing!RetryExecution(n, k)
                \/ \E s \in Auditing!Terminal \cup {"running"} : Auditing!RecordByHand(n, k, s)
           \/ \E k \in AuditRules : Auditing!DecideIssue(k)
  BY <1>1, <1>4 DEF Auditing!LocalRerun, Auditing!RetryExecution, Auditing!RecordByHand,
     Auditing!Record, Auditing!DecideIssue, Auditing!rows
<1>5. ASSUME NEW t \in Threads,
             \/ \E n \in Auditing!Numbers : Auditing!TakeJob(t, n)
             \/ Auditing!ListPending(t) \/ Auditing!RunNext(t) \/ Auditing!CompleteRun(t)
             \/ Auditing!BeginReport(t) \/ Auditing!CommitReport(t) \/ Auditing!CommitPublish(t)
             \/ \E i \in DOMAIN reports : Auditing!BeginPublish(t, i)
      PROVE  auditJob' \in [Auditing!Numbers -> AuditJobRow]
  BY <1>1, <1>5 DEF Auditing!TakeJob, Auditing!ListPending, Auditing!RunNext, Auditing!Record,
     Auditing!CompleteRun, Auditing!BeginReport, Auditing!CommitReport, Auditing!CommitPublish,
     Auditing!BeginPublish, Auditing!rows
<1>. QED
  BY <1>2, <1>3, <1>4, <1>5 DEF Auditing!Next

\* A report is drafted with the version that its thread has read.
LEMMA AuditReportsStep == AuditWork /\ Auditing!Next => reports' \in Seq(ReportRow)
<1>. SUFFICES ASSUME AuditWork, Auditing!Next PROVE reports' \in Seq(ReportRow)
  OBVIOUS
<1>1. reports \in Seq(ReportRow)
  BY DEF AuditWork
<1>2. ASSUME NEW t \in Threads, Auditing!CommitReport(t) PROVE reports' \in Seq(ReportRow)
  <2>1. [version |-> at[t].report, status |-> "draft"] \in ReportRow
    BY DEF AuditWork, WorkRow, ReportRow
  <2>. QED
    BY <1>1, <1>2, <2>1, AppendProperties DEF Auditing!CommitReport
<1>3. ASSUME NEW t \in Threads, Auditing!CommitPublish(t) PROVE reports' \in Seq(ReportRow)
  <2>1. PICK i : reports' = [reports EXCEPT ![i].status = "published"]
    BY <1>3 DEF Auditing!CommitPublish
  <2>2. \A p \in ReportRow : [p EXCEPT !.status = "published"] \in ReportRow
    BY DEF ReportRow
  <2>3. DOMAIN reports' = DOMAIN reports /\ \A n \in DOMAIN reports : reports'[n] \in ReportRow
    BY <1>1, <2>1, <2>2
  <2>4. reports' = [n \in DOMAIN reports |-> reports'[n]]
    BY <2>1
  <2>. QED
    BY <1>1, <2>3, <2>4
<1>4. CASE \/ Auditing!StartAudit
           \/ \E K \in (SUBSET AuditRules) \ {{}} : Auditing!LocalRerun(K)
           \/ \E n \in Auditing!Numbers :
                \/ Auditing!CancelJob(n)
                \/ Auditing!RetryJob(n)
                \/ \E k \in AuditRules :
                     \/ Auditing!RetryExecution(n, k)
                     \/ \E s \in Auditing!Terminal \cup {"running"} : Auditing!RecordByHand(n, k, s)
           \/ \E k \in AuditRules : Auditing!DecideIssue(k)
  BY <1>1, <1>4 DEF Auditing!StartAudit, Auditing!LocalRerun, Auditing!CancelJob,
     Auditing!RetryJob, Auditing!RetryExecution, Auditing!RecordByHand, Auditing!Record,
     Auditing!DecideIssue
<1>5. ASSUME NEW t \in Threads,
             \/ \E n \in Auditing!Numbers : Auditing!TakeJob(t, n)
             \/ Auditing!MarkRunning(t) \/ Auditing!ListPending(t) \/ Auditing!RunNext(t)
             \/ Auditing!CompleteRun(t) \/ Auditing!FinishJob(t) \/ Auditing!BeginReport(t)
             \/ \E i \in DOMAIN reports : Auditing!BeginPublish(t, i)
      PROVE  reports' \in Seq(ReportRow)
  BY <1>1, <1>5 DEF Auditing!TakeJob, Auditing!MarkRunning, Auditing!ListPending,
     Auditing!RunNext, Auditing!Record, Auditing!CompleteRun, Auditing!FinishJob,
     Auditing!BeginReport, Auditing!BeginPublish
<1>. QED
  BY <1>2, <1>3, <1>4, <1>5 DEF Auditing!Next

\* What a thread works on, as it goes from step to step.
LEMMA AuditThreadsStep ==
  /\ AuditInv /\ RunningInv /\ AuditWork /\ Auditing!Next
  => place' \in [Threads -> AuditPlaces] /\ at' \in [Threads -> WorkRow]
<1>. SUFFICES ASSUME AuditInv, RunningInv, AuditWork, Auditing!Next
              PROVE  place' \in [Threads -> AuditPlaces] /\ at' \in [Threads -> WorkRow]
  OBVIOUS
<1>. DEFINE Typed == place' \in [Threads -> AuditPlaces] /\ at' \in [Threads -> WorkRow]
<1>1. ASSUME NEW t \in Threads, NEW p \in AuditPlaces, NEW x \in WorkRow,
             Auditing!Goto(t, p, x)
      PROVE  Typed
  BY <1>1 DEF AuditWork, Auditing!Goto
<1>2. Auditing!Nowhere \in WorkRow
  BY DemoStoreAssumption DEF Auditing!Nowhere, WorkRow
<1>3. ASSUME NEW a \in WorkRow
      PROVE  /\ \A n \in 0..MaxRuns : [a EXCEPT !.run = n] \in WorkRow
             /\ \A i \in Nat : [a EXCEPT !.report = i] \in WorkRow
             /\ \A S \in SUBSET AuditRules : [a EXCEPT !.todo = S] \in WorkRow
  BY DEF WorkRow
<1>4. ASSUME NEW t \in Threads, NEW n \in Auditing!Numbers, Auditing!TakeJob(t, n)
      PROVE  Typed
  <2>1. [Auditing!Nowhere EXCEPT !.run = n] \in WorkRow
    <3>1. n \in 0..MaxRuns
      BY DemoStoreAssumption DEF Auditing!Numbers
    <3>. QED
      BY <1>2, <1>3, <3>1
  <2>. QED
    BY <1>1, <1>4, <2>1 DEF Auditing!TakeJob, AuditPlaces
<1>5. ASSUME NEW t \in Threads, Auditing!MarkRunning(t) \/ Auditing!CompleteRun(t) PROVE Typed
  <2>1. at[t] \in WorkRow
    BY DEF AuditWork
  <2>. QED
    BY <1>1, <1>5, <2>1 DEF Auditing!MarkRunning, Auditing!CompleteRun, AuditPlaces
<1>6. ASSUME NEW t \in Threads, Auditing!ListPending(t) PROVE Typed
  <2>. DEFINE x == [at[t] EXCEPT !.todo = Auditing!Pending(at[t].run)]
  <2>1. at[t] \in WorkRow /\ Auditing!Pending(at[t].run) \in SUBSET AuditRules
    BY DEF AuditWork, Auditing!Pending
  <2>2. x \in WorkRow
    BY <1>3, <2>1
  <2>3. Auditing!Goto(t, "run", x)
    BY <1>6 DEF Auditing!ListPending
  <2>. HIDE DEF x
  <2>. QED
    BY <1>1, <2>2, <2>3 DEF AuditPlaces
<1>7. ASSUME NEW t \in Threads, Auditing!RunNext(t) PROVE Typed
  <2>. DEFINE a == at[t]
  <2>0. a \in WorkRow
    BY DEF AuditWork
  <2>1. PICK k, s :
          Auditing!Goto(t, "run",
            [at[t] EXCEPT !.todo = @ \ {k}, !.broke = @ \/ s = "exception"])
    BY <1>7 DEF Auditing!RunNext
  <2>2. PICK S : S = a.todo \ {k}
    OBVIOUS
  <2>3. PICK b : b = (a.broke \/ s = "exception")
    OBVIOUS
  <2>4. S \in SUBSET AuditRules /\ b \in BOOLEAN
    BY <2>0, <2>2, <2>3 DEF WorkRow
  <2>. DEFINE x == [run |-> a.run, todo |-> S, broke |-> b, report |-> a.report]
  <2>5. [a EXCEPT !.todo = S, !.broke = b] = x
    <3>1. a = [run |-> a.run, todo |-> a.todo, broke |-> a.broke, report |-> a.report]
      BY <2>0 DEF WorkRow
    <3>. QED
      BY <3>1, ListAndBreakWritten
  <2>6. x \in WorkRow
    BY <2>0, <2>4 DEF WorkRow
  <2>7. Auditing!Goto(t, "run", x)
    BY <2>1, <2>2, <2>3, <2>5
  <2>. HIDE DEF x
  <2>. QED
    BY <1>1, <2>6, <2>7 DEF AuditPlaces
<1>8. ASSUME NEW t \in Threads,
             Auditing!FinishJob(t) \/ Auditing!CommitReport(t) \/ Auditing!CommitPublish(t)
      PROVE  Typed
  BY <1>1, <1>2, <1>8 DEF Auditing!FinishJob, Auditing!CommitReport, Auditing!CommitPublish,
     Auditing!Done, AuditPlaces
<1>9. ASSUME NEW t \in Threads, NEW i \in Nat, NEW p \in {"report", "publish"},
             Auditing!Goto(t, p, [Auditing!Nowhere EXCEPT !.report = i])
      PROVE  Typed
  <2>1. [Auditing!Nowhere EXCEPT !.report = i] \in WorkRow
    BY <1>2, <1>3
  <2>. QED
    BY <1>1, <1>9, <2>1 DEF AuditPlaces
<1>10. ASSUME NEW t \in Threads, Auditing!BeginReport(t) PROVE Typed
  <2>1. Len(reports) + 1 \in Nat
    BY DEF AuditWork
  <2>. QED
    BY <1>9, <1>10, <2>1 DEF Auditing!BeginReport
<1>11. ASSUME NEW t \in Threads, NEW i \in DOMAIN reports, Auditing!BeginPublish(t, i)
       PROVE  Typed
  <2>1. i \in Nat
    BY DEF AuditWork
  <2>. QED
    BY <1>9, <1>11, <2>1 DEF Auditing!BeginPublish
<1>12. CASE UNCHANGED <<place, at>>
  BY <1>12 DEF AuditWork
<1>13. CASE \/ Auditing!StartAudit
            \/ \E K \in (SUBSET AuditRules) \ {{}} : Auditing!LocalRerun(K)
            \/ \E n \in Auditing!Numbers :
                 \/ Auditing!CancelJob(n)
                 \/ Auditing!RetryJob(n)
                 \/ \E k \in AuditRules :
                      \/ Auditing!RetryExecution(n, k)
                      \/ \E s \in Auditing!Terminal \cup {"running"} : Auditing!RecordByHand(n, k, s)
            \/ \E k \in AuditRules : Auditing!DecideIssue(k)
  <2>1. UNCHANGED <<place, at>>
    BY <1>13 DEF Auditing!StartAudit, Auditing!LocalRerun, Auditing!CancelJob,
       Auditing!RetryJob, Auditing!RetryExecution, Auditing!RecordByHand, Auditing!DecideIssue
  <2>. QED
    BY <1>12, <2>1
<1>14. ASSUME NEW t \in Threads,
              \/ \E n \in Auditing!Numbers : Auditing!TakeJob(t, n)
              \/ Auditing!MarkRunning(t) \/ Auditing!ListPending(t) \/ Auditing!RunNext(t)
              \/ Auditing!CompleteRun(t) \/ Auditing!FinishJob(t)
              \/ Auditing!BeginReport(t) \/ Auditing!CommitReport(t) \/ Auditing!CommitPublish(t)
              \/ \E i \in DOMAIN reports : Auditing!BeginPublish(t, i)
       PROVE  Typed
  BY <1>4, <1>5, <1>6, <1>7, <1>8, <1>10, <1>11, <1>14
<1>. QED
  BY <1>13, <1>14 DEF Auditing!Next

\* Nothing is taken, worked on or reported at the start.
LEMMA AuditRowsInit == Auditing!Init => AuditRows /\ AuditWork
<1>. SUFFICES ASSUME Auditing!Init PROVE AuditRows /\ AuditWork
  OBVIOUS
<1>1. AuditRows
  BY DemoStoreAssumption DEF Auditing!Init, AuditRows, AuditStatuses
<1>2. auditJob \in [Auditing!Numbers -> AuditJobRow]
  BY DemoFilesAssumption DEF Auditing!Init, AuditJobRow
<1>3. at \in [Threads -> WorkRow] /\ place \in [Threads -> AuditPlaces]
  <2>1. Auditing!Nowhere \in WorkRow
    BY DemoStoreAssumption DEF Auditing!Nowhere, WorkRow
  <2>. QED
    BY <2>1 DEF Auditing!Init, AuditPlaces
<1>. QED
  BY <1>1, <1>2, <1>3 DEF AuditWork, Auditing!Init

\* The types of the audit.
LEMMA AuditTypes == DemoSpec => []Auditing!TypeOK
<1>. DEFINE Inv == AuditRows /\ AuditWork
            Known == AuditInv /\ RunningInv
<1>1. DemoInit => Inv
  BY AuditRowsInit DEF DemoInit
<1>2. Known /\ Inv /\ [DemoNext]_demoVars => Inv'
  <2>. SUFFICES ASSUME AuditInv, RunningInv, AuditRows, AuditWork, [DemoNext]_demoVars
                PROVE  AuditRows' /\ AuditWork'
    OBVIOUS
  <2>1. CASE UNCHANGED auditVars
    BY <2>1 DEF auditVars, AuditRows, AuditWork
  <2>2. CASE Auditing!Next
    <3>1. AuditRows'
      BY <2>2, AuditRowsStep
    <3>2. AuditWork'
      BY <2>2, AuditJobsStep, AuditReportsStep, AuditThreadsStep DEF AuditWork
    <3>. QED
      BY <3>1, <3>2
  <2>. QED
    BY <2>1, <2>2 DEF DemoNext, demoVars
<1>3. Known /\ Inv => Auditing!TypeOK
  <2>. SUFFICES ASSUME AuditInv, AuditRows, AuditWork PROVE Auditing!TypeOK
    OBVIOUS
  <2>1. \A n \in DOMAIN runs : runs[n] \in Auditing!RunRow
    BY DEF AuditInv
  <2>2. \A i \in DOMAIN reports : reports[i] \in ReportRow
    BY DEF AuditWork
  <2>. QED
    BY <2>1, <2>2 DEF AuditInv, AuditRows, AuditWork, AuditStatuses, AuditJobRow, ReportRow,
       AuditPlaces, WorkRow, Auditing!TypeOK
<1>4. DemoSpec => []Known
  BY AuditInvariant
<1>. HIDE DEF Inv, Known
<1>. QED
  BY <1>1, <1>2, <1>3, <1>4, PTL DEF DemoSpec
\* The rows of the standards but for those that StandardsInv gives the types of.
StandardRows ==
  /\ standard \in Standards!Statuses
  /\ \A v \in Versions : latest[v].no \in 0..Len(revisions[v])

\* A revision made from the one that is copied is one of the version's.
LEMMA StandardRowsStep == StandardsInv /\ StandardRows /\ Standards!Next => StandardRows'
<1>. SUFFICES ASSUME StandardsInv, StandardRows, Standards!Next PROVE StandardRows'
  OBVIOUS
<1>1. StandardsInv'
  BY StandardsStep
<1>. DEFINE Kept ==
       /\ standard' \in Standards!Statuses
       /\ \A v \in Versions : version'[v] = "absent" =>
            revisions'[v] = revisions[v] /\ latest'[v] = latest[v]
<1>2. Kept
  <2>1. ASSUME NEW v \in Versions,
               \/ \E s \in Standards!Statuses \ {"absent"} : Standards!CreateVersion(v, s)
               \/ \E C \in SUBSET Codes : Standards!CreateRevision(v, C)
               \/ \E n \in DOMAIN revisions[v] : Standards!PublishRevision(v, n)
               \/ Standards!PublishVersion(v)
               \/ Standards!AbolishVersion(v)
        PROVE  Kept
    BY <2>1 DEF Standards!CreateVersion, Standards!CreateRevision, Standards!PublishRevision,
       Standards!PublishVersion, Standards!AbolishVersion, StandardsInv, StandardRows,
       Standards!Statuses
  <2>2. CASE \/ Standards!CreateRound
             \/ \E r \in DOMAIN rounds :
                  \/ \E v \in Versions : Standards!AddStandard(r, v)
                  \/ \E e \in rounds[r] : Standards!ConfirmStandard(r, e)
                  \/ \E t \in Threads, then \in Standards!Decisions \cup {"list"} :
                       Standards!BeginList(t, r, then)
             \/ \E t \in Threads :
                  \/ Standards!CommitList(t)
                  \/ Standards!DecideNothing(t)
                  \/ \E i \in items : Standards!DecideItem(t, i)
    BY <2>2 DEF Standards!CreateRound, Standards!AddStandard, Standards!ConfirmStandard,
       Standards!BeginList, Standards!CommitList, Standards!DecideNothing, Standards!DecideItem,
       Standards!catalog, StandardRows
  <2>. QED
    BY <2>1, <2>2 DEF Standards!Next
<1>3. ASSUME NEW v \in Versions PROVE latest'[v].no \in 0..Len(revisions'[v])
  <2>1. CASE version'[v] = "absent"
    BY <1>2, <2>1 DEF StandardRows
  <2>2. CASE version'[v] # "absent"
    <3>1. latest'[v].no \in DOMAIN revisions'[v] /\ revisions'[v] \in Seq(RevisionRow)
      BY <1>1, <2>2 DEF StandardsInv, LatestIsCurrent, Standards!LatestIsCurrent
    <3>. QED
      BY <3>1
  <2>. QED
    BY <2>1, <2>2
<1>. QED
  BY <1>2, <1>3 DEF StandardRows

\* What a thread has to do with the items of a round.
Listing(t) ==
  listing[t] # Idle =>
    \/ /\ listing[t] = [round |-> listing[t].round, known |-> listing[t].known,
                        then |-> listing[t].then]
       /\ listing[t].round \in DOMAIN rounds
       /\ listing[t].then \in Standards!Decisions \cup {"list"}
    \/ /\ listing[t] = [round |-> listing[t].round, decision |-> listing[t].decision]
       /\ listing[t].round \in DOMAIN rounds
       /\ listing[t].decision \in Standards!Decisions

Entry == [version : Versions, confirmed : 0..MaxRounds]

\* An item of a round.
Item(i) ==
  /\ i = [round |-> i.round, clause |-> i.clause, status |-> i.status]
  /\ i.round \in DOMAIN rounds
  /\ i.status \in Standards!Decisions \cup {"to_confirm"}

\* What the rounds have selected and decided.
RoundRows ==
  /\ entries \in Seq(Entry)
  /\ rounds \in Seq(SUBSET Nat) /\ Len(rounds) \in 1..MaxRounds
  /\ \A r \in DOMAIN rounds : rounds[r] \subseteq DOMAIN entries
  /\ \A i \in items : Item(i)
  /\ DOMAIN listing = Threads
  /\ \A t \in Threads : Listing(t)

\* There is one round, without standards.
LEMMA RoundRowsInit == Standards!Init => StandardRows /\ RoundRows
  BY DemoStoreAssumption DEF Standards!Init, StandardRows, RoundRows, Standards!Statuses, Listing, Item

\* A round that is added selects what the one before does.
LEMMA RoundAdded ==
  ASSUME RoundRows, Standards!CreateRound
  PROVE  RoundRows'
<1>. DEFINE n == Len(rounds)
<1>1. /\ rounds' = Append(rounds, rounds[n]) /\ n < MaxRounds
      /\ UNCHANGED <<entries, items, listing>>
  BY DEF Standards!CreateRound
<1>2. n \in DOMAIN rounds /\ rounds[n] \in SUBSET Nat /\ rounds[n] \subseteq DOMAIN entries
  BY DemoStoreAssumption DEF RoundRows
<1>3. /\ rounds' \in Seq(SUBSET Nat) /\ Len(rounds') = n + 1
      /\ \A r \in DOMAIN rounds : r \in DOMAIN rounds' /\ rounds'[r] = rounds[r]
      /\ \A r \in DOMAIN rounds' : r \in DOMAIN rounds \/ rounds'[r] = rounds[n]
  BY <1>1, <1>2, AppendProperties DEF RoundRows
<1>4. Len(rounds') \in 1..MaxRounds
  BY <1>1, <1>2, <1>3, DemoStoreAssumption DEF RoundRows
<1>5. \A r \in DOMAIN rounds' : rounds'[r] \subseteq DOMAIN entries'
  BY <1>1, <1>2, <1>3 DEF RoundRows
<1>6. (\A i \in items : Item(i))' /\ (\A t \in Threads : Listing(t))'
  BY <1>1, <1>3 DEF RoundRows, Item, Listing
<1>. QED
  BY <1>1, <1>3, <1>4, <1>5, <1>6 DEF RoundRows

\* A standard that is selected gets an entry.
LEMMA EntryAdded ==
  ASSUME RoundRows, NEW r \in DOMAIN rounds, NEW v \in Versions, Standards!AddStandard(r, v)
  PROVE  RoundRows'
<1>. DEFINE e == [version |-> v, confirmed |-> 0]
            n == Len(entries) + 1
<1>1. /\ entries' = Append(entries, e)
      /\ rounds' = [rounds EXCEPT ![r] = rounds[r] \cup {n}]
      /\ UNCHANGED <<items, listing>>
  BY DEF Standards!AddStandard
<1>2. e \in Entry
  BY DemoStoreAssumption DEF Entry
<1>. HIDE DEF e
<1>3. entries' \in Seq(Entry) /\ DOMAIN entries' = DOMAIN entries \cup {n} /\ n \in Nat
  BY <1>1, <1>2, AppendProperties DEF RoundRows
<1>. HIDE DEF n
<1>4. /\ rounds' \in Seq(SUBSET Nat) /\ DOMAIN rounds' = DOMAIN rounds
      /\ Len(rounds') = Len(rounds)
      /\ \A q \in DOMAIN rounds : rounds'[q] \subseteq rounds[q] \cup {n}
  BY <1>1, <1>3 DEF RoundRows
<1>5. (\A i \in items : Item(i))' /\ (\A t \in Threads : Listing(t))'
  BY <1>1, <1>4 DEF RoundRows, Item, Listing
<1>. QED
  BY <1>1, <1>3, <1>4, <1>5 DEF RoundRows

\* The entry bears the name of a round.
LEMMA EntryConfirmed ==
  ASSUME RoundRows, NEW r \in DOMAIN rounds, NEW e, Standards!ConfirmStandard(r, e)
  PROVE  RoundRows'
<1>1. /\ entries' = [entries EXCEPT ![e].confirmed = r]
      /\ UNCHANGED <<rounds, items, listing>>
  BY DEF Standards!ConfirmStandard
<1>2. r \in 0..MaxRounds
  BY DemoStoreAssumption DEF RoundRows
<1>3. \A x \in Entry : [x EXCEPT !.confirmed = r] \in Entry
  BY <1>2 DEF Entry
<1>4. DOMAIN entries' = DOMAIN entries /\ \A n \in DOMAIN entries : entries'[n] \in Entry
  BY <1>1, <1>3 DEF RoundRows
<1>5. entries' \in Seq(Entry)
  <2>1. entries' = [n \in DOMAIN entries |-> entries'[n]]
    BY <1>1
  <2>. QED
    BY <1>4, <2>1 DEF RoundRows
<1>6. (\A i \in items : Item(i))' /\ (\A t \in Threads : Listing(t))'
  BY <1>1 DEF RoundRows, Item, Listing
<1>. QED
  BY <1>1, <1>4, <1>5, <1>6 DEF RoundRows

\* What a thread does to the items of a round.
LEMMA ItemsHandled ==
  ASSUME RoundRows, NEW t \in Threads,
         \/ \E r \in DOMAIN rounds, then \in Standards!Decisions \cup {"list"} :
              Standards!BeginList(t, r, then)
         \/ Standards!CommitList(t)
         \/ Standards!DecideNothing(t)
         \/ \E i \in items : Standards!DecideItem(t, i)
  PROVE  RoundRows'
<1>1. UNCHANGED <<entries, rounds>>
  BY DEF Standards!BeginList, Standards!CommitList, Standards!DecideNothing, Standards!DecideItem
<1>2. ASSUME NEW x, listing' = [listing EXCEPT ![t] = x],
             \/ x = Idle
             \/ /\ x = [round |-> x.round, known |-> x.known, then |-> x.then]
                /\ x.round \in DOMAIN rounds
                /\ x.then \in Standards!Decisions \cup {"list"}
             \/ \E r \in DOMAIN rounds, d \in Standards!Decisions :
                  x = [round |-> r, decision |-> d]
      PROVE  DOMAIN listing' = Threads /\ (\A u \in Threads : Listing(u))'
  <2>1. DOMAIN listing' = Threads /\ listing'[t] = x
        /\ \A u \in Threads \ {t} : listing'[u] = listing[u]
    BY <1>2 DEF RoundRows
  <2>2. Listing(t)'
    BY <1>1, <1>2, <2>1 DEF Listing
  <2>3. \A u \in Threads \ {t} : Listing(u)'
    BY <1>1, <2>1 DEF RoundRows, Listing
  <2>. QED
    BY <2>1, <2>2, <2>3
<1>3. ASSUME DOMAIN listing' = Threads /\ (\A u \in Threads : Listing(u))',
             \A i \in items' : Item(i)
      PROVE  RoundRows'
  <2>1. (\A i \in items : Item(i))'
    BY <1>1, <1>3 DEF Item
  <2>. QED
    BY <1>1, <1>3, <2>1 DEF RoundRows
<1>4. ASSUME NEW r \in DOMAIN rounds, NEW then \in Standards!Decisions \cup {"list"},
             Standards!BeginList(t, r, then)
      PROVE  RoundRows'
  <2>. PICK K : K = Standards!Known(r)
    OBVIOUS
  <2>. DEFINE x == [round |-> r, known |-> K, then |-> then]
  <2>1. listing' = [listing EXCEPT ![t] = x] /\ items' = items
    BY <1>4 DEF Standards!BeginList
  <2>2. DOMAIN listing' = Threads /\ (\A u \in Threads : Listing(u))'
    <3>1. /\ x = [round |-> x.round, known |-> x.known, then |-> x.then]
          /\ x.round \in DOMAIN rounds
          /\ x.then \in Standards!Decisions \cup {"list"}
      OBVIOUS
    <3>. HIDE DEF x
    <3>. QED
      BY <1>2, <2>1, <3>1
  <2>. QED
    BY <1>3, <2>1, <2>2 DEF RoundRows
<1>5. CASE Standards!CommitList(t)
  <2>. DEFINE w == listing[t]
  <2>1. /\ w = [round |-> w.round, known |-> w.known, then |-> w.then]
        /\ w.round \in DOMAIN rounds
        /\ w.then \in Standards!Decisions \cup {"list"}
    BY <1>5 DEF Standards!CommitList, RoundRows, Listing
  <2>2. \A i \in items' : Item(i)
    BY <1>5, <2>1 DEF Standards!CommitList, RoundRows, Item
  <2>3. DOMAIN listing' = Threads /\ (\A u \in Threads : Listing(u))'
    <3>1. CASE w.then = "list"
      BY <1>2, <1>5, <3>1 DEF Standards!CommitList
    <3>2. CASE w.then # "list"
      <4>1. listing' = [listing EXCEPT ![t] = [round |-> w.round, decision |-> w.then]]
        BY <1>5, <3>2 DEF Standards!CommitList
      <4>. QED
        BY <1>2, <2>1, <3>2, <4>1
    <3>. QED
      BY <3>1, <3>2
  <2>. QED
    BY <1>3, <2>2, <2>3
<1>6. CASE Standards!DecideNothing(t)
  <2>1. listing' = [listing EXCEPT ![t] = Idle] /\ items' = items
    BY <1>6 DEF Standards!DecideNothing
  <2>. QED
    BY <1>2, <1>3, <2>1 DEF RoundRows
<1>7. ASSUME NEW i \in items, Standards!DecideItem(t, i) PROVE RoundRows'
  <2>1. listing' = [listing EXCEPT ![t] = Idle]
    BY <1>7 DEF Standards!DecideItem
  <2>2. PICK d \in Standards!Decisions : d = listing[t].decision
    BY <1>7 DEF Standards!DecideItem, RoundRows, Listing
  <2>3. Item(i)
    BY DEF RoundRows
  <2>4. Item([i EXCEPT !.status = d])
    BY <2>3 DEF Item
  <2>5. items' = (items \ {i}) \cup {[i EXCEPT !.status = d]}
    BY <1>7, <2>2 DEF Standards!DecideItem
  <2>6. \A j \in items' : Item(j)
    BY <2>4, <2>5 DEF RoundRows
  <2>. QED
    BY <1>2, <1>3, <2>1, <2>6
<1>. QED
  BY <1>4, <1>5, <1>6, <1>7

\* Every step of the standards keeps what rounds have selected and decided typed.
LEMMA RoundRowsStep == RoundRows /\ Standards!Next => RoundRows'
<1>. SUFFICES ASSUME RoundRows, Standards!Next PROVE RoundRows'
  OBVIOUS
<1>1. CASE UNCHANGED <<entries, rounds, items, listing>>
  BY <1>1 DEF RoundRows, Item, Listing
<1>2. ASSUME NEW v \in Versions,
             \/ \E s \in Standards!Statuses \ {"absent"} : Standards!CreateVersion(v, s)
             \/ \E C \in SUBSET Codes : Standards!CreateRevision(v, C)
             \/ \E n \in DOMAIN revisions[v] : Standards!PublishRevision(v, n)
             \/ Standards!PublishVersion(v)
             \/ Standards!AbolishVersion(v)
      PROVE  RoundRows'
  BY <1>1, <1>2 DEF Standards!CreateVersion, Standards!CreateRevision, Standards!PublishRevision,
     Standards!PublishVersion, Standards!AbolishVersion
<1>3. ASSUME NEW r \in DOMAIN rounds,
             \/ \E v \in Versions : Standards!AddStandard(r, v)
             \/ \E e \in rounds[r] : Standards!ConfirmStandard(r, e)
             \/ \E t \in Threads, then \in Standards!Decisions \cup {"list"} :
                  Standards!BeginList(t, r, then)
      PROVE  RoundRows'
  BY <1>3, EntryAdded, EntryConfirmed, ItemsHandled
<1>4. ASSUME NEW t \in Threads,
             \/ Standards!CommitList(t)
             \/ Standards!DecideNothing(t)
             \/ \E i \in items : Standards!DecideItem(t, i)
      PROVE  RoundRows'
  BY <1>4, ItemsHandled
<1>. QED
  BY <1>2, <1>3, <1>4, RoundAdded DEF Standards!Next

\* The types of the standards.
LEMMA StandardTypes == DemoSpec => []Standards!TypeOK
<1>. DEFINE Inv == StandardRows /\ RoundRows
<1>1. DemoInit => Inv
  BY RoundRowsInit DEF DemoInit
<1>2. StandardsInv /\ Inv /\ [DemoNext]_demoVars => Inv'
  <2>. SUFFICES ASSUME StandardsInv, StandardRows, RoundRows, [DemoNext]_demoVars
                PROVE  StandardRows' /\ RoundRows'
    OBVIOUS
  <2>1. CASE UNCHANGED standardVars
    BY <2>1 DEF standardVars, StandardRows, RoundRows, Item, Listing
  <2>2. CASE Standards!Next
    BY <2>2, StandardRowsStep, RoundRowsStep
  <2>. QED
    BY <2>1, <2>2 DEF DemoNext, demoVars
<1>3. StandardsInv /\ Inv => Standards!TypeOK
  <2>. SUFFICES ASSUME StandardsInv, StandardRows, RoundRows PROVE Standards!TypeOK
    OBVIOUS
  <2>1. \A v \in Versions : \A n \in DOMAIN revisions[v] : revisions[v][n] \in RevisionRow
    BY DEF StandardsInv
  <2>2. \A e \in DOMAIN entries : entries[e] \in Entry
    BY DEF RoundRows
  <2>. QED
    BY <2>1, <2>2 DEF StandardsInv, StandardRows, RoundRows, RevisionRow, Entry, Item,
       Standards!TypeOK
<1>. HIDE DEF Inv
<1>. QED
  BY <1>1, <1>2, <1>3, StandardsInvariant, PTL DEF DemoSpec
\* The rows of the rules but for those that RulesInv gives the types of.
PackRow == [status : Catalog!PackStatus, members : SUBSET Catalog!Ids]

PackRows ==
  /\ Len(executors) <= MaxExecutors
  /\ packs \in [Packs -> PackRow]
  /\ ruleRounds \in Seq(SUBSET Catalog!Ids)

\* There is one executor version, and no round.
LEMMA PackRowsInit == Catalog!Init => PackRows
  BY DemoStoreAssumption DEF Catalog!Init, PackRows, PackRow, Catalog!PackStatus

\* Packs and rounds hold versions that have been created.
LEMMA PackRowsStep == RulesInv /\ PackRows /\ Catalog!Next => PackRows'
<1>. SUFFICES ASSUME RulesInv, PackRows, Catalog!Next PROVE PackRows'
  OBVIOUS
<1>1. ASSUME NEW s, Catalog!CreateExecutorVersion(s) PROVE PackRows'
  <2>1. Len(executors') <= MaxExecutors
    BY <1>1, DemoStoreAssumption, AppendProperties
       DEF Catalog!CreateExecutorVersion, RulesInv, PackRows
  <2>. QED
    BY <1>1, <2>1 DEF Catalog!CreateExecutorVersion, PackRows
<1>2. CASE UNCHANGED <<executors, packs, ruleRounds>>
  BY <1>2 DEF PackRows
<1>3. ASSUME NEW r \in Rules,
             \/ Catalog!CreateRule(r)
             \/ \E D \in Depends[r] :
                  \/ Catalog!CreateVersion(r, D)
                  \/ \E e \in DOMAIN executors : Catalog!CreateVersionFor(r, D, e)
      PROVE  PackRows'
  BY <1>2, <1>3 DEF Catalog!CreateRule, Catalog!CreateVersion, Catalog!CreateVersionFor
<1>4. ASSUME NEW v \in Catalog!Ids,
             \/ Catalog!PublishVersion(v)
             \/ Catalog!DisableVersion(v)
             \/ \E t \in Copiers : Catalog!BeginCopy(t, v)
      PROVE  PackRows'
  BY <1>2, <1>4 DEF Catalog!PublishVersion, Catalog!DisableVersion, Catalog!BeginCopy,
     Catalog!catalog
<1>5. ASSUME NEW t \in Copiers, Catalog!CommitCopy(t) PROVE PackRows'
  BY <1>2, <1>5 DEF Catalog!CommitCopy
<1>6. ASSUME NEW p \in Packs, NEW s \in {"draft", "published"},
             NEW M \in SUBSET Catalog!Packable,
             Catalog!CreatePack(p, M, s) \/ Catalog!UpdatePack(p, M, s)
      PROVE  PackRows'
  <2>1. [status |-> s, members |-> M] \in PackRow
    BY DEF PackRow, Catalog!Packable, Catalog!PackStatus
  <2>. QED
    BY <1>6, <2>1 DEF Catalog!CreatePack, Catalog!UpdatePack, Catalog!SavePack, Catalog!catalog,
       PackRows
<1>7. CASE Catalog!CreateTask
  BY <1>7 DEF Catalog!CreateTask, Catalog!catalog, PackRows
<1>8. ASSUME NEW inherit \in BOOLEAN, Catalog!CreateRound(inherit) PROVE PackRows'
  <2>1. PICK S : /\ S = IF inherit THEN ruleRounds[Len(ruleRounds)] ELSE {}
                 /\ ruleRounds' = Append(ruleRounds, S)
    BY <1>8 DEF Catalog!CreateRound
  <2>2. S \in SUBSET Catalog!Ids
    BY <1>8, <2>1, DemoStoreAssumption DEF Catalog!CreateRound, PackRows
  <2>. QED
    BY <1>8, <2>1, <2>2, AppendProperties DEF Catalog!CreateRound, Catalog!catalog, PackRows
<1>9. ASSUME NEW k \in DOMAIN ruleRounds, Catalog!AssembleRules(k) PROVE PackRows'
  <2>1. PICK P \in SUBSET {p \in Packs : packs[p].status = "published"} :
          ruleRounds' = [ruleRounds EXCEPT ![k] = UNION {packs[p].members : p \in P}]
    BY <1>9 DEF Catalog!AssembleRules
  <2>2. PICK S : S = UNION {packs[p].members : p \in P}
    OBVIOUS
  <2>3. S \in SUBSET Catalog!Ids
    BY <2>2 DEF PackRows, PackRow
  <2>. QED
    BY <1>9, <2>1, <2>2, <2>3 DEF Catalog!AssembleRules, Catalog!catalog, PackRows
<1>. QED
  BY <1>1, <1>3, <1>4, <1>5, <1>6, <1>7, <1>8, <1>9 DEF Catalog!Next

\* The types of the rules.
LEMMA RuleTypes == DemoSpec => []Catalog!TypeOK
<1>1. DemoInit => PackRows
  BY PackRowsInit DEF DemoInit
<1>. DEFINE Known == RulesInv /\ CopyingInv
<1>2. Known /\ PackRows /\ [DemoNext]_demoVars => PackRows'
  <2>1. UNCHANGED ruleVars => (PackRows => PackRows')
    BY DEF ruleVars, PackRows
  <2>. QED
    BY <2>1, PackRowsStep DEF DemoNext, demoVars
<1>3. Known /\ PackRows => Catalog!TypeOK
  <2>. SUFFICES ASSUME RulesInv, CopyingInv, PackRows PROVE Catalog!TypeOK
    OBVIOUS
  <2>1. DOMAIN executors \subseteq 1..MaxExecutors
    BY DemoStoreAssumption DEF RulesInv, PackRows
  <2>2. ASSUME NEW r \in Rules PROVE ruleVersions[r] \in Seq(Catalog!Version)
    <3>1. ruleVersions[r] \in Seq(VersionRow)
      BY DEF RulesInv
    <3>2. \A n \in DOMAIN ruleVersions[r] : ruleVersions[r][n] \in Catalog!Version
      <4>. TAKE n \in DOMAIN ruleVersions[r]
      <4>1. ruleVersions[r][n] \in VersionRow /\ ruleVersions[r][n].executor \in 1..MaxExecutors
        BY <2>1, <3>1 DEF RulesInv
      <4>. QED
        BY <4>1 DEF VersionRow, Catalog!Version
    <3>. QED
      BY <3>1, <3>2
  <2>3. ruleVersions \in [Rules -> Seq(Catalog!Version)]
    BY <2>2 DEF RulesInv
  <2>. QED
    BY <2>3 DEF RulesInv, CopyingInv, PackRows, RuleRow, PackRow, Catalog!TypeOK
<1>4. DemoSpec => []Known
  BY RulesInvariant
<1>. HIDE DEF Known
<1>. QED
  BY <1>1, <1>2, <1>3, <1>4, PTL DEF DemoSpec

\* Every variable of the in-memory store keeps its type.
THEOREM DemoTypes == DemoSpec => []DemoTypeOK
<1>1. DemoSpec => []TypeOK
  BY DemoStoreFile, DemoFileTypes, PTL
<1>2. TypeOK /\ Auditing!TypeOK /\ Standards!TypeOK /\ Catalog!TypeOK => DemoTypeOK
  BY DEF DemoTypeOK
<1>. QED
  BY <1>1, <1>2, AuditTypes, StandardTypes, RuleTypes, PTL
=============================================================================
