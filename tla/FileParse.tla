----------------------------- MODULE FileParse ------------------------------
(***************************************************************************)
(* One task file: its row, its parsed blocks, the objects of its versions, *)
(* the API handlers that upload, replace, delete, re-parse and review it,  *)
(* and the workers that run its document_parse jobs.                       *)
(*                                                                         *)
(* The queue is what JobQueue shows it to be: a worker takes a queued job  *)
(* that no other worker holds, which does not keep run_job from it.  A     *)
(* version of the file stands for its storage key; all pages of a version  *)
(* are one member of assets.                                               *)
(* Every store call that writes the row of the file reads it first,        *)
(* without a lock.  SerialStore says whether the database makes the two    *)
(* one step: TRUE for SQLite (one writer, development and tests), FALSE    *)
(* for PostgreSQL at its default isolation.                                *)
(***************************************************************************)
EXTENDS Integers, FiniteSets

CONSTANTS
  Jobs,         \* document_parse jobs that may be created
  Workers,      \* calls of process_queue_job, by workers and by run_job
  Handlers,     \* API threads
  NoJob,        \* what an actor without a job holds
  Requests,     \* the requests that reviewers make, a subset of RequestKinds
  MaxVersion,   \* bound on the versions of the file
  MaxRequests,  \* bound on the requests
  MaxFaults,    \* bound on infrastructure errors and crashes
  SerialStore   \* whether transactions are serializable

Actors == Workers \cup Handlers

Versions == 1..MaxVersion

RequestKinds == {"replace", "delete", "retry", "review", "revise", "run"}

ASSUME FileAssumption ==
  /\ Workers \cap Handlers = {}
  /\ NoJob \notin Jobs
  /\ Requests \subseteq RequestKinds
  /\ MaxVersion \in Nat \ {0}
  /\ MaxRequests \in Nat
  /\ MaxFaults \in Nat
  /\ SerialStore \in BOOLEAN
  /\ IsFiniteSet(Jobs) /\ Cardinality(Jobs) > MaxRequests

VARIABLES
  file,      \* the task_file row and its parsed blocks
  objects,   \* versions whose content is in the object storage
  assets,    \* versions whose page images are in the object storage
  job,       \* the queue_job rows
  pc,        \* pc[a]: where an actor is
  work,      \* work[a]: the job an actor works on
  key,       \* key[a]: the version it works for, 0 for none
  snap,      \* snap[a]: the row it read
  versions,  \* storage keys given out so far
  requests,  \* requests made so far
  faults     \* faults so far

actorVars  == <<pc, work, key, snap>>
storeVars  == <<objects, assets>>
limitVars  == <<versions, requests, faults>>
vars == <<file, objects, assets, job, pc, work, key, snap,
          versions, requests, faults>>

FileStatus == {"absent", "uploaded", "parse_pending", "parsing", "parsed",
               "parse_failed", "deleted"}

\* blocks: whose parses of what have left blocks; pages: the version whose page
\* images parse_summary lists, 0 for none; review: its quality_review.
FileRow == [status : FileStatus, version : 0..MaxVersion,
            blocks : SUBSET [by : Workers, version : Versions],
            pages : 0..MaxVersion, review : {"none", "pending", "accepted", "reparse"}]

NoFile == [status |-> "absent", version |-> 0, blocks |-> {}, pages |-> 0,
           review |-> "none"]

JobRow == [status : {"absent", "queued", "running", "succeeded", "failed", "canceled"},
           version : 0..MaxVersion, oldPages : 0..MaxVersion]

WorkerPC == {"idle", "claimed", "start", "starting", "parse", "complete",
             "completing", "record", "cleanup", "fail", "failing", "failjob",
             "raise"}

HandlerPC == {"idle", "replace", "replacing", "delete", "deleting", "drop",
              "retry", "retrying", "reviewing", "revising", "tidy", "queue",
              "publish"}

\* An actor is between the read and the write of a transaction.
Transaction == {"starting", "completing", "failing", "replacing", "deleting",
                "retrying", "reviewing", "revising"}

TypeOK ==
  /\ file \in FileRow
  /\ objects \subseteq Versions
  /\ assets \subseteq Versions
  /\ job \in [Jobs -> JobRow]
  /\ pc \in [Actors -> WorkerPC \cup HandlerPC]
  /\ work \in [Actors -> Jobs \cup {NoJob}]
  /\ key \in [Actors -> 0..MaxVersion]
  /\ snap \in [Actors -> FileRow]
  /\ versions \in 0..MaxVersion
  /\ requests \in 0..MaxRequests
  /\ faults \in 0..MaxFaults

Init ==
  /\ file = NoFile
  /\ objects = {}
  /\ assets = {}
  /\ job = [j \in Jobs |-> [status |-> "absent", version |-> 0, oldPages |-> 0]]
  /\ pc = [a \in Actors |-> "idle"]
  /\ work = [a \in Actors |-> NoJob]
  /\ key = [a \in Actors |-> 0]
  /\ snap = [a \in Actors |-> NoFile]
  /\ versions = 0
  /\ requests = 0
  /\ faults = 0

-----------------------------------------------------------------------------
(* Actors and transactions.                                                *)

\* A serial store lets no statement in between another actor's read and write.
Isolated(a) == SerialStore => \A b \in Actors \ {a} : pc[b] \notin Transaction

Goto(a, to) == pc' = [pc EXCEPT ![a] = to] /\ UNCHANGED <<work, key, snap>>

Release(a) ==
  /\ pc' = [pc EXCEPT ![a] = "idle"]
  /\ work' = [work EXCEPT ![a] = NoJob]
  /\ key' = [key EXCEPT ![a] = 0]
  /\ snap' = [snap EXCEPT ![a] = NoFile]

\* The read that a later step of the actor relies on.
Read(a, to) ==
  /\ pc' = [pc EXCEPT ![a] = to]
  /\ snap' = [snap EXCEPT ![a] = file]
  /\ UNCHANGED <<work, key>>

Fault == faults < MaxFaults /\ faults' = faults + 1 /\ UNCHANGED <<versions, requests>>

Exists == file.status \notin {"absent", "deleted"}

\* Mutant of IsCurrent: the key is not looked at.
AnyVersion(c) == Exists

\* The test of _storage_key: the row still is at the version of the job.
IsCurrent(c) == Exists /\ file.version = key[c]

\* The session writes the columns that differ from what it read: a status that
\* was read as s is not written.
StatusWritten(a, s) == IF snap[a].status = s THEN file.status ELSE s

SetJob(j, s) == job' = [job EXCEPT ![j].status = s]

-----------------------------------------------------------------------------
(* API handlers.                                                           *)

\* upload_files and add_task_files.  The key is fresh: put, insert and answer
\* are one step to everyone else.
Upload(h) ==
  /\ pc[h] = "idle"
  /\ file.status = "absent"
  /\ versions < MaxVersion
  /\ versions' = versions + 1
  /\ objects' = objects \cup {versions + 1}
  /\ file' = [file EXCEPT !.status = "uploaded", !.version = versions + 1]
  /\ Goto(h, "queue")
  /\ UNCHANGED <<assets, job, requests, faults>>

\* A reviewer's request; the handler looks at the file before it does anything.
Request(h, kind) ==
  /\ kind \in Requests
  /\ requests < MaxRequests
  /\ requests' = requests + 1
  /\ pc[h] = "idle"
  /\ Exists
  /\ Isolated(h)
  /\ UNCHANGED <<file, assets, job, faults>>

\* replace_file remembers the file and puts the new content under a new key.
BeginReplace(h) ==
  /\ Request(h, "replace")
  /\ versions < MaxVersion
  /\ versions' = versions + 1
  /\ objects' = objects \cup {versions + 1}
  /\ pc' = [pc EXCEPT ![h] = "replace"]
  /\ key' = [key EXCEPT ![h] = versions + 1]
  /\ snap' = [snap EXCEPT ![h] = file]
  /\ UNCHANGED work

BeginDelete(h) ==
  /\ Request(h, "delete")
  /\ Read(h, "delete")
  /\ UNCHANGED <<objects, versions>>

\* retry_task_file_parse, review_task_file_parse and update_task_file_block
\* read the row and will write its parse_summary back, changed.
BeginUpdate(h) ==
  /\ \/ Request(h, "retry") /\ Read(h, "retrying")
     \/ Request(h, "review") /\ file.status = "parsed" /\ Read(h, "reviewing")
     \/ Request(h, "revise") /\ file.status = "parsed" /\ Read(h, "revising")
  /\ UNCHANGED <<objects, versions>>

\* _mutate_task_file finds the file, or finds it deleted; a replacement that
\* comes too late deletes the object it put.
FindFile(h) ==
  /\ pc[h] \in {"replace", "delete"}
  /\ Isolated(h)
  /\ IF Exists
       THEN /\ Goto(h, IF pc[h] = "replace" THEN "replacing" ELSE "deleting")
            /\ UNCHANGED objects
       ELSE /\ Release(h)
            /\ objects' = objects \ {key[h]}
  /\ UNCHANGED <<file, assets, job, limitVars>>

\* _cancel_pending_file_parse_jobs.
CancelPending ==
  job' = [j \in Jobs |-> IF job[j].status = "queued"
                           THEN [job[j] EXCEPT !.status = "canceled"] ELSE job[j]]

Replace(h) ==
  /\ pc[h] = "replacing"
  /\ file' = [NoFile EXCEPT !.status = "uploaded", !.version = key[h]]
  /\ CancelPending
  /\ Goto(h, "tidy")
  /\ UNCHANGED <<storeVars, limitVars>>

Delete(h) ==
  /\ pc[h] = "deleting"
  /\ file' = [file EXCEPT !.status = "deleted"]
  /\ CancelPending
  /\ Goto(h, "tidy")
  /\ UNCHANGED <<storeVars, limitVars>>

\* The old object (a replacement only) and the old page images go, as the
\* handler saw them before the transaction.
Tidy(h) ==
  /\ pc[h] = "tidy"
  /\ assets' = assets \ {snap[h].pages}
  /\ IF key[h] = 0 THEN /\ Release(h)
                        /\ UNCHANGED objects
                   ELSE /\ Goto(h, "queue")
                        /\ objects' = objects \ {snap[h].version}
  /\ UNCHANGED <<file, job, limitVars>>

RetryParse(h) ==
  /\ pc[h] = "retrying"
  /\ file' = [file EXCEPT !.status = StatusWritten(h, "parse_pending"),
                          !.pages = snap[h].pages, !.review = snap[h].review]
  /\ Goto(h, "queue")
  /\ UNCHANGED <<storeVars, job, limitVars>>

\* review_task_file_parse; "reparse" goes on to retry_task_file_parse.
Review(h) ==
  /\ pc[h] = "reviewing"
  /\ \E decision \in {"accepted", "reparse"} :
       /\ file' = [file EXCEPT !.pages = snap[h].pages, !.review = decision]
       /\ IF decision = "accepted" THEN Release(h) ELSE Goto(h, "retry")
  /\ UNCHANGED <<storeVars, job, limitVars>>

RetryAfterReview(h) ==
  /\ pc[h] = "retry"
  /\ Isolated(h)
  /\ IF Exists THEN Read(h, "retrying") ELSE Goto(h, "queue")
  /\ UNCHANGED <<file, storeVars, job, limitVars>>

ReviseBlock(h) ==
  /\ pc[h] = "revising"
  /\ file' = [file EXCEPT !.pages = snap[h].pages, !.review = "pending"]
  /\ Release(h)
  /\ UNCHANGED <<storeVars, job, limitVars>>

\* Mutant of ActiveJob: the key is not looked at.
ActiveForFile(v) == {j \in Jobs : job[j].status \in {"queued", "running"}}

\* create_task_file_parse_job, under a lock on the row: a queued or running job
\* for the same key is reused.
ActiveJob(v) == {j \in Jobs : job[j].status \in {"queued", "running"} /\ job[j].version = v}

QueueParse(h) ==
  /\ pc[h] = "queue"
  /\ Isolated(h)
  /\ IF Exists /\ ActiveJob(file.version) = {}
       THEN \E j \in Jobs :
              /\ job[j].status = "absent"
              /\ job' = [job EXCEPT ![j] = [status |-> "queued",
                                            version |-> file.version,
                                            oldPages |-> file.pages]]
              /\ file' = [file EXCEPT !.status = "parse_pending"]
              /\ pc' = [pc EXCEPT ![h] = "publish"]
              /\ work' = [work EXCEPT ![h] = j]
              /\ UNCHANGED <<key, snap>>
       ELSE Release(h) /\ UNCHANGED <<file, job>>
  /\ UNCHANGED <<storeVars, limitVars>>

Publish(h) ==
  /\ pc[h] = "publish"
  /\ Release(h)
  /\ UNCHANGED <<file, storeVars, job, limitVars>>

PublishFails(h) ==
  /\ pc[h] = "publish"
  /\ Fault
  /\ SetJob(work[h], "failed")
  /\ Release(h)
  /\ UNCHANGED <<file, storeVars>>

-----------------------------------------------------------------------------
(* process_queue_job for a document_parse job.                             *)

\* The row is read here and marked as running in MarkRunning, whatever it says
\* by then.  A message is with one worker at a time (JobQueue); that a run by hand has
\* the job as well, in whichever order the two read the row, is RunJob.
Claim(c, j) ==
  /\ pc[c] = "idle"
  /\ job[j].status = "queued"
  /\ \A a \in Actors : work[a] # j
  /\ pc' = [pc EXCEPT ![c] = "claimed"]
  /\ work' = [work EXCEPT ![c] = j]
  /\ key' = [key EXCEPT ![c] = job[j].version]
  /\ UNCHANGED <<snap, file, storeVars, job, limitVars>>

\* run_job: an administrator's thread runs a queued job, also one that a worker
\* has read as queued and will mark as running.
RunJob(c, j) ==
  /\ "run" \in Requests
  /\ requests < MaxRequests
  /\ requests' = requests + 1
  /\ pc[c] = "idle"
  /\ job[j].status = "queued"
  /\ pc' = [pc EXCEPT ![c] = "claimed"]
  /\ work' = [work EXCEPT ![c] = j]
  /\ key' = [key EXCEPT ![c] = job[j].version]
  /\ UNCHANGED <<snap, file, storeVars, job, versions, faults>>

MarkRunning(c) ==
  /\ pc[c] = "claimed"
  /\ SetJob(work[c], "running")
  /\ Goto(c, "start")
  /\ UNCHANGED <<file, storeVars, limitVars>>

\* start, complete and fail_task_file_parse read the row and test its key; a
\* test that fails ends the body or, in fail_task_file_parse, does nothing.
ReadFile(c, from, to, otherwise) ==
  /\ pc[c] = from
  /\ Isolated(c)
  /\ IF IsCurrent(c) THEN Read(c, to) ELSE Goto(c, otherwise)
  /\ UNCHANGED <<file, storeVars, job, limitVars>>

StartParse(c) ==
  /\ pc[c] = "starting"
  /\ file' = [file EXCEPT !.status = StatusWritten(c, "parsing")]
  /\ Goto(c, "parse")
  /\ UNCHANGED <<storeVars, job, limitVars>>

\* Mutant of Parse: the images of the earlier parse go, also when they are
\* the ones just put.
ParseDropsOwnPages(c) ==
  /\ pc[c] = "parse"
  /\ key[c] \in objects
  /\ assets' = (assets \cup {key[c]}) \ {job[work[c]].oldPages}
  /\ Goto(c, "complete")
  /\ UNCHANGED <<file, objects, job, limitVars>>

\* The object is read and parsed, the page images are put, and those of the
\* earlier parse that the new one does not cover are deleted.
Parse(c) ==
  /\ pc[c] = "parse"
  /\ key[c] \in objects
  /\ assets' = (assets \cup {key[c]}) \ ({job[work[c]].oldPages} \ {key[c]})
  /\ Goto(c, "complete")
  /\ UNCHANGED <<file, objects, job, limitVars>>

\* The object is missing, the document cannot be parsed, or the storage does
\* not answer; after Raise or RetryRow it is known which.
ParseFails(c) ==
  /\ pc[c] = "parse"
  /\ Goto(c, "fail")
  /\ UNCHANGED <<file, storeVars, job, limitVars>>

\* The blocks it read give way to the new ones.
CompleteParse(c) ==
  /\ pc[c] = "completing"
  /\ \E r \in {"none", "pending"} :
       file' = [file EXCEPT
         !.status = StatusWritten(c, "parsed"),
         !.blocks = (@ \ snap[c].blocks) \cup {[by |-> c, version |-> key[c]]},
         !.pages = key[c],
         !.review = r]
  /\ Goto(c, "record")
  /\ UNCHANGED <<storeVars, job, limitVars>>

RecordSuccess(c) ==
  /\ pc[c] = "record"
  /\ SetJob(work[c], "succeeded")
  /\ Release(c)
  /\ UNCHANGED <<file, storeVars, limitVars>>

\* The storage or the database fails after the images were put.
BodyBreaks(c) ==
  /\ pc[c] \in {"complete", "record"}
  /\ Fault
  /\ Goto(c, "cleanup")
  /\ UNCHANGED <<file, storeVars, job>>

\* The images this attempt put are deleted.
CleanUp(c) ==
  /\ pc[c] = "cleanup"
  /\ assets' = assets \ {key[c]}
  /\ Goto(c, "fail")
  /\ UNCHANGED <<file, objects, job, limitVars>>

\* Mutant of FailParse: the error is noted, the status is not.
FailKeepsStatus(c) ==
  /\ pc[c] = "failing"
  /\ file' = [file EXCEPT !.pages = snap[c].pages, !.review = snap[c].review]
  /\ Goto(c, "failjob")
  /\ UNCHANGED <<storeVars, job, limitVars>>

FailParse(c) ==
  /\ pc[c] = "failing"
  /\ file' = [file EXCEPT !.status = StatusWritten(c, "parse_failed"),
                          !.pages = snap[c].pages, !.review = snap[c].review]
  /\ Goto(c, "failjob")
  /\ UNCHANGED <<storeVars, job, limitVars>>

FailJob(c) ==
  /\ pc[c] = "failjob"
  /\ SetJob(work[c], "failed")
  /\ Goto(c, "raise")
  /\ UNCHANGED <<file, storeVars, limitVars>>

\* consume_queue_job: a permanent error ends here, another puts a failed row
\* back in the queue.
Raise(c) ==
  /\ pc[c] = "raise"
  /\ Release(c)
  /\ UNCHANGED <<file, storeVars, job, limitVars>>

RetryRow(c) ==
  /\ pc[c] = "raise"
  /\ Fault
  /\ job[work[c]].status = "failed"
  /\ SetJob(work[c], "queued")
  /\ Release(c)
  /\ UNCHANGED <<file, storeVars>>

Crash(a) ==
  /\ pc[a] # "idle"
  /\ Fault
  /\ Release(a)
  /\ UNCHANGED <<file, storeVars, job>>

-----------------------------------------------------------------------------

HandlerStep(h) ==
  \/ Upload(h) \/ BeginReplace(h) \/ BeginDelete(h) \/ BeginUpdate(h)

HandlerProgress(h) ==
  \/ FindFile(h) \/ Replace(h) \/ Delete(h) \/ Tidy(h)
  \/ RetryParse(h) \/ Review(h) \/ RetryAfterReview(h) \/ ReviseBlock(h)
  \/ QueueParse(h) \/ Publish(h)

WorkerProgress(c) ==
  \/ \E j \in Jobs : Claim(c, j)
  \/ MarkRunning(c)
  \/ ReadFile(c, "start", "starting", "fail")
  \/ ReadFile(c, "complete", "completing", "cleanup")
  \/ ReadFile(c, "fail", "failing", "failjob")
  \/ StartParse(c) \/ Parse(c) \/ ParseFails(c) \/ CompleteParse(c)
  \/ RecordSuccess(c) \/ CleanUp(c) \/ FailParse(c) \/ FailJob(c) \/ Raise(c)

FaultStep ==
  \/ \E h \in Handlers : PublishFails(h)
  \/ \E c \in Workers : BodyBreaks(c) \/ RetryRow(c)
  \/ \E a \in Actors : Crash(a)

Next ==
  \/ \E h \in Handlers : HandlerStep(h) \/ HandlerProgress(h)
  \/ \E c \in Workers : WorkerProgress(c) \/ \E j \in Jobs : RunJob(c, j)
  \/ FaultStep

Spec == Init /\ [][Next]_vars

\* Requests and workers that have begun go on; nothing is promised of reviewers.
FairSpec ==
  /\ Spec
  /\ \A h \in Handlers : WF_vars(HandlerProgress(h))
  /\ \A c \in Workers : WF_vars(WorkerProgress(c))

-----------------------------------------------------------------------------
(* What the file promises.                                                 *)

\* A parsed file shows the content of its current version: its blocks and its
\* pages are those of the key the row names, never of a replaced one.
ParsedIsCurrent ==
  file.status = "parsed" =>
    /\ \A b \in file.blocks : b.version = file.version
    /\ file.pages = file.version

\* "Old blocks are deleted and new ones written in one transaction, so that the
\* results of different parses never mix."  So on serializable transactions, not
\* on those of PostgreSQL.
OneParse == Cardinality(file.blocks) <= 1

\* A deleted file stays deleted.
DeletedIsFinal == [][file.status = "deleted" => file'.status = "deleted"]_vars

\* Page images that parse_summary lists are in the storage whenever nobody is
\* at work on the file: the thumbnails of every page can be served.
ListedPagesServed ==
  file.pages # 0 /\ Exists /\ (\A a \in Actors : pc[a] = "idle")
    => file.pages \in assets

\* As long as nothing fails, the last parse leaves what the row lists, whoever
\* replaces, deletes, re-parses and reviews the file in between.
UndisturbedPagesServed == faults = 0 => ListedPagesServed

\* "The accepted decision locks the review": only a new parse opens it again.
AcceptedLocks ==
  [][file.review = "accepted" /\ file'.status = "parsed" /\ file'.blocks = file.blocks
       => file'.review = "accepted"]_vars

\* The file waits for the end of its parse.
Waiting == file.status \in {"uploaded", "parse_pending", "parsing"}

\* The handler goes on to queue a job for the version that the file then has.
WillQueue(h) == pc[h] = "queue" \/ (pc[h] = "tidy" /\ key[h] # 0)

\* A worker parses version v and has yet to write what came of it.
Parsing(c, v) ==
  key[c] = v /\ pc[c] \in {"start", "starting", "parse", "complete", "completing",
                           "cleanup", "fail", "failing"}

\* While nothing fails and no re-parse is asked for, a file that waits is not
\* forgotten: a handler is on its way to queue a job for it, a job of its version
\* is queued, or somebody parses that version and has yet to write the result.
FileNotForgotten ==
  faults = 0 /\ Waiting =>
    \/ \E h \in Handlers : WillQueue(h)
    \/ \E j \in Jobs : job[j].version = file.version /\ job[j].status = "queued"
    \/ \E c \in Workers : Parsing(c, file.version)

\* A waiting file is parsed, or found unparseable, in the end.
ParseEnds == Waiting ~> file.status \in {"parsed", "parse_failed", "deleted"}

\* The lifecycle that the other components rely on.
Lifecycle ==
  INSTANCE TaskFile WITH
    status  <- file.status,
    version <- file.version,
    content <- {b.version : b \in file.blocks}

\* Whatever handlers and workers do to the row in their transactions, together
\* they take it through the steps of TaskFile.
ImplementsTaskFile == Lifecycle!Spec
=============================================================================
