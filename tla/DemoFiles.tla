----------------------------- MODULE DemoFiles ------------------------------
(***************************************************************************)
(* A task file in the in-memory store of the demonstration mode: its row,  *)
(* its parsed blocks and its document_parse jobs.  Every store method that *)
(* writes holds the store's lock, so that it is one step; a handler makes  *)
(* several such calls.  There is no worker: jobs are run by the API        *)
(* threads, which nothing keeps from running one job twice.                *)
(*                                                                         *)
(* A version of the file stands for its storage key.                       *)
(***************************************************************************)
EXTENDS Integers

CONSTANTS
  Jobs,        \* document_parse jobs that may be created
  Threads,     \* API threads
  MaxVersion,  \* bound on the versions of the file
  MaxRetries,  \* bound on the retries of a job
  NoJob        \* what a thread without a job holds

ASSUME DemoFilesAssumption == MaxVersion \in Nat /\ MaxRetries \in Nat

VARIABLES
  file,      \* the row of the file and its parsed blocks
  job,       \* the queue_jobs entries
  objects,   \* versions whose content is in the object storage
  pc,        \* pc[t]: where a thread is
  work,      \* work[t]: the job it runs
  key,       \* key[t]: the version it works for, 0 for none
  old,       \* old[t]: the version it replaces, 0 for none
  versions   \* storage keys given out so far

vars == <<file, job, objects, pc, work, key, old, versions>>

FileStatus == {"absent", "uploaded", "parse_pending", "parsing", "parsed",
               "parse_failed", "deleted"}

\* "blocks" are the versions whose blocks are stored.
FileRow ==
  [status : FileStatus, version : 0..MaxVersion, blocks : SUBSET (0..MaxVersion),
   review : {"none", "not_required", "pending", "accepted", "reparse"}]

JobRow ==
  [status : {"absent", "queued", "running", "succeeded", "failed", "canceled"},
   version : 0..MaxVersion, retries : 0..MaxRetries]

Places == {"idle", "replace", "tidy", "retry", "queue", "taken", "start",
           "parse", "complete", "record", "fail", "failjob"}

TypeOK ==
  /\ file \in FileRow
  /\ job \in [Jobs -> JobRow]
  /\ objects \subseteq 1..MaxVersion
  /\ pc \in [Threads -> Places]
  /\ work \in [Threads -> Jobs \cup {NoJob}]
  /\ key \in [Threads -> 0..MaxVersion]
  /\ old \in [Threads -> 0..MaxVersion]
  /\ versions \in 0..MaxVersion

Init ==
  /\ file = [status |-> "absent", version |-> 0, blocks |-> {}, review |-> "none"]
  /\ job = [j \in Jobs |-> [status |-> "absent", version |-> 0, retries |-> 0]]
  /\ objects = {}
  /\ pc = [t \in Threads |-> "idle"]
  /\ work = [t \in Threads |-> NoJob]
  /\ key = [t \in Threads |-> 0]
  /\ old = [t \in Threads |-> 0]
  /\ versions = 0

-----------------------------------------------------------------------------

Exists == file.status \notin {"absent", "deleted"}

At(t, place) == pc[t] = place

Goto(t, place) == pc' = [pc EXCEPT ![t] = place]

Done(t) ==
  /\ Goto(t, "idle")
  /\ work' = [work EXCEPT ![t] = NoJob]
  /\ key' = [key EXCEPT ![t] = 0]
  /\ old' = [old EXCEPT ![t] = 0]

SetJob(j, status) == job' = [job EXCEPT ![j].status = status]

-----------------------------------------------------------------------------
(* The file handlers.                                                      *)

Upload(t) ==
  /\ At(t, "idle")
  /\ file.status = "absent"
  /\ versions < MaxVersion
  /\ versions' = versions + 1
  /\ objects' = objects \cup {versions + 1}
  /\ file' = [file EXCEPT !.status = "uploaded", !.version = versions + 1]
  /\ Goto(t, "queue")
  /\ UNCHANGED <<job, work, key, old>>

\* replace_file remembers the version it found and stores the new content.
BeginReplace(t) ==
  /\ At(t, "idle")
  /\ Exists
  /\ versions < MaxVersion
  /\ versions' = versions + 1
  /\ objects' = objects \cup {versions + 1}
  /\ Goto(t, "replace")
  /\ key' = [key EXCEPT ![t] = versions + 1]
  /\ old' = [old EXCEPT ![t] = file.version]
  /\ UNCHANGED <<file, job, work>>

Canceled ==
  [j \in Jobs |-> IF job[j].status = "queued"
                  THEN [job[j] EXCEPT !.status = "canceled"] ELSE job[j]]

\* A file that was deleted meanwhile is not replaced, and the new object goes.
CommitReplace(t) ==
  /\ At(t, "replace")
  /\ IF Exists
     THEN /\ file' = [status |-> "uploaded", version |-> key[t], blocks |-> {},
                      review |-> "none"]
          /\ job' = Canceled
          /\ Goto(t, "tidy")
          /\ UNCHANGED <<objects, work, key, old>>
     ELSE /\ objects' = objects \ {key[t]}
          /\ Done(t)
          /\ UNCHANGED <<file, job>>
  /\ UNCHANGED versions

\* The object that the handler had found when it began is deleted.
Tidy(t) ==
  /\ At(t, "tidy")
  /\ objects' = objects \ {old[t]}
  /\ Goto(t, "queue")
  /\ UNCHANGED <<file, job, work, key, old, versions>>

\* The blocks stay.
Delete(t) ==
  /\ At(t, "idle")
  /\ Exists
  /\ file' = [file EXCEPT !.status = "deleted"]
  /\ job' = Canceled
  /\ UNCHANGED <<objects, pc, work, key, old, versions>>

RetryParse(t) ==
  /\ At(t, "idle") \/ At(t, "retry")
  /\ file' = [file EXCEPT !.status = IF Exists THEN "parse_pending" ELSE @]
  /\ Exists \/ At(t, "retry")
  /\ Goto(t, "queue")
  /\ UNCHANGED <<job, objects, work, key, old, versions>>

ReviewParse(t, decision) ==
  /\ At(t, "idle")
  /\ file.status = "parsed"
  /\ file' = [file EXCEPT !.review = decision]
  /\ Goto(t, IF decision = "reparse" THEN "retry" ELSE "idle")
  /\ UNCHANGED <<job, objects, work, key, old, versions>>

UpdateBlock(t) ==
  /\ At(t, "idle")
  /\ file.status = "parsed"
  /\ file.blocks # {}
  /\ file' = [file EXCEPT !.review = "pending"]
  /\ UNCHANGED <<job, objects, pc, work, key, old, versions>>

ActiveJobs ==
  {j \in Jobs : job[j].status \in {"queued", "running"} /\ job[j].version = file.version}

\* A job for the same key that is queued or running is reused.
QueueParse(t) ==
  /\ At(t, "queue")
  /\ IF Exists /\ ActiveJobs = {}
     THEN \E j \in Jobs :
            /\ job[j].status = "absent"
            /\ job' = [job EXCEPT ![j] =
                 [status |-> "queued", version |-> file.version, retries |-> 0]]
            /\ file' = [file EXCEPT !.status = "parse_pending"]
     ELSE UNCHANGED <<job, file>>
  /\ Done(t)
  /\ UNCHANGED <<objects, versions>>

-----------------------------------------------------------------------------
(* Jobs.                                                                   *)

CancelJob(j) ==
  /\ job[j].status = "queued"
  /\ SetJob(j, "canceled")
  /\ UNCHANGED <<file, objects, pc, work, key, old, versions>>

RetryJob(j) ==
  /\ job[j].status = "failed"
  /\ job[j].retries < MaxRetries
  /\ job' = [job EXCEPT ![j] = [status |-> "queued", version |-> @.version,
                                retries |-> @.retries + 1]]
  /\ UNCHANGED <<file, objects, pc, work, key, old, versions>>

\* The status is looked at, and changed by a call of its own.
TakeJob(t, j) ==
  /\ At(t, "idle")
  /\ job[j].status = "queued"
  /\ Goto(t, "taken")
  /\ work' = [work EXCEPT ![t] = j]
  /\ key' = [key EXCEPT ![t] = job[j].version]
  /\ UNCHANGED <<file, job, objects, old, versions>>

MarkRunning(t) ==
  /\ At(t, "taken")
  /\ SetJob(work[t], "running")
  /\ Goto(t, "start")
  /\ UNCHANGED <<file, objects, work, key, old, versions>>

\* Mutant of IsCurrent: the storage key is not compared.
IsLive(t) == Exists

\* The file still is at the version of the job.
IsCurrent(t) == Exists /\ file.version = key[t]

StartParse(t) ==
  /\ At(t, "start")
  /\ IF IsCurrent(t)
     THEN file' = [file EXCEPT !.status = "parsing"] /\ Goto(t, "parse")
     ELSE Goto(t, "fail") /\ UNCHANGED file
  /\ UNCHANGED <<job, objects, work, key, old, versions>>

\* Without the object, or with one that cannot be parsed, the job fails.
Parse(t) ==
  /\ At(t, "parse")
  /\ \/ key[t] \in objects /\ Goto(t, "complete")
     \/ Goto(t, "fail")
  /\ UNCHANGED <<file, job, objects, work, key, old, versions>>

CompleteParse(t) ==
  /\ At(t, "complete")
  /\ IF IsCurrent(t)
     THEN \E review \in {"pending", "not_required"} :
            /\ file' = [file EXCEPT !.status = "parsed", !.blocks = {key[t]},
                                    !.review = review]
            /\ Goto(t, "record")
     ELSE Goto(t, "fail") /\ UNCHANGED file
  /\ UNCHANGED <<job, objects, work, key, old, versions>>

RecordSuccess(t) ==
  /\ At(t, "record")
  /\ SetJob(work[t], "succeeded")
  /\ Done(t)
  /\ UNCHANGED <<file, objects, versions>>

\* Mutant of FailParse: the file of a job that another thread has settled is
\* left alone.
FailRunningParse(t) ==
  /\ At(t, "fail")
  /\ file' = [file EXCEPT !.status =
       IF IsCurrent(t) /\ job[work[t]].status = "running" THEN "parse_failed" ELSE @]
  /\ Goto(t, "failjob")
  /\ UNCHANGED <<job, objects, work, key, old, versions>>

FailParse(t) ==
  /\ At(t, "fail")
  /\ file' = [file EXCEPT !.status = IF IsCurrent(t) THEN "parse_failed" ELSE @]
  /\ Goto(t, "failjob")
  /\ UNCHANGED <<job, objects, work, key, old, versions>>

FailJob(t) ==
  /\ At(t, "failjob")
  /\ SetJob(work[t], "failed")
  /\ Done(t)
  /\ UNCHANGED <<file, objects, versions>>

-----------------------------------------------------------------------------

Handle(t) ==
  \/ Upload(t) \/ BeginReplace(t) \/ CommitReplace(t) \/ Tidy(t) \/ Delete(t)
  \/ RetryParse(t) \/ UpdateBlock(t) \/ QueueParse(t)
  \/ \E decision \in {"accepted", "reparse"} : ReviewParse(t, decision)

RunJob(t) ==
  \/ \E j \in Jobs : TakeJob(t, j)
  \/ MarkRunning(t) \/ StartParse(t) \/ Parse(t) \/ CompleteParse(t)
  \/ RecordSuccess(t) \/ FailParse(t) \/ FailJob(t)

Next ==
  \/ \E t \in Threads : Handle(t) \/ RunJob(t)
  \/ \E j \in Jobs : CancelJob(j) \/ RetryJob(j)

Spec == Init /\ [][Next]_vars

-----------------------------------------------------------------------------
(* Properties.                                                             *)

\* The in-memory store keeps the promise of a task file as well as the database
\* does, although its jobs may be run twice at a time.
Promise == INSTANCE TaskFile WITH
  status <- file.status, version <- file.version, content <- file.blocks

ImplementsTaskFile == Promise!Spec

\* When nobody is at work, the file is not left as being parsed: the last one to
\* have said so has also said how it ended, whoever replaced, retried, canceled
\* or ran the same job meanwhile.
NotLeftParsing ==
  (\A t \in Threads : At(t, "idle")) => file.status # "parsing"
=============================================================================
