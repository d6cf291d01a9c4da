------------------------------ MODULE JobQueue ------------------------------
(***************************************************************************)
(* The background job queue: the queue_job table, the Celery broker, the   *)
(* Celery workers that consume it and the API threads that create, run,    *)
(* retry and cancel jobs.                                                  *)
(*                                                                         *)
(* Transactions run at the database's default isolation (read committed)   *)
(* and, except in cancel_queue_job, lock no row they read.  So a store     *)
(* call is one step when what it writes does not depend on what it read,   *)
(* and two, a read and a write, when it does (retry_queue_job).  A handler *)
(* that makes several store calls takes several steps.                     *)
(* What the body of a job does is left to the modules that extend this     *)
(* one; here a body is its outcome.                                        *)
(***************************************************************************)
EXTENDS Integers, FiniteSets

CONSTANTS
  Jobs,             \* queue_job rows that may be created
  Workers,          \* Celery worker processes
  Callers,          \* API threads that serve POST /jobs/{id}/run
  Kind,             \* job_type of each row
  NoJob,            \* what an idle consumer holds
  MaxManualRetries, \* bound on POST /jobs/{id}/retry
  MaxFaults         \* bound on crashes and infrastructure errors

Consumers == Workers \cup Callers

JobKinds == {"document_parse", "rule_test_run", "audit", "local_rerun"}

ASSUME QueueAssumption ==
  /\ Workers \cap Callers = {}
  /\ NoJob \notin Jobs
  /\ Kind \in [Jobs -> JobKinds]
  /\ MaxManualRetries \in Nat
  /\ MaxFaults \in Nat

\* max_retries of the Celery task, and the bound of retry_queue_job.
MaxRetries == 3

VARIABLES
  status,        \* status[j]: the row's status, "absent" before its INSERT
  retryCount,    \* retryCount[j]: the row's retry_count
  undispatched,  \* rows committed by a handler that has not yet published them
  messages,      \* Celery messages waiting, some until their countdown ends
  pc,            \* pc[c]: where consumer c is in consume_queue_job
  holds,         \* holds[c]: the job it works on
  tries,         \* tries[c]: request.retries of the message it took
  seen,          \* seen[c]: the retry_count its retry_queue_job has read
  manualRetries, \* API retries made so far
  faults,        \* faults so far
  attempts,      \* history: times a worker started the body of each job
  abandoned      \* history: jobs whose consumer died or lost the database
                 \* while the row said "running"

rowVars   == <<status, retryCount>>
taskVars  == <<pc, holds, tries, seen>>
limitVars == <<manualRetries, faults>>
histVars  == <<attempts, abandoned>>
vars == <<status, retryCount, undispatched, messages, pc, holds, tries,
          seen, manualRetries, faults, attempts, abandoned>>

JobStatus == {"absent", "queued", "running", "succeeded", "failed", "canceled"}
Message   == [job : Jobs, retries : 0..MaxRetries]

ConsumerPC == {"idle", "delivered", "claimed", "running", "raised",
               "retrying", "requeued"}

TypeOK ==
  /\ status \in [Jobs -> JobStatus]
  /\ retryCount \in [Jobs -> Nat]
  /\ undispatched \subseteq Jobs
  /\ messages \subseteq Message
  /\ pc \in [Consumers -> ConsumerPC]
  /\ holds \in [Consumers -> Jobs \cup {NoJob}]
  /\ tries \in [Consumers -> 0..MaxRetries]
  /\ seen \in [Consumers -> Nat]
  /\ \A c \in Consumers : pc[c] # "idle" => holds[c] \in Jobs
  /\ manualRetries \in Nat
  /\ faults \in Nat
  /\ attempts \in [Jobs -> Nat]
  /\ abandoned \subseteq Jobs

Init ==
  /\ status = [j \in Jobs |-> "absent"]
  /\ retryCount = [j \in Jobs |-> 0]
  /\ undispatched = {}
  /\ messages = {}
  /\ pc = [c \in Consumers |-> "idle"]
  /\ holds = [c \in Consumers |-> NoJob]
  /\ tries = [c \in Consumers |-> 0]
  /\ seen = [c \in Consumers |-> 0]
  /\ manualRetries = 0
  /\ faults = 0
  /\ attempts = [j \in Jobs |-> 0]
  /\ abandoned = {}

-----------------------------------------------------------------------------
(* Consumer bookkeeping.                                                   *)

Take(c, j, n) ==
  /\ pc[c] = "idle"
  /\ pc' = [pc EXCEPT ![c] = "delivered"]
  /\ holds' = [holds EXCEPT ![c] = j]
  /\ tries' = [tries EXCEPT ![c] = n]
  /\ UNCHANGED seen

Goto(c, from, to) ==
  /\ pc[c] = from
  /\ pc' = [pc EXCEPT ![c] = to]
  /\ UNCHANGED <<holds, tries, seen>>

Release(c) ==
  /\ pc' = [pc EXCEPT ![c] = "idle"]
  /\ holds' = [holds EXCEPT ![c] = NoJob]
  /\ tries' = [tries EXCEPT ![c] = 0]
  /\ seen' = [seen EXCEPT ![c] = 0]

Fault ==
  /\ faults < MaxFaults
  /\ faults' = faults + 1

\* A retryable exception reaches the except clause of consume_queue_job in a
\* worker; in an API thread it ends the request.
Escape(c) == IF c \in Workers THEN Goto(c, pc[c], "raised") ELSE Release(c)

-----------------------------------------------------------------------------
(* The store's transactions on queue_job.                                  *)

\* update_queue_job: overwrites the status whatever it was.
SetStatus(j, s) == status' = [status EXCEPT ![j] = s]

\* The write of retry_queue_job, from the retry_count it read: back to the
\* queue within the budget, failed for good beyond it.
WriteRetry(j, n) ==
  /\ retryCount' = [retryCount EXCEPT ![j] = n + 1]
  /\ SetStatus(j, IF n + 1 <= MaxRetries THEN "queued" ELSE "failed")

-----------------------------------------------------------------------------
(* API handlers.                                                           *)

\* A handler inserts a job.  Every kind but local_rerun is then published.
Create(j) ==
  /\ status[j] = "absent"
  /\ SetStatus(j, "queued")
  /\ undispatched' = IF Kind[j] = "local_rerun" THEN undispatched
                                                ELSE undispatched \cup {j}
  /\ UNCHANGED <<retryCount, messages, taskVars, limitVars, histVars>>

Dispatch(j) ==
  /\ j \in undispatched
  /\ undispatched' = undispatched \ {j}
  /\ messages' = messages \cup {[job |-> j, retries |-> 0]}
  /\ UNCHANGED <<rowVars, taskVars, limitVars, histVars>>

\* The publication raises: the row is marked failed, whatever it has become.
DispatchFails(j) ==
  /\ j \in undispatched
  /\ undispatched' = undispatched \ {j}
  /\ SetStatus(j, "failed")
  /\ UNCHANGED <<retryCount, messages, taskVars, limitVars, histVars>>

\* The API process stops between the commit and the publication.
DispatcherDies(j) ==
  /\ j \in undispatched
  /\ Fault
  /\ undispatched' = undispatched \ {j}
  /\ UNCHANGED <<rowVars, messages, taskVars, manualRetries, histVars>>

\* POST /jobs/{id}/retry: the row is read here and written by RetryWrite.
RetryJob(c, j) ==
  /\ manualRetries < MaxManualRetries
  /\ manualRetries' = manualRetries + 1
  /\ pc[c] = "idle"
  /\ status[j] = "failed"
  /\ pc' = [pc EXCEPT ![c] = "retrying"]
  /\ holds' = [holds EXCEPT ![c] = j]
  /\ seen' = [seen EXCEPT ![c] = retryCount[j]]
  /\ UNCHANGED <<rowVars, undispatched, messages, tries, faults, histVars>>

CancelJob(j) ==
  /\ status[j] = "queued"
  /\ SetStatus(j, "canceled")
  /\ UNCHANGED <<retryCount, undispatched, messages, taskVars, limitVars, histVars>>

RunNow(c, j) ==
  /\ status[j] # "absent"
  /\ Take(c, j, 0)
  /\ UNCHANGED <<rowVars, undispatched, messages, limitVars, histVars>>

-----------------------------------------------------------------------------
(* consume_queue_job and process_queue_job.                                *)

\* Mutant of Deliver: late acknowledgement, the broker keeps the message.
DeliverLateAck(w) ==
  /\ \E m \in messages : Take(w, m.job, m.retries)
  /\ UNCHANGED <<rowVars, undispatched, messages, limitVars, histVars>>

\* Celery acknowledges a message when a worker takes it.
Deliver(w) ==
  /\ \E m \in messages :
       /\ messages' = messages \ {m}
       /\ Take(w, m.job, m.retries)
  /\ UNCHANGED <<rowVars, undispatched, limitVars, histVars>>

\* Mutant of Claim: the status of the row is not tested.
ClaimUnchecked(c) ==
  /\ Goto(c, "delivered", "claimed")
  /\ UNCHANGED <<rowVars, undispatched, messages, limitVars, histVars>>

\* The read of the job and the test of its status.
Claim(c) ==
  /\ Goto(c, "delivered", "claimed")
  /\ status[holds[c]] = "queued"
  /\ UNCHANGED <<rowVars, undispatched, messages, limitVars, histVars>>

\* "queue job is not runnable": a ValueError, never retried.
Decline(c) ==
  /\ pc[c] = "delivered"
  /\ status[holds[c]] # "queued"
  /\ Release(c)
  /\ UNCHANGED <<rowVars, undispatched, messages, limitVars, histVars>>

\* Storage or database is unreachable before the row says "running".
SetupFails(c) ==
  /\ pc[c] \in {"delivered", "claimed"}
  /\ Fault
  /\ Escape(c)
  /\ UNCHANGED <<rowVars, undispatched, messages, manualRetries, histVars>>

\* The second transaction: the row becomes "running" without a second look.
MarkRunning(c) ==
  /\ Goto(c, "claimed", "running")
  /\ SetStatus(holds[c], "running")
  /\ attempts' = IF c \in Workers
                   THEN [attempts EXCEPT ![holds[c]] = @ + 1]
                   ELSE attempts
  /\ UNCHANGED <<retryCount, undispatched, messages, limitVars, abandoned>>

\* The body returns; an audit whose executions raised reports "failed".
BodyReturns(c) ==
  /\ pc[c] = "running"
  /\ Kind[holds[c]] # "local_rerun"
  /\ \/ SetStatus(holds[c], "succeeded")
     \/ Kind[holds[c]] = "audit" /\ SetStatus(holds[c], "failed")
  /\ Release(c)
  /\ UNCHANGED <<retryCount, undispatched, messages, limitVars, histVars>>

\* Mutant of BodyRaisesPermanent: the failure is not written to the row.
RaisesUnrecorded(c) ==
  /\ pc[c] = "running"
  /\ Release(c)
  /\ UNCHANGED <<rowVars, undispatched, messages, limitVars, histVars>>

\* The body raises a DocumentParseError or a ValueError (an unsupported job
\* type, local_rerun, is one).
BodyRaisesPermanent(c) ==
  /\ pc[c] = "running"
  /\ SetStatus(holds[c], "failed")
  /\ Release(c)
  /\ UNCHANGED <<retryCount, undispatched, messages, limitVars, histVars>>

\* The body raises anything else.
BodyRaisesTransient(c) ==
  /\ pc[c] = "running"
  /\ Kind[holds[c]] # "local_rerun"
  /\ SetStatus(holds[c], "failed")
  /\ Escape(c)
  /\ UNCHANGED <<retryCount, undispatched, messages, limitVars, histVars>>

\* The body raises and the update to "failed" cannot be written either.
FailureUnrecorded(c) ==
  /\ pc[c] = "running"
  /\ Fault
  /\ Escape(c)
  /\ abandoned' = abandoned \cup {holds[c]}
  /\ UNCHANGED <<rowVars, undispatched, messages, manualRetries, attempts>>

\* The worker's except clause: first retry_queue_job, which declines a row that
\* is not failed, then the message.
Requeue(w) ==
  /\ pc[w] = "raised"
  /\ IF status[holds[w]] = "failed"
       THEN /\ pc' = [pc EXCEPT ![w] = "retrying"]
            /\ seen' = [seen EXCEPT ![w] = retryCount[holds[w]]]
            /\ UNCHANGED <<holds, tries>>
       ELSE Goto(w, "raised", "requeued")
  /\ UNCHANGED <<rowVars, undispatched, messages, limitVars, histVars>>

RetryWrite(c) ==
  /\ pc[c] = "retrying"
  /\ WriteRetry(holds[c], seen[c])
  /\ IF c \in Workers THEN Goto(c, "retrying", "requeued") ELSE Release(c)
  /\ UNCHANGED <<undispatched, messages, limitVars, histVars>>

\* Mutants of Republish: a message whose count does not grow, and a broker
\* budget below the budget of the row.
RepublishSameCount(w) ==
  /\ pc[w] = "requeued"
  /\ messages' = IF tries[w] < MaxRetries
                   THEN messages \cup {[job |-> holds[w], retries |-> tries[w]]}
                   ELSE messages
  /\ Release(w)
  /\ UNCHANGED <<rowVars, undispatched, limitVars, histVars>>

RepublishTooFew(w) ==
  /\ pc[w] = "requeued"
  /\ messages' = IF tries[w] + 1 < MaxRetries
                   THEN messages \cup {[job |-> holds[w], retries |-> tries[w] + 1]}
                   ELSE messages
  /\ Release(w)
  /\ UNCHANGED <<rowVars, undispatched, limitVars, histVars>>

Republish(w) ==
  /\ pc[w] = "requeued"
  /\ messages' = IF tries[w] < MaxRetries
                   THEN messages \cup {[job |-> holds[w], retries |-> tries[w] + 1]}
                   ELSE messages
  /\ Release(w)
  /\ UNCHANGED <<rowVars, undispatched, limitVars, histVars>>

\* A process dies.  Its message was acknowledged: nobody takes over.
Crash(c) ==
  /\ pc[c] # "idle"
  /\ Fault
  /\ Release(c)
  /\ abandoned' = IF pc[c] = "running" THEN abandoned \cup {holds[c]} ELSE abandoned
  /\ UNCHANGED <<rowVars, undispatched, messages, manualRetries, attempts>>

-----------------------------------------------------------------------------

HandlerStep(j) ==
  \/ Create(j) \/ Dispatch(j) \/ DispatchFails(j) \/ DispatcherDies(j)
  \/ CancelJob(j)
  \/ \E c \in Callers : RunNow(c, j) \/ RetryJob(c, j)

\* What a consumer does by itself once it holds a job.
Progress(c) ==
  \/ Claim(c) \/ Decline(c) \/ MarkRunning(c) \/ RetryWrite(c)
  \/ BodyReturns(c) \/ BodyRaisesPermanent(c) \/ BodyRaisesTransient(c)

WorkerStep(w) == Deliver(w) \/ Requeue(w) \/ Republish(w)

FaultStep(c) == SetupFails(c) \/ FailureUnrecorded(c) \/ Crash(c)

Next ==
  \/ \E j \in Jobs : HandlerStep(j)
  \/ \E w \in Workers : WorkerStep(w)
  \/ \E c \in Consumers : Progress(c) \/ FaultStep(c)

Spec == Init /\ [][Next]_vars

\* A handler that committed a job goes on to publish it, workers keep taking
\* messages, and a body that started ends.  Nothing is promised of API calls.
Fairness ==
  /\ \A j \in Jobs : WF_vars(Dispatch(j) \/ DispatchFails(j))
  /\ \A w \in Workers : WF_vars(WorkerStep(w))
  /\ \A c \in Consumers : WF_vars(Progress(c))

FairSpec == Spec /\ Fairness

-----------------------------------------------------------------------------
(* What the queue promises.                                                *)

Terminal == {"succeeded", "failed", "canceled"}

\* Two workers never work on the same job at the same time: a job has one
\* message, and a worker gives it back before another can take it.  (An API
\* thread in POST /jobs/{id}/run can join them: it needs no message.)
OneWorkerPerJob ==
  \A w1, w2 \in Workers :
    w1 # w2 /\ pc[w1] # "idle" /\ pc[w2] # "idle" => holds[w1] # holds[w2]

\* "At most three automatic retries": workers start the body of a job at most
\* four times in all, however retries by hand, cancellations, crashes and runs
\* from the API are interleaved with them.
AutomaticAttemptsBounded == \A j \in Jobs : attempts[j] <= MaxRetries + 1

\* A row that was retried more often than the budget allows waits no more.
QueuedWithinBudget ==
  \A j \in Jobs : status[j] = "queued" => retryCount[j] <= MaxRetries

\* Nothing under way can still overwrite the row of j.
Unclaimed(j) ==
  /\ j \notin undispatched
  /\ \A c \in Consumers : pc[c] \in {"claimed", "running", "retrying"} => holds[c] # j

\* Once a row is canceled or succeeded and nobody who read it earlier is about
\* to write it, it stays so for ever: no worker, no run or retry by hand and no
\* message that arrives late gets past the reads of Claim and RetryJob again.
TerminalIsFinal ==
  [][\A j \in Jobs :
       status[j] \in {"canceled", "succeeded"} /\ Unclaimed(j)
         => status'[j] = status[j] /\ Unclaimed(j)']_vars

\* A row says "running" only while some consumer is in the body of that job,
\* or after a consumer of it died there: only a fault leaves a job that can be
\* neither run, retried nor canceled.
RunningIsAttended ==
  \A j \in Jobs : status[j] = "running" =>
    \/ j \in abandoned
    \/ \E c \in Consumers : pc[c] = "running" /\ holds[c] = j

\* The message of a job is the right to run it.  A job has at most one: not yet
\* published, waiting at the broker, or in the hands of one worker.
OneToken ==
  /\ \A m1, m2 \in messages : m1.job = m2.job => m1 = m2
  /\ \A m \in messages : m.job \notin undispatched
  /\ \A w \in Workers : pc[w] # "idle" =>
       /\ holds[w] \notin undispatched
       /\ \A m \in messages : m.job # holds[w]
  /\ OneWorkerPerJob

\* The retries the message of a job has left bound the attempts made so far: a
\* job has none before its message, and a message delivered for the n-th time
\* follows at most n attempts.
AttemptsCounted ==
  /\ \A j \in Jobs : status[j] = "absent" \/ j \in undispatched => attempts[j] = 0
  /\ \A m \in messages : attempts[m.job] <= m.retries
  /\ \A w \in Workers :
       /\ pc[w] \in {"delivered", "claimed"} => attempts[holds[w]] <= tries[w]
       /\ pc[w] # "idle" => attempts[holds[w]] <= tries[w] + 1

\* Only rows that exist are published, carried by a message or worked on.
RowsExist ==
  /\ \A j \in undispatched : status[j] # "absent"
  /\ \A m \in messages : status[m.job] # "absent"
  /\ \A c \in Consumers : pc[c] # "idle" => status[holds[c]] # "absent"
  /\ \A j \in Jobs : status[j] = "absent" => retryCount[j] = 0

\* The inductive invariant: the safety properties above and what they need.
IInv ==
  /\ TypeOK
  /\ RowsExist
  /\ OneToken
  /\ AttemptsCounted
  /\ AutomaticAttemptsBounded
  /\ QueuedWithinBudget
  /\ RunningIsAttended

\* Every published job ends in a terminal status and stays there, unless a
\* fault or a retry by hand came in between.
EveryJobComesToRest ==
  \A j \in Jobs :
    [](j \in undispatched =>
         <>[](status[j] \in Terminal \/ faults > 0 \/ manualRetries > 0))

-----------------------------------------------------------------------------
(* What the documents say and the code does not do.                        *)

\* "canceled is a terminal state: neither the worker, nor a run by hand, nor a
\* retry may execute the job again."
CanceledIsTerminal ==
  [][\A j \in Jobs : status[j] = "canceled" => status'[j] = "canceled"]_vars

\* A job that an administrator retries is run again.
RetriedJobRuns ==
  \A j \in Jobs : status[j] = "queued" ~> status[j] # "queued"
=============================================================================
