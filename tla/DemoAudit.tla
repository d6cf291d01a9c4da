----------------------------- MODULE DemoAudit ------------------------------
(***************************************************************************)
(* The audit of one round in the in-memory store: its runs, the executions *)
(* of its rules, their jobs, the issues that results open, and its reports.*)
(* A method that holds the store's lock is one step.  create_report and    *)
(* publish_report do not hold it: they read in one step and write in       *)
(* another.  Jobs are run by API threads, as in DemoFiles.                 *)
(*                                                                         *)
(* The round is ready for an audit, its standards are decided, and each of *)
(* its rules opens an issue of its own.  The job of a full run bears the   *)
(* number of the run; a local run is given the name of a job that is never *)
(* created.                                                                *)
(***************************************************************************)
EXTENDS Integers, Sequences

CONSTANTS
  Rules,       \* rules of the round
  Threads,     \* API threads
  MaxRuns,     \* bound on the runs of the round
  MaxRetries,  \* retries that queue a job again
  MaxRequests  \* bound on the requests

VARIABLES
  round,    \* status of the round, and of its task
  runs,     \* audit_runs of the round, by number
  exec,     \* exec[n]: the executions of run n, by rule
  job,      \* job[n]: the queue_jobs entry of run n
  issue,    \* issue[k]: the issue that rule k opens
  reports,  \* reports of the round, in order of creation
  pc,       \* pc[t]: where a thread is
  at,       \* at[t]: the run, the executions listed, whether one broke, and
            \* the report version or report it works on
  requests  \* requests made so far

rows == <<runs, exec, job>>
vars == <<round, rows, issue, reports, pc, at, requests>>

\* "succeeded" stands for "unable_to_determine" and "canceled" too, "exception"
\* for "expired": every test takes them together.
Terminal == {"succeeded", "failed", "exception"}

Numbers == 1..MaxRuns

RunRow ==
  [scope : {"full", "local"}, status : {"queued", "completed", "succeeded", "failed"}]

Execution ==
  [status : {"none", "pending", "running"} \cup Terminal, expired : BOOLEAN]

Nowhere == [run |-> 0, todo |-> {}, broke |-> FALSE, report |-> 0]

TypeOK ==
  /\ round \in {"draft", "auditing", "awaiting_review", "waiting_review", "completed"}
  /\ Len(runs) <= MaxRuns
  /\ \A n \in DOMAIN runs : runs[n] \in RunRow
  /\ exec \in [Numbers -> [Rules -> Execution]]
  /\ job \in [Numbers ->
       [status : {"absent", "queued", "running", "succeeded", "failed", "canceled"},
        retries : 0..MaxRetries]]
  /\ issue \in [Rules -> {"none", "open", "decided"}]
  /\ \A i \in DOMAIN reports :
       reports[i] \in [version : Nat, status : {"draft", "published"}]
  /\ pc \in [Threads -> {"idle", "taken", "list", "run", "finish", "report", "publish"}]
  /\ at \in [Threads -> [run : 0..MaxRuns, todo : SUBSET Rules, broke : BOOLEAN,
                         report : Nat]]
  /\ requests \in 0..MaxRequests

Init ==
  /\ round = "draft"
  /\ runs = <<>>
  /\ exec = [n \in Numbers |-> [k \in Rules |-> [status |-> "none", expired |-> FALSE]]]
  /\ job = [n \in Numbers |-> [status |-> "absent", retries |-> 0]]
  /\ issue = [k \in Rules |-> "none"]
  /\ reports = <<>>
  /\ pc = [t \in Threads |-> "idle"]
  /\ at = [t \in Threads |-> Nowhere]
  /\ requests = 0

-----------------------------------------------------------------------------

Request == requests < MaxRequests /\ requests' = requests + 1

Goto(t, place, what) == pc' = [pc EXCEPT ![t] = place] /\ at' = [at EXCEPT ![t] = what]

Done(t) == Goto(t, "idle", Nowhere)

InRun(n) == {k \in Rules : exec[n][k].status # "none"}

Pending(n) == {k \in Rules : exec[n][k].status = "pending"}

New(K) ==
  [k \in Rules |-> [status |-> IF k \in K THEN "pending" ELSE "none", expired |-> FALSE]]

-----------------------------------------------------------------------------
(* Runs.                                                                   *)

Active == {n \in DOMAIN runs : runs[n].status = "queued"}

\* A run that is queued, of either scope, is the answer to a request.
StartAudit ==
  /\ Request
  /\ Active = {}
  /\ Len(runs) < MaxRuns
  /\ LET n == Len(runs) + 1 IN
       /\ runs' = Append(runs, [scope |-> "full", status |-> "queued"])
       /\ exec' = [exec EXCEPT ![n] = New(Rules)]
       /\ job' = [job EXCEPT ![n].status = "queued"]
  /\ round' = "auditing"
  /\ UNCHANGED <<issue, reports, pc, at>>

\* The executions of the affected rules expire, and are made again in a run
\* that has no job.
LocalRerun(K) ==
  /\ Request
  /\ Len(runs) < MaxRuns
  /\ LET n == Len(runs) + 1 IN
       /\ runs' = Append(runs, [scope |-> "local", status |-> "queued"])
       /\ exec' = [m \in Numbers |->
            IF m = n THEN New(K)
            ELSE [k \in Rules |-> IF k \in K \cap InRun(m)
                                  THEN [exec[m][k] EXCEPT !.expired = TRUE] ELSE exec[m][k]]]
  /\ UNCHANGED <<round, job, issue, reports, pc, at>>

-----------------------------------------------------------------------------
(* Attempts.                                                               *)

\* Mutant of AllDone: an exception is taken for an execution to be repeated.
AllAnswered(E) ==
  \A k \in Rules : E[k].status \in {"none"} \cup (Terminal \ {"exception"})

AllDone(E) == \A k \in Rules : E[k].status \in {"none"} \cup Terminal

\* A failed result carries an issue.  One that conflicts with what the issue
\* says opens it again.
Issues(k, status) ==
  IF status # "failed" THEN {issue[k]}
  ELSE IF issue[k] = "none" THEN {"open"} ELSE {issue[k], "open"}

\* The last answer to a queued run completes it.
Record(n, k, status) ==
  LET E == [exec[n] EXCEPT ![k].status = status]
      completes == AllDone(E) /\ runs[n].status = "queued"
  IN /\ exec' = [exec EXCEPT ![n] = E]
     /\ \E i \in Issues(k, status) : issue' = [issue EXCEPT ![k] = i]
     /\ runs' = IF completes THEN [runs EXCEPT ![n].status = "completed"] ELSE runs
     /\ round' = IF completes THEN "awaiting_review" ELSE round
     /\ UNCHANGED <<job, reports>>

\* By hand: an execution is run, or an attempt at it is reported.
RecordByHand(n, k, status) ==
  /\ Request
  /\ k \in InRun(n)
  /\ Record(n, k, status)
  /\ UNCHANGED <<pc, at>>

RetryExecution(n, k) ==
  /\ Request
  /\ exec[n][k].status \in Terminal
  /\ exec' = [exec EXCEPT ![n][k].status = "pending"]
  /\ UNCHANGED <<round, runs, job, issue, reports, pc, at>>

DecideIssue(k) ==
  /\ Request
  /\ issue[k] # "none"
  /\ issue' = [issue EXCEPT ![k] = "decided"]
  /\ UNCHANGED <<round, rows, reports, pc, at>>

-----------------------------------------------------------------------------
(* Jobs.                                                                   *)

CancelJob(n) ==
  /\ Request
  /\ job[n].status = "queued"
  /\ job' = [job EXCEPT ![n].status = "canceled"]
  /\ UNCHANGED <<round, runs, exec, issue, reports, pc, at>>

RetryJob(n) ==
  /\ Request
  /\ job[n].status = "failed"
  /\ job[n].retries < MaxRetries
  /\ job' = [job EXCEPT ![n].status = "queued", ![n].retries = @ + 1]
  /\ UNCHANGED <<round, runs, exec, issue, reports, pc, at>>

\* The status is looked at, and changed by a call of its own.
TakeJob(t, n) ==
  /\ pc[t] = "idle"
  /\ job[n].status = "queued"
  /\ Goto(t, "taken", [Nowhere EXCEPT !.run = n])
  /\ UNCHANGED <<requests, round, rows, issue, reports>>

MarkRunning(t) ==
  /\ pc[t] = "taken"
  /\ job' = [job EXCEPT ![at[t].run].status = "running"]
  /\ Goto(t, "list", at[t])
  /\ UNCHANGED <<requests, round, runs, exec, issue, reports>>

ListPending(t) ==
  /\ pc[t] = "list"
  /\ Goto(t, "run", [at[t] EXCEPT !.todo = Pending(at[t].run)])
  /\ UNCHANGED <<requests, round, rows, issue, reports>>

RunNext(t) ==
  /\ pc[t] = "run"
  /\ \E k \in at[t].todo, status \in Terminal :
       /\ Record(at[t].run, k, status)
       /\ Goto(t, "run", [at[t] EXCEPT !.todo = @ \ {k},
                                       !.broke = @ \/ status = "exception"])
  /\ UNCHANGED requests

\* complete_audit_run, by the exceptions that this call has seen.
CompleteRun(t) ==
  /\ pc[t] = "run" /\ at[t].todo = {}
  /\ runs' = [runs EXCEPT ![at[t].run].status = IF at[t].broke THEN "failed" ELSE "succeeded"]
  /\ round' = "waiting_review"
  /\ Goto(t, "finish", at[t])
  /\ UNCHANGED <<requests, exec, job, issue, reports>>

FinishJob(t) ==
  /\ pc[t] = "finish"
  /\ job' = [job EXCEPT ![at[t].run].status = IF at[t].broke THEN "failed" ELSE "succeeded"]
  /\ Done(t)
  /\ UNCHANGED <<requests, round, runs, exec, issue, reports>>

-----------------------------------------------------------------------------
(* Reports.                                                                *)

BeginReport(t) ==
  /\ Request
  /\ pc[t] = "idle"
  /\ Goto(t, "report", [Nowhere EXCEPT !.report = Len(reports) + 1])
  /\ UNCHANGED <<round, rows, issue, reports>>

CommitReport(t) ==
  /\ pc[t] = "report"
  /\ reports' = Append(reports, [version |-> at[t].report, status |-> "draft"])
  /\ Done(t)
  /\ UNCHANGED <<requests, round, rows, issue>>

\* check_round_publishability, the standards apart.
Publishable ==
  LET E == {exec[n][k] : n \in Numbers, k \in Rules}
      current == {e \in E : e.status # "none" /\ ~e.expired}
  IN /\ current # {}
     /\ \A e \in current : e.status \notin {"pending", "running", "exception"}
     /\ \A k \in Rules : issue[k] # "open"

BeginPublish(t, i) ==
  /\ Request
  /\ pc[t] = "idle"
  /\ Publishable
  /\ Goto(t, "publish", [Nowhere EXCEPT !.report = i])
  /\ UNCHANGED <<round, rows, issue, reports>>

CommitPublish(t) ==
  /\ pc[t] = "publish"
  /\ reports' = [reports EXCEPT ![at[t].report].status = "published"]
  /\ round' = "completed"
  /\ Done(t)
  /\ UNCHANGED <<requests, rows, issue>>

-----------------------------------------------------------------------------

Next ==
  \/ StartAudit
  \/ \E K \in (SUBSET Rules) \ {{}} : LocalRerun(K)
  \/ \E n \in Numbers :
       \/ CancelJob(n)
       \/ RetryJob(n)
       \/ \E k \in Rules :
            \/ RetryExecution(n, k)
            \/ \E status \in Terminal \cup {"running"} : RecordByHand(n, k, status)
  \/ \E k \in Rules : DecideIssue(k)
  \/ \E t \in Threads :
       \/ \E n \in Numbers : TakeJob(t, n)
       \/ MarkRunning(t) \/ ListPending(t) \/ RunNext(t) \/ CompleteRun(t) \/ FinishJob(t)
       \/ BeginReport(t) \/ CommitReport(t) \/ CommitPublish(t)
       \/ \E i \in DOMAIN reports : BeginPublish(t, i)

Spec == Init /\ [][Next]_vars

-----------------------------------------------------------------------------
(* Properties.                                                             *)

\* A run that start_audit gives back instead of a new one has something left to
\* answer: the round is not blocked by a run that has been answered, whoever
\* answered last and whatever was retried meanwhile.
QueuedRunUnanswered ==
  \A n \in Active : \E k \in Rules : exec[n][k].status \in {"pending", "running"}

\* The reports of a round are told apart by their versions, which are part of
\* their numbers.  The code does not keep this: two simultaneous creations count
\* the same reports.
DistinctVersions ==
  \A i, j \in DOMAIN reports : reports[i].version = reports[j].version => i = j
=============================================================================
