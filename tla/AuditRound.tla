----------------------------- MODULE AuditRound -----------------------------
(***************************************************************************)
(* The audit of one task: its rounds, the audit runs of a round with one   *)
(* execution for each rule, the workers that run them, the issues they     *)
(* open, and the report that closes a round.                               *)
(*                                                                         *)
(* A round has its files, standards and rules: the readiness test of       *)
(* start_audit and the standard part of the publishability test have been  *)
(* passed.  Rule k opens the issue k of the round; IssueMerge says how     *)
(* results merge into one issue.  A run and its queue_job row are created  *)
(* together and share a name; JobQueue says how a job is delivered.  The   *)
(* store calls that decide on what they read are two steps, Begin and      *)
(* Write; SerialStore says, as in FileParse, whether the database lets     *)
(* others in between.  The others write what does not depend on it.        *)
(***************************************************************************)
EXTENDS Integers, FiniteSets, FiniteSetsExt

CONSTANTS
  Rules,        \* the enabled rules of a round
  Runs,         \* audit runs that may be created
  Workers,      \* calls of process_queue_job, by workers and by run_job
  Handlers,     \* API threads
  NoRun,        \* what an actor without a run holds
  NoRule,       \* what an actor without a rule holds
  Requests,     \* the requests that people make, a subset of RequestKinds
  MaxRounds,    \* bound on the rounds of the task
  MaxRequests,  \* bound on the requests
  MaxFaults,    \* bound on infrastructure errors and crashes
  SerialStore   \* whether transactions are serializable

Actors == Workers \cup Handlers

Rounds == 1..MaxRounds

RequestKinds == {"start", "rerun", "retry", "run", "report", "cancel",
                 "rejob", "runjob", "decide", "draft", "publish", "round"}

ASSUME AuditAssumption ==
  /\ Workers \cap Handlers = {}
  /\ NoRun \notin Runs /\ NoRule \notin Rules
  /\ IsFiniteSet(Rules) /\ Rules # {}
  /\ IsFiniteSet(Runs)
  /\ Requests \subseteq RequestKinds
  /\ MaxRounds \in Nat \ {0}
  /\ MaxRequests \in Nat
  /\ MaxFaults \in Nat
  /\ SerialStore \in BOOLEAN

VARIABLES
  task,      \* the audit_task row: its status and its current round
  round,     \* round[d]: the status of a round
  run,       \* the audit_run rows
  exec,      \* exec[r][k]: the rule_execution row of rule k in run r
  job,       \* job[r]: the status of the queue_job row of run r
  issue,     \* issue[d][k]: the issue that rule k opened in round d
  report,    \* report[d]: the report of round d
  pc,        \* pc[a]: where an actor is
  at,        \* at[a]: the run it works on
  rule,      \* rule[a]: the rule it runs
  where,     \* where[a]: the round its request names
  todo,      \* todo[a]: executions that process_queue_job has listed
  bad,       \* bad[a]: whether one of its results was an exception
  snap,      \* snap[a]: the executions, or the last run number, it read
  requests,  \* requests made so far
  faults     \* faults so far

roundVars == <<task, round, report>>
runVars   == <<run, exec, job, issue>>
actorVars == <<pc, at, rule, where, todo, bad, snap>>
limitVars == <<requests, faults>>
vars == <<task, round, run, exec, job, issue, report, pc, at, rule, where,
          todo, bad, snap, requests, faults>>

\* What record_execution_attempt takes for an answer that will not change.  Of
\* the two more that may be reported, "canceled" stands with
\* "unable_to_determine" and "expired" with "exception" in every test.
Terminal == {"succeeded", "failed", "unable_to_determine", "exception"}

RoundStatus == {"absent", "draft", "auditing", "awaiting_review",
                "waiting_review", "completed"}

\* attempts counts the attempt rows, last is the largest attempt_no.
Execution == [status : {"none", "pending", "running"} \cup Terminal,
              expired : BOOLEAN, attempts : Nat, last : Nat]

NoExecution == [status |-> "none", expired |-> FALSE, attempts |-> 0, last |-> 0]

RunRow == [kind : {"none", "audit", "local"},
           status : {"none", "queued", "completed", "succeeded", "failed"},
           round : 0..MaxRounds, no : 0..Cardinality(Runs)]

NoRunRow == [kind |-> "none", status |-> "none", round |-> 0, no |-> 0]

NoSnap == [execs |-> [k \in Rules |-> NoExecution], no |-> 0]

PC == {"idle", "claimed", "next", "recording", "reporting", "finish",
       "failjob", "requeue", "refused", "starting", "rerunning", "publishing"}

\* An actor is between the read and the write of a transaction.
Transaction == {"recording", "reporting", "starting", "rerunning"}

TypeOK ==
  /\ task \in [status : (RoundStatus \ {"absent"}) \cup {"in_new_round"}, round : Rounds]
  /\ round \in [Rounds -> RoundStatus]
  /\ run \in [Runs -> RunRow]
  /\ exec \in [Runs -> [Rules -> Execution]]
  /\ job \in [Runs -> {"absent", "queued", "running", "succeeded", "failed", "canceled"}]
  /\ issue \in [Rounds -> [Rules -> {"none", "open", "decided"}]]
  /\ report \in [Rounds -> {"none", "draft", "published"}]
  /\ pc \in [Actors -> PC]
  /\ at \in [Actors -> Runs \cup {NoRun}]
  /\ rule \in [Actors -> Rules \cup {NoRule}]
  /\ where \in [Actors -> 0..MaxRounds]
  /\ todo \in [Actors -> SUBSET Rules]
  /\ bad \in [Actors -> BOOLEAN]
  /\ snap \in [Actors -> [execs : [Rules -> Execution], no : 0..Cardinality(Runs)]]
  /\ requests \in 0..MaxRequests
  /\ faults \in 0..MaxFaults

\* create_task leaves a task with a first round, both drafts.
Init ==
  /\ task = [status |-> "draft", round |-> 1]
  /\ round = [d \in Rounds |-> IF d = 1 THEN "draft" ELSE "absent"]
  /\ run = [r \in Runs |-> NoRunRow]
  /\ exec = [r \in Runs |-> [k \in Rules |-> NoExecution]]
  /\ job = [r \in Runs |-> "absent"]
  /\ issue = [d \in Rounds |-> [k \in Rules |-> "none"]]
  /\ report = [d \in Rounds |-> "none"]
  /\ pc = [a \in Actors |-> "idle"]
  /\ at = [a \in Actors |-> NoRun]
  /\ rule = [a \in Actors |-> NoRule]
  /\ where = [a \in Actors |-> 0]
  /\ todo = [a \in Actors |-> {}]
  /\ bad = [a \in Actors |-> FALSE]
  /\ snap = [a \in Actors |-> NoSnap]
  /\ requests = 0
  /\ faults = 0

-----------------------------------------------------------------------------
(* Actors and rows.                                                        *)

Isolated(a) == SerialStore => \A b \in Actors \ {a} : pc[b] \notin Transaction

Goto(a, to) ==
  /\ pc' = [pc EXCEPT ![a] = to]
  /\ UNCHANGED <<at, rule, where, todo, bad, snap>>

Release(a) ==
  /\ pc' = [pc EXCEPT ![a] = "idle"]
  /\ at' = [at EXCEPT ![a] = NoRun]
  /\ rule' = [rule EXCEPT ![a] = NoRule]
  /\ where' = [where EXCEPT ![a] = 0]
  /\ todo' = [todo EXCEPT ![a] = {}]
  /\ bad' = [bad EXCEPT ![a] = FALSE]
  /\ snap' = [snap EXCEPT ![a] = NoSnap]

Fault == faults < MaxFaults /\ faults' = faults + 1 /\ UNCHANGED requests

\* A request arrives at an idle API thread.
Request(h, kind) ==
  /\ kind \in Requests
  /\ pc[h] = "idle"
  /\ requests < MaxRequests
  /\ requests' = requests + 1
  /\ Isolated(h)
  /\ UNCHANGED faults

RunsOf(d) == {r \in Runs : run[r].round = d}

InRun(r) == {k \in Rules : exec[r][k].status # "none"}

LastNo(d) == Max({run[r].no : r \in RunsOf(d)} \cup {0})

-----------------------------------------------------------------------------
(* start_audit and local_rerun.                                            *)

\* A queued run of the round, of either kind, is the answer to the request.
BeginStart(h, d) ==
  /\ Request(h, "start")
  /\ round[d] # "absent"
  /\ IF \E r \in RunsOf(d) : run[r].status = "queued"
       THEN Release(h)
       ELSE /\ pc' = [pc EXCEPT ![h] = "starting"]
            /\ where' = [where EXCEPT ![h] = d]
            /\ snap' = [snap EXCEPT ![h].no = LastNo(d)]
            /\ UNCHANGED <<at, rule, todo, bad>>
  /\ UNCHANGED <<roundVars, runVars>>

\* A new run with a pending execution for each rule of K, and its job.
CreateRun(h, r, kind, K) ==
  /\ run[r].kind = "none"
  /\ run' = [run EXCEPT ![r] = [kind |-> kind, status |-> "queued",
                                round |-> where[h], no |-> snap[h].no + 1]]
  /\ job' = [job EXCEPT ![r] = "queued"]
  /\ exec' = [q \in Runs |-> [k \in Rules |->
       IF q = r
         THEN IF k \in K THEN [NoExecution EXCEPT !.status = "pending"] ELSE NoExecution
         ELSE IF kind = "local" /\ run[q].round = where[h] /\ k \in K /\ k \in InRun(q)
                THEN [exec[q][k] EXCEPT !.expired = TRUE] ELSE exec[q][k]]]
  /\ UNCHANGED issue

\* Mutant of WriteStart: the run is saved, its job is not.
StartWithoutJob(h) ==
  /\ pc[h] = "starting"
  /\ \E r \in Runs :
       /\ run[r].kind = "none"
       /\ run' = [run EXCEPT ![r] = [kind |-> "audit", status |-> "queued",
                                     round |-> where[h], no |-> snap[h].no + 1]]
       /\ exec' = [exec EXCEPT ![r] = [k \in Rules |-> [NoExecution EXCEPT !.status = "pending"]]]
  /\ Release(h)
  /\ UNCHANGED <<roundVars, job, issue, limitVars>>

WriteStart(h) ==
  /\ pc[h] = "starting"
  /\ \E r \in Runs : CreateRun(h, r, "audit", Rules)
  /\ task' = [task EXCEPT !.status = "auditing"]
  /\ round' = [round EXCEPT ![where[h]] = "auditing"]
  /\ Release(h)
  /\ UNCHANGED <<report, limitVars>>

BeginRerun(h, d) ==
  /\ Request(h, "rerun")
  /\ round[d] # "absent"
  /\ pc' = [pc EXCEPT ![h] = "rerunning"]
  /\ where' = [where EXCEPT ![h] = d]
  /\ snap' = [snap EXCEPT ![h].no = LastNo(d)]
  /\ UNCHANGED <<at, rule, todo, bad, roundVars, runVars>>

\* The earlier executions of the affected rules expire; neither the task nor
\* the round changes its status, and no message announces the job.
WriteRerun(h) ==
  /\ pc[h] = "rerunning"
  /\ \E r \in Runs, K \in (SUBSET Rules) \ {{}} : CreateRun(h, r, "local", K)
  /\ Release(h)
  /\ UNCHANGED <<roundVars, limitVars>>

-----------------------------------------------------------------------------
(* record_execution_attempt, for a worker that runs the audit job, for     *)
(* run_execution and for the attempts endpoint.                            *)

BeginRecord(a, r, k, to) ==
  /\ Isolated(a)
  /\ pc' = [pc EXCEPT ![a] = to]
  /\ at' = [at EXCEPT ![a] = r]
  /\ rule' = [rule EXCEPT ![a] = k]
  /\ snap' = [snap EXCEPT ![a].execs = exec[r]]
  /\ UNCHANGED <<where, bad, roundVars, runVars>>

BeginNext(c) ==
  /\ pc[c] = "next"
  /\ \E k \in todo[c] : /\ BeginRecord(c, at[c], k, "recording")
                        /\ todo' = [todo EXCEPT ![c] = @ \ {k}]
  /\ UNCHANGED limitVars

\* An administrator runs, or any user reports on, an execution in any state.
BeginByHand(h) ==
  /\ \E r \in Runs : \E k \in InRun(r) :
       \/ Request(h, "run") /\ BeginRecord(h, r, k, "recording")
       \/ Request(h, "report") /\ BeginRecord(h, r, k, "reporting")
  /\ UNCHANGED todo

\* The results that may be recorded: those of the executor, or any reported.
Results(a) == IF pc[a] = "reporting" THEN Terminal \cup {"running"} ELSE Terminal

\* A failed result carries an issue; an existing one is reopened in a conflict.
IssueAfter(a, i, s) ==
  IF s # "failed" THEN {i}
  ELSE (IF i = "none" THEN {"open"} ELSE {i, "open"})
       \cup (IF pc[a] = "reporting" THEN {i} ELSE {})

\* The executions of the run with the new attempt, which has the number after the
\* largest that was read.  A status that was read as s is not written.
Recorded(a, s) ==
  LET k == rule[a]
      before == snap[a].execs[k]
  IN [exec[at[a]] EXCEPT ![k].status = IF before.status = s THEN @ ELSE s,
                         ![k].attempts = @ + 1,
                         ![k].last = IF @ > before.last THEN @ ELSE before.last + 1]

\* Mutant of AllDone: an exception is not an answer.
NoExceptions(others, k, s) ==
  /\ s \in Terminal \ {"exception"}
  /\ \A m \in Rules \ {k} : others[m].status \in (Terminal \ {"exception"}) \cup {"none"}

\* The last execution of the run to be answered, as the transaction sees it.
AllDone(others, k, s) ==
  /\ s \in Terminal
  /\ \A m \in Rules \ {k} : others[m].status \in Terminal \cup {"none"}

WriteRecord(a) ==
  LET r == at[a]
      k == rule[a]
      d == run[r].round
  IN
  /\ pc[a] \in {"recording", "reporting"}
  /\ \E s \in Results(a), others \in {snap[a].execs, exec[r]} :
       /\ exec' = [exec EXCEPT ![r] = Recorded(a, s)]
       /\ \E i \in IssueAfter(a, issue[d][k], s) : issue' = [issue EXCEPT ![d][k] = i]
       /\ IF AllDone(others, k, s) /\ run[r].status = "queued"
            THEN /\ run' = [run EXCEPT ![r].status = "completed"]
                 /\ round' = [round EXCEPT ![d] = "awaiting_review"]
                 /\ task' = [task EXCEPT !.status = "awaiting_review"]
            ELSE UNCHANGED <<run, round, task>>
       /\ IF a \in Workers
            THEN /\ pc' = [pc EXCEPT ![a] = "next"]
                 /\ rule' = [rule EXCEPT ![a] = NoRule]
                 /\ bad' = [bad EXCEPT ![a] = @ \/ s = "exception"]
                 /\ snap' = [snap EXCEPT ![a] = NoSnap]
                 /\ UNCHANGED <<at, where, todo>>
            ELSE Release(a)
  /\ UNCHANGED <<job, report, limitVars>>

-----------------------------------------------------------------------------
(* process_queue_job for an audit job.                                     *)

\* Only start_audit dispatches its job; a local run's is never announced.  The
\* row is read here and marked as running in ListPending, whatever it says by
\* then.  A message is with one worker at a time (JobQueue); that a run by hand has the
\* job as well, in whichever order the two read the row, is RunJob.
Claim(c, r) ==
  /\ pc[c] = "idle"
  /\ job[r] = "queued"
  /\ \A b \in Workers : at[b] # r
  /\ run[r].kind = "audit"
  /\ pc' = [pc EXCEPT ![c] = "claimed"]
  /\ at' = [at EXCEPT ![c] = r]
  /\ UNCHANGED <<rule, where, todo, bad, snap, roundVars, runVars, limitVars>>

\* run_job: an administrator's thread runs a queued job of any run, also one that a
\* worker has read as queued and will mark as running.
RunJob(c, r) ==
  /\ "runjob" \in Requests
  /\ requests < MaxRequests
  /\ requests' = requests + 1
  /\ pc[c] = "idle"
  /\ job[r] = "queued"
  /\ pc' = [pc EXCEPT ![c] = "claimed"]
  /\ at' = [at EXCEPT ![c] = r]
  /\ UNCHANGED <<rule, where, todo, bad, snap, roundVars, runVars, faults>>

\* Mutant of ListPending: one execution a job.
ListFirst(c) ==
  /\ pc[c] = "claimed"
  /\ run[at[c]].kind = "audit"
  /\ Isolated(c)
  /\ job' = [job EXCEPT ![at[c]] = "running"]
  /\ \E k \in InRun(at[c]) : todo' = [todo EXCEPT ![c] = {k}]
  /\ pc' = [pc EXCEPT ![c] = "next"]
  /\ UNCHANGED <<at, rule, where, bad, snap, run, exec, issue, roundVars, limitVars>>

\* The row is running; the pending executions of the run, expired or not, are
\* listed once.
ListPending(c) ==
  /\ pc[c] = "claimed"
  /\ run[at[c]].kind = "audit"
  /\ Isolated(c)
  /\ job' = [job EXCEPT ![at[c]] = "running"]
  /\ todo' = [todo EXCEPT ![c] = {k \in Rules : exec[at[c]][k].status = "pending"}]
  /\ pc' = [pc EXCEPT ![c] = "next"]
  /\ UNCHANGED <<at, rule, where, bad, snap, run, exec, issue, roundVars, limitVars>>

\* process_queue_job does not know the job_type of a local rerun: the row is running,
\* then failed, and nothing is executed.
Refuse(c) ==
  /\ pc[c] = "claimed"
  /\ run[at[c]].kind = "local"
  /\ job' = [job EXCEPT ![at[c]] = "running"]
  /\ Goto(c, "refused")
  /\ UNCHANGED <<roundVars, run, exec, issue, limitVars>>

FailRefused(c) ==
  /\ pc[c] = "refused"
  /\ job' = [job EXCEPT ![at[c]] = "failed"]
  /\ Release(c)
  /\ UNCHANGED <<roundVars, run, exec, issue, limitVars>>

\* Mutant of CompleteRun: exceptions are not looked at.
CompleteRunSucceeded(c) ==
  /\ pc[c] = "next" /\ todo[c] = {}
  /\ Isolated(c)
  /\ run' = [run EXCEPT ![at[c]].status = "succeeded"]
  /\ round' = [round EXCEPT ![run[at[c]].round] = "waiting_review"]
  /\ task' = [task EXCEPT !.status = "waiting_review"]
  /\ Goto(c, "finish")
  /\ UNCHANGED <<report, exec, job, issue, limitVars>>

\* complete_audit_run, by the exceptions this call has seen, whatever the
\* status of the run, the round and the task.
CompleteRun(c) ==
  /\ pc[c] = "next" /\ todo[c] = {}
  /\ Isolated(c)
  /\ run' = [run EXCEPT ![at[c]].status = IF bad[c] THEN "failed" ELSE "succeeded"]
  /\ round' = [round EXCEPT ![run[at[c]].round] = "waiting_review"]
  /\ task' = [task EXCEPT !.status = "waiting_review"]
  /\ Goto(c, "finish")
  /\ UNCHANGED <<report, exec, job, issue, limitVars>>

FinishJob(c) ==
  /\ pc[c] = "finish"
  /\ job' = [job EXCEPT ![at[c]] = IF bad[c] THEN "failed" ELSE "succeeded"]
  /\ Release(c)
  /\ UNCHANGED <<roundVars, run, exec, issue, limitVars>>

\* A transaction fails and is rolled back; the error marks the row and goes to
\* consume_queue_job, which puts the row back in the queue while its retries
\* last; run_job leaves it.
BodyBreaks(c) ==
  /\ pc[c] \in {"next", "recording", "finish"}
  /\ Fault
  /\ Goto(c, "failjob")
  /\ UNCHANGED <<roundVars, runVars>>

FailJob(c) ==
  /\ pc[c] = "failjob"
  /\ job' = [job EXCEPT ![at[c]] = "failed"]
  /\ Goto(c, "requeue")
  /\ UNCHANGED <<roundVars, run, exec, issue, limitVars>>

Requeue(c) ==
  /\ pc[c] = "requeue"
  /\ \/ job[at[c]] = "failed" /\ job' = [job EXCEPT ![at[c]] = "queued"]
     \/ UNCHANGED job
  /\ Release(c)
  /\ UNCHANGED <<roundVars, run, exec, issue, limitVars>>

Crash(a) ==
  /\ pc[a] # "idle"
  /\ Fault
  /\ Release(a)
  /\ UNCHANGED <<roundVars, runVars>>

-----------------------------------------------------------------------------
(* Other requests.                                                         *)

\* retry_rule_execution: the row waits again; the run and its job do not change.
RetryExecution(h) ==
  /\ Request(h, "retry")
  /\ \E r \in Runs, k \in Rules :
       /\ exec[r][k].status \in Terminal
       /\ exec' = [exec EXCEPT ![r][k].status = "pending"]
  /\ UNCHANGED <<actorVars, roundVars, run, job, issue>>

CancelJob(h) ==
  /\ Request(h, "cancel")
  /\ \E r \in Runs : /\ job[r] = "queued"
                     /\ job' = [job EXCEPT ![r] = "canceled"]
  /\ UNCHANGED <<actorVars, roundVars, run, exec, issue>>

\* retry_job: a failed row is queued again, to be run by run_job.
RetryJob(h) ==
  /\ Request(h, "rejob")
  /\ \E r \in Runs : /\ job[r] = "failed"
                     /\ job' = [job EXCEPT ![r] = "queued"]
  /\ UNCHANGED <<actorVars, roundVars, run, exec, issue>>

\* confirm, reject and close.
DecideIssue(h) ==
  /\ Request(h, "decide")
  /\ \E d \in Rounds, k \in Rules :
       /\ issue[d][k] = "open"
       /\ issue' = [issue EXCEPT ![d][k] = "decided"]
  /\ UNCHANGED <<actorVars, roundVars, run, exec, job>>

CreateReport(h) ==
  /\ Request(h, "draft")
  /\ \E d \in Rounds : /\ round[d] # "absent" /\ report[d] = "none"
                       /\ report' = [report EXCEPT ![d] = "draft"]
  /\ UNCHANGED <<actorVars, task, round, runVars>>

CreateRound(h) ==
  /\ Request(h, "round")
  /\ task.round < MaxRounds
  /\ round' = [round EXCEPT ![task.round + 1] = "draft"]
  /\ task' = [status |-> "in_new_round", round |-> task.round + 1]
  /\ UNCHANGED <<actorVars, report, runVars>>

\* The executions that the publishability test looks at.
Counted(d) ==
  {x \in RunsOf(d) \X Rules :
     LET e == exec[x[1]][x[2]] IN e.status # "none" /\ ~e.expired}

\* Mutant of Publishable: pending executions do not block.
PublishablePending(d) == \A k \in Rules : issue[d][k] # "open"

\* check_round_publishability.
Publishable(d) ==
  /\ Counted(d) # {}
  /\ \A x \in Counted(d) : exec[x[1]][x[2]].status \notin {"pending", "running", "exception"}
  /\ \A k \in Rules : issue[d][k] # "open"

\* publish_report tests in one session and writes in another.
BeginPublish(h, d) ==
  /\ Request(h, "publish")
  /\ report[d] # "none"
  /\ Publishable(d)
  /\ pc' = [pc EXCEPT ![h] = "publishing"]
  /\ where' = [where EXCEPT ![h] = d]
  /\ UNCHANGED <<at, rule, todo, bad, snap, roundVars, runVars>>

WritePublish(h) ==
  /\ pc[h] = "publishing"
  /\ Isolated(h)
  /\ report' = [report EXCEPT ![where[h]] = "published"]
  /\ round' = [round EXCEPT ![where[h]] = "completed"]
  /\ task' = [task EXCEPT !.status = "completed"]
  /\ Release(h)
  /\ UNCHANGED <<runVars, limitVars>>

-----------------------------------------------------------------------------

RequestStep(h) ==
  \/ \E d \in Rounds : BeginStart(h, d) \/ BeginRerun(h, d) \/ BeginPublish(h, d)
  \/ BeginByHand(h) \/ RetryExecution(h)
  \/ CancelJob(h) \/ RetryJob(h)
  \/ DecideIssue(h) \/ CreateReport(h) \/ CreateRound(h)

HandlerProgress(h) ==
  WriteStart(h) \/ WriteRerun(h) \/ WriteRecord(h) \/ WritePublish(h)

WorkerProgress(c) ==
  \/ \E r \in Runs : Claim(c, r)
  \/ ListPending(c) \/ BeginNext(c) \/ WriteRecord(c)
  \/ Refuse(c) \/ FailRefused(c)
  \/ CompleteRun(c) \/ FinishJob(c) \/ FailJob(c) \/ Requeue(c)

FaultStep ==
  \/ \E c \in Workers : BodyBreaks(c)
  \/ \E a \in Actors : Crash(a)

Next ==
  \/ \E h \in Handlers : RequestStep(h) \/ HandlerProgress(h)
  \/ \E c \in Workers : WorkerProgress(c) \/ \E r \in Runs : RunJob(c, r)
  \/ FaultStep

Spec == Init /\ [][Next]_vars

\* Requests that have begun, and the workers, go on.
FairSpec ==
  /\ Spec
  /\ \A h \in Handlers : WF_vars(HandlerProgress(h))
  /\ \A c \in Workers : WF_vars(WorkerProgress(c))

-----------------------------------------------------------------------------
(* What an audit promises.                                                 *)

\* A run whose executions all have an answer is not left queued, whoever
\* recorded the last one: start_audit would return it for ever.
DoneRunIsClosed ==
  \A r \in Runs :
    run[r].status = "queued" => \E k \in InRun(r) : exec[r][k].status \notin Terminal

\* A round has one audit at a time: a second start finds the first.  So on
\* serializable transactions, not on those of PostgreSQL.
OneActiveAudit ==
  \A d \in Rounds :
    Cardinality({r \in RunsOf(d) : run[r].kind = "audit" /\ run[r].status = "queued"}) <= 1

\* The attempts of an execution are numbered 1, 2, 3..., without a gap or a twin.
\* So on serializable transactions, not on those of PostgreSQL.
AttemptsNumbered ==
  \A r \in Runs, k \in Rules : exec[r][k].last = exec[r][k].attempts

\* A job that succeeded left no rule of its run untried, however often it was
\* interrupted and started again.
SucceededJobTriedAll ==
  \A r \in Runs : job[r] = "succeeded" => \A k \in InRun(r) : exec[r][k].attempts > 0

\* A run that is called succeeded holds no exception.
SucceededRunIsClean ==
  \A r \in Runs :
    run[r].status = "succeeded" => \A k \in Rules : exec[r][k].status # "exception"

\* "A report must not be published while a mandatory item is not handled or an
\* exception is not dealt with": when the report of a round goes out, all that
\* still counts has an answer and every issue a decision.
PublishedReady ==
  [][\A d \in Rounds :
       report[d] # "published" /\ report'[d] = "published" =>
         /\ \A r \in RunsOf(d), k \in Rules :
              exec[r][k].status \in {"pending", "running", "exception"} => exec[r][k].expired
         /\ \A k \in Rules : issue[d][k] # "open"]_vars

\* "Expired results do not enter the issues of the round."
ExpiredOpensNothing ==
  [][\A d \in Rounds, k \in Rules :
       issue[d][k] = "none" /\ issue'[d][k] = "open"
         => \E r \in RunsOf(d) : exec'[r][k] # exec[r][k] /\ ~exec[r][k].expired]_vars

\* The last state of a round is "completed": nothing but a new audit of the
\* round reopens it.
CompletedStays ==
  [][\A d \in Rounds :
       round[d] = "completed" => round'[d] \in {"completed", "auditing"}]_vars

OpenAudit(r) == run[r].kind = "audit" /\ run[r].status = "queued"

Waits == {"queued", "canceled"}

Minds(c, r) == at[c] = r /\ pc[c] \in {"claimed", "next", "recording"}

\* An audit is not forgotten: a round, or the task, says "auditing" only while an
\* audit run is open; and while nothing fails the job of an open one waits, or was
\* canceled, or a call of process_queue_job minds the run.
AuditNotForgotten ==
  /\ \A d \in Rounds : round[d] = "auditing" => \E r \in RunsOf(d) : OpenAudit(r)
  /\ task.status = "auditing" => \E r \in Runs : OpenAudit(r)
  /\ faults = 0 => \A r \in Runs :
       OpenAudit(r) => job[r] \in Waits \/ \E c \in Workers : Minds(c, r)

\* An audit that was started comes to an end.
AuditEnds ==
  \A r \in Runs :
    run[r].kind = "audit" /\ run[r].status = "queued" ~> run[r].status # "queued"

\* "Local rerun queued": it is executed.
LocalRerunEnds ==
  \A r \in Runs :
    run[r].kind = "local" /\ run[r].status = "queued" ~> run[r].status # "queued"

\* "Rule execution queued for retry": it is tried again.
RetriedExecutionEnds ==
  \A r \in Runs, k \in Rules :
    exec[r][k].status = "pending" ~> exec[r][k].status # "pending"
=============================================================================
