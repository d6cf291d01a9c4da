# Verification of the coal safety review platform

This directory holds TLA+ models of the platform's core logic (`src/coal_platform`), the TLC
configurations that check them on small instances, and TLAPS proofs of what holds for every instance.
Definitions are translated from the source; `PROJECT.json` maps each one to the lines it stands for,
lists the runs, the mutants that show each property can fail, the findings, the hazards and the theorems.

    tlc -workers 2 -config MCJobQueue_queue.cfg MCJobQueue      # check one run
    tlapm JobQueueProofs.tla                                    # check the proofs

## 1. The system

The platform lets reviewers upload the technical documents of a product, parses them, runs the rules of
a review round over them (built-in code or an external model), merges what the rules find into issues,
lets people decide on the issues, and publishes a report. It is a FastAPI process with a thread pool, any
number of Celery workers behind a Redis broker, a relational database (SQLite in development and tests,
PostgreSQL in production) and an object storage. There is no shared memory between processes: they meet in
the database rows, in the broker's messages and in stored objects.

| Component | State | Operations | Interacts with |
|---|---|---|---|
| Background jobs (`worker.py`, `executor_runtime.py`, queue part of `sqlalchemy_store.py`) | `queue_job` rows, broker messages | create, dispatch, consume, retry, cancel, run by hand | every component that has background work |
| Task files (`sqlalchemy_store.py` 2144-2508, `api.py` 303-480) | `task_file` row with `parse_summary`, `parsed_block` rows, objects | replace, delete, retry, review, revise, parse job | jobs, storage |
| Uploads (`api.py` 303-400, `sqlalchemy_store.py` 2144-2190, `storage.py`) | the `task_file` rows of a task, their hashes and objects | upload several files, replace, delete, tidy the storage | storage, task files |
| Audit rounds (`sqlalchemy_store.py` 2510-2889, 3080-3363) | `audit_task`, `audit_round`, `audit_run`, `rule_execution`, attempts | start, local rerun, run, report an attempt, retry, complete, publish, new round | jobs, rules, issues, model gateway |
| Issues (`record_execution_attempt`, 3240-3326) | `audit_issue`, `issue_source`, `issue_evidence` | merge a result, decide, correct | audit rounds, reports |
| Model gateway (`model_gateway.py`) | semaphores and circuits per model, in memory | call with retries, audit record | external providers, rule execution |
| Rule catalog (`sqlalchemy_store.py` 979-1231, 1462-1684) | rule definitions, versions, packs, round rules | create, publish, disable, copy, assemble | audit rounds |
| Rule engine (`rule_engine.py`) | none | evaluate a rule on an input | rule execution |
| Standard catalog (`sqlalchemy_store.py` 1699-1993, 3384-3589) | standards, versions, parse revisions, round standards, dynamic items | create, revise, publish, confirm, decide | audit rounds |
| Tasks (`sqlalchemy_store.py` 2054-2143) | `audit_task`, numbers | create, update | everything |
| Reports (`sqlalchemy_store.py` 3037-3111, `api.py` 1311-1334) | `report` rows, stored files | create, publish, render | audit rounds, storage |
| Users and sessions (`auth.py`, `sqlalchemy_store.py` 758-849, `cli.py`) | users, `auth_session` rows | first administrator, login, admit a request, log out, change and reset a password | API |
| In-memory store (`store.py`) | dictionaries, one lock | the same contract for demonstrations: jobs are run by API threads, some methods hold no lock | API in demo mode |

What is hard here:

* **Decide-then-write.** Handlers make several store calls, each its own transaction, and most store calls
  read a row, decide and write without a lock. PostgreSQL runs them at read committed.
* **Acknowledge-early workers.** A message is acknowledged when it is delivered; a worker that dies leaves a
  row "running" and no message.
* **Partial failure.** Row, broker and object storage change one after the other.
* **Several counters and flags for one fact**: `retry_count` and Celery's `request.retries`; the status of a
  job, a run, a round and a task.
* **Late answers.** A parse of a replaced file, an attempt of an expired execution, a model call that was
  under way when the circuit opened, a login that verified a password which has been changed since.
* **Copies.** The decision on a clause is in its item and in its coverage row, the standing of a standard in its
  own row and in those of its versions, a rule's version in the rule's row and in the list of versions.

What makes each component correct, in a sentence: a job is executed by one worker at a time, a bounded number
of times, and comes to rest; a file that says "parsed" shows its current version and only that; a round has one
audit, every execution of it is tried, nothing is published while something is open; one problem is one issue,
and a disagreement between sources is never settled silently; the gateway never loses a permit and protects a
failing provider; a standard is in force while a version of it is, and a report goes out only when every clause of
the round's standards has been reviewed; a changed password ends the sessions opened with the old one; a row never names
an object that is gone; numbers are unique and never run out early; a published report has its own files. `PROJECT.json` lists the hazards, each at its line.

## 2. The modules

| Module | Models | Depends on |
|---|---|---|
| `JobQueue` | the queue: rows, messages, workers, API threads, faults | |
| `JobQueueProofs` | its invariants for any instance | `JobQueue` |
| `TaskFile` | abstract: what the rest of the platform may assume of a file | |
| `FileParse` | one file, its handlers and parse jobs; implements `TaskFile` | `TaskFile` |
| `FileParseProofs` | that it does, and its invariants, for any instance | `FileParse` |
| `AuditRound` | rounds, runs, executions, the audit job, decisions, report | |
| `AuditRoundProofs` | its invariants for any instance | `AuditRound` |
| `IssueMerge` | how results of several executions become one issue | |
| `IssueMergeProofs` | its invariants for any instance | `IssueMerge` |
| `ModelGateway` | semaphore, circuit breaker and attempts of one model | |
| `ModelGatewayProofs` | its invariants for any instance | `ModelGateway` |
| `RuleCatalog` | versions of rules, packs, the rules a round takes | |
| `RuleCatalogProofs` | its invariants for any instance | `RuleCatalog` |
| `StandardCatalog` | standards, versions, parse revisions, what a round selects, confirms and decides | |
| `Reports` | tasks and their numbers, rounds, reports and their files | |
| `Accounts` | users, passwords, sessions | |
| `Uploads` | the files of a task and their objects in the storage | |
| `DemoFiles` | in-memory store: a task file and its jobs; implements `TaskFile` | `TaskFile` |
| `DemoAudit` | in-memory store: audits, local reruns, executions, issues, reports of a round | |
| `DemoStandards` | in-memory store: revisions of standards, items of rounds | |
| `DemoRules` | in-memory store: executors, rules, versions, packs, rules of rounds | |
| `Desk` | `StandardCatalog`, `Accounts`, `Uploads` and `Reports` beside one another | these four |
| `DeskProofs` | the invariants of all four, for any instance | `Desk` |
| `DemoStore` | the four modules of the in-memory store beside one another | these four |
| `DemoStoreProofs` | the invariants of all four, for any instance | `DemoStore` |
| `MC*` | small instances, symmetry | the module named |

Conventions. Actors are threads or worker processes; `pc[a]` says where an actor is, other functions hold its
local variables. One action is one store transaction, or one call to the broker, storage or provider. When a
transaction writes something that depends on what it read, it is two actions, a read (`Begin...`, `ReadFile`)
and a write; the constant `SerialStore` says whether the database keeps others out in between (SQLite's single
writer: TRUE; PostgreSQL at read committed: FALSE). The passing runs of `FileParse`, `AuditRound`,
`IssueMerge`, `RuleCatalog` and `StandardCatalog` use TRUE: they show that the logic is right when transactions are;
what read committed adds is shown by counterexamples. `Uploads` and `Reports` are checked (and proved) with FALSE, and `Accounts`
and `JobQueue` need no such constant: they always have the interleavings of read committed.
Crashes and infrastructure errors are actions bounded by `MaxFaults`; people's requests are bounded by
`MaxRequests`. Definitions whose comment says "Mutant of X" are plausible bugs, used only to test properties.

**JobQueue.** A row is created by a handler (`Create`) and published in a second step (`Dispatch`), which may
fail (`DispatchFails`) or never happen (`DispatcherDies`). `Deliver` takes a message; `Claim` reads the row and
tests its status; `MarkRunning` writes "running" without looking again; the body returns, raises an error that
will not be retried, or raises one that will: `RetryWrite`, `Requeue`, `Republish` are `retry_queue_job`'s
two halves and `self.retry`. API threads run the same code by hand without a message (`RunNow`), retry
(`RetryJob`) and cancel (`CancelJob`). `attempts` and `abandoned` are history variables.

**FileParse.** `file` is the row with its blocks and the page images its summary lists; `objects` and
`assets` are what the storage really holds. A version stands for its storage key. Requests are the handlers of
`api.py` with all their store and storage calls in order (find the file, write, tidy the storage, queue a job,
publish it); a worker goes through start, parse, complete and record, or clean-up, fail and raise.
A message is with one worker at a time, as `JobQueue` shows; an administrator's thread that runs a job by hand
(`RunJob`, `POST /jobs/{id}/run`) may have it at the same time as a worker, since `process_queue_job` reads the
status and writes "running" in two transactions. Such a thread is one of `Workers`.
`TaskFile` is the abstract lifecycle: a version only ever shows its own content, and deletion is final.

**AuditRound.** A run has one execution per rule. Start, local rerun and recording an attempt are two-step
transactions. The audit job lists what is pending, then runs and records one execution after the other,
completes the run, round and task, and finishes the job row. Reviewers decide issues, draft and publish reports,
open new rounds; administrators run, retry and report executions by hand and cancel, retry or run jobs (`RunJob`, as in
`FileParse`: also a job that a worker has). The job of a local rerun is announced by no message, and a run by hand fails
(`Refuse`), since `process_queue_job` does not know its type. The outcome
of a rule is nondeterministic; when it is "failed" it opens the issue of that rule. Readiness of the round and
confirmed standards are taken as given.

**IssueMerge.** All results carry one issue code. `said` remembers what the executions reported and `corrected`
whether a reviewer changed a severity, both for the properties only.

**ModelGateway.** A step is what a thread does under the gateway's lock between blocking calls. Time is only the
age of an open circuit. The audit record of a success is written inside the block that catches errors, so a database
error, or a TypeError or ValueError taken for an invalid response, ends a call that had its answer. A provider may answer anything, late, or hang up. One gateway object is modelled: the API
process has one; a worker makes a new one for each job, so there the circuit never spans jobs.

**RuleCatalog.** A version is a rule and a number; `status` and `deps` are its columns, `members` and `offered` a
pack, `rules[k]` the `round_rule` rows of round k. A publication is three steps: validate, find the versions to
archive, write; `publications` holds the open ones. An assembly is two: lock the round and choose, insert;
`assemblies` holds those. `Acyclic` says what the depth-first search of `rule_engine.py` decides, that every set of
rules has one that depends on none of the set. Any subset of the published packs may apply to a round, since the
files that decide it change freely. The rules seeded at installation are published versions without dependencies,
states that the model reaches by publishing. A test run is a queue job and changes nothing here. Disabling a
version and saving a pack are single steps: a publication that commits between the validation of a pack and its
writing has the effect of one that follows it, as publications do not read packs. Two updates of one pack at the
same time are left out.

**StandardCatalog.** `standard`, `version`, `revisions` are the rows of the catalog, `selections`, `items` and
`coverage` those of a round, `asked` its items that have a `rule_execution` row; `open[t]` is the transaction of a thread with what it has read. A transaction is
`Begin...` and `Commit...`; a confirmation looks for coverage in between (`LookForCoverage`). The session writes only
columns that differ from what was read (`Written`), which is what two overlapping decisions trip over. An audit asks for executions of the items that are applicable when it
starts (`BeginAudit`, `CommitAudit`; the other conditions of a start are `AuditRound`'s), and a result, the worker's
or one reported by hand, is written to the coverage row of its item at any time afterwards, whatever the item says by
then (`BeginAttempt`, `CommitAttempt`). The five results are one status "executed"; the gate treats them alike.
Attempts that are running, canceled or expired leave the row as it is. A parsed text is a set of clause codes.

**Reports.** Numbers are compared as texts, so `Base` and `Width` stand for ten and six. `AdvisoryLock` says whether
the database has one (PostgreSQL). Publishing a report is a transaction and then two objects put one after the
other. `MaxReports` bounds the versions of a report within its round; a request for one more does not begin.

**Accounts.** Passwords of a user are numbered. A login verifies in one transaction and inserts its session in
another; every other request is admitted first and acts later. `late` and `opened` remember for the properties
which password a session was opened with and whether the login overlapped with a change.

**Uploads.** A content stands for its hash, a key for an object; a row is identified by the key it was inserted with.
Objects are put before the rows are written and
removed after; a handler may fail or die between any two steps (`MaxFaults`).

**The in-memory store.** A method that holds the store's lock is one action; the few that do not are two. Handlers
are several calls. API threads run the jobs, and nothing keeps two of them from running one job. The four modules
share no objects but the task's dictionary, whose parts they take for themselves, so `DemoStore` lets a behaviour exercise
one at a time; `Desk` does the same for parts of the database that share no rows. `DemoRules` differs from
`RuleCatalog` where the code does: one executor has versions of its own, a rule's row has a status, publication is one
step, a version whose executor version is not named takes the *oldest* published one (`store.py` reverses a list
that has the newest first, at 1182) where the database store takes the newest, and one that is named may be a draft
until the rule's version is published.

## 3. The runs

Every action of the modules fires in a passing run. Deadlock checking is off where requests are used up and the
system rests.

| Run | Shows | Bounds, and why they are enough |
|---|---|---|
| `job_queue` | one worker per job; at most 4 automatic attempts; "running" only with somebody in the body or after a fault; canceled and succeeded rows final once nobody has read them earlier; undisturbed jobs come to rest | 2 jobs of different kinds, 2 workers, 1 API thread, 2 faults, 2 retries by hand: two writers of one row, a retry racing a retry, a fault within the recovery from a fault |
| `file_parse` | a parsed file is current; deletion final; pages exist while nothing failed; implements `TaskFile` | 2 requests after the upload, runs by hand among them, 2 handlers, 2 workers, 3 jobs, 1 fault: a request during another's multi-step work, two parses at once, a parse of an old version |
| `file_settles` | a waiting file always has somebody who will go on with it; waiting files settle | 2 workers, 1 handler, 2 requests among replacements, deletions and runs by hand: a job run twice beside a replacement |
| `audit_round` | done runs are closed; an audit that is shown as going on is open and its job not forgotten; a succeeded job tried all | 3 of any requests, 2 rules, 2 runs, 2 rounds, 1 fault, 2 workers, one of which may be the thread that runs the other's job by hand; 1 API thread for the rest, since serializable transactions of two never overlap; the proofs cover any number |
| `audit_quiet` | audits end; a succeeded run is clean; nothing is published while something is open | 6 requests, so that start, two decisions, draft and publish all fit |
| `issue_merge` | disagreement flagged; evidenced agreement merged | 3 executions, any number of results each |
| `model_gateway` | permits conserved; an open circuit drains; calls end | 2 threads, limit 1 or 2, 2 attempts, threshold 2, a window of 2 ticks; the proofs cover the rest |
| `rule_catalog` | one published version per rule; no circle of published rules; rounds run released versions; a round's rules final | 2 rules with 2 versions each that may depend on the other, 1 pack with versions of one rule, 2 rounds, 2 threads: a replaced version, a circle by a second version, a round that inherits, two assemblies at once; the proofs cover the rest |
| `desk` | catalog: one published revision per version, a standard in force with its versions, the gate opens only on reviewed clauses; accounts: a change ends the earlier sessions, changes in turn; uploads: rows name stored objects; reports: no number refused early, published reports have their own files | catalog: 1 standard, 2 versions, 2 revisions, 1 clause code, 1 round with audits and results at any time, 2 threads; accounts: 1 user, 3 passwords, 3 sessions, 2 threads; uploads: 2 contents, 3 objects, 2 threads, 1 fault; reports: 1 task, 2 rounds with up to 3 versions of a report each, 2 threads, 1 fault; numbers: 3 tasks where 2 numbers have one digit: every pair of requests can overlap on the same rows, a second version can replace the first, numbers can run out |
| `demo_store` | a task file implements `TaskFile` and is not left being parsed; a run that is handed back has something to answer; the copy of a revision is current; a rule shown as published is usable | files: 2 jobs, 2 threads, 2 versions, 1 retry; audit: 2 rules, 2 runs, 3 requests, 2 threads; standards: 1 version, 2 revisions, 2 rounds; rules: 2 rules with 2 and 1 versions that may depend on each other, 2 executor versions, 1 pack, 2 rounds, 1 thread that copies: one job run twice, a rerun during an audit, a republished version, a circle |
| `reports_second`, `gateway_window` | counterexamples to documented behaviour, section 5 | the smallest instance that shows each |

The type invariants (`TypeOK` of every module, `DeskTypeOK` and `DemoTypeOK` of the compositions) are theorems, were
checked on the instances above before they were proved, and are not checked again by the runs.
`QueuedWithinBudget` is proved and not listed in a run.
In the composed runs the properties of a part are evaluated in every state and say something where that part moves.

Fairness. Weak fairness for a handler that has begun (a thread finishes its request), for workers (Celery keeps
consuming; every blocking call has a timeout), for time passing. Nothing is assumed of people, and
nothing of faults. The liveness properties are: `EveryJobComesToRest` (excuses jobs after a fault or a retry by
hand, both of which really can leave a job waiting), `ParseEnds`, `AuditEnds`, `CallEnds`. The desk and the
in-memory store make no promise of progress: each step is a request of somebody.

What limits the passing results, and where to see the limit: `UndisturbedPagesServed` needs "no fault",
`FlaggedUnlessCorrected` needs "no correction", `MergedWithEvidence` needs evidence in every result, `FileNotForgotten` needs that nothing asks for another parse and
that nothing fails,
`SucceededRunIsClean` needs that nothing fails, that nothing is recorded by hand and that no failed job is queued again,
`PublishedReady` needs that no second audit starts and that no answered execution is opened again or answered by hand,
the three properties of `StandardCatalog` need serializable transactions, and `GateMeansReviewed` lets an item in manual
review pass once an audit has asked for its execution, `ChangeEndsSessions` excuses a login that
overlapped with the change, `NumberedUntilFull` needs the advisory lock and free numbers, `PublishedFilesOwn` needs
"no fault". The theorems of section 4 have the same conditions as hypotheses.
That blocks of two parses stand apart (`OneParse`), that a round has one audit (`OneActiveAudit`), that attempts have
numbers of their own (`AttemptsNumbered`) and that a problem is one issue (`OneIssue`) is decided by the isolation alone:
each is a find and an insert, one step where transactions are serializable. They are therefore no properties of the
passing runs, and the configurations of section 5 refute them on read committed.
Most of these conditions are shown to be necessary: a configuration in section 5 drops it and finds a
counterexample.

## 4. The proofs

Every invariant and action property of a passing run, the refinements included, is a theorem for all values of the
constants, but for the two of `audit_quiet` (`SucceededRunIsClean`, `PublishedReady`), which hold in the quiet case only
that the run checks. So is the type invariant of every module. The four liveness properties are not, and each of those
has its safety half proved. The assumptions on constants say that bounds are numbers (at least one where the initial
state has one already: a round, a password, a version of an executor), that numerals have a base of two or more, that
the sets of actors are apart, that the value for "nothing" is no ordinary value, and, where something is counted, that
a set is finite; TLC evaluates them in the runs.

`JobQueueProofs` proves, for any sets of jobs, workers and API threads and any bounds, from `QueueAssumption` alone
(workers are not API threads, `NoJob` is no job, job kinds are known): `TypeCorrect`, `WorkersApart`,
`AttemptsBounded`, `QueuedBudget`, `RunningAttended` as invariants and `TerminalStays` as an action property. The
properties are not inductive by themselves. That two workers never hold one job rests on the message being the
right to run it: a job is either not yet published, or has one message, or is in the hands of one worker, never two
of these (`OneToken`). That attempts are bounded rests on the token carrying their number: attempts of a job are at
most the retries of its message, and one more while a worker is in the body (`AttemptsCounted`). Both need that
only existing rows are published or worked on (`RowsExist`). `IInv` is their conjunction with the properties; each
conjunct has a lemma that carries it over a step, one case per action, and `Invariance` combines them.
`TerminalStays` follows from `IInv` by cases on who could write the row. `NotForgottenHolds` is the safety half of
`EveryJobComesToRest`: while nothing has failed and nobody retried by hand, a job that is queued or running has a
handler that will publish it, a message, or somebody in its body (`Attended`). Its invariant `CalmInv` says that the
retries of a row and of its message, or of the worker that has it, are one number (`CountsAgree`): a worker that gives a
row back to the queue would otherwise meet a row that has used up its retries while the message has not, or the
other way round, and one of the two would be left alone.

`ModelGatewayProofs` proves, for any number of threads, limit, attempts, threshold and window, from
`GatewayAssumption`: `GatewayTypes`, `PermitsKept`, its corollary `SemaphoreBounds` (no more calls behind the
semaphore than it was created for) and the action property `OpenDrains`. Types and the count of permits are
inductive together: the range of `permits` needs the count of holders, and the count needs the range. The
cardinality steps use the library's theorems on finite sets. `CallsRunDownHolds` is the variant behind `CallEnds`:
every step of a call lowers `Remaining`, a number from 0 to `9 + MaxAttempts`, and nothing that another thread, the
provider or an administrator does raises it. What is left to TLC is only that the fair steps are enabled.

`RuleCatalogProofs` proves, for any rules, versions, dependencies, packs, rounds and threads, from
`CatalogAssumption`: on either isolation `CatalogTypes`, `RoundsRunReleased` and `RulesAreFinal`; under
`SerialStore`, `OneVersionPublished` and `NoPublishedCircle`. `Origin` follows a version from publication through
packs and assemblies to rounds. `Locking` is why an assembly may insert what it chose earlier: its round has had no
rules since. `Sound` adds to the two serial properties that an open publication is alone and that its validation
still holds; then the graph it validated is exactly the graph of published dependencies after its write
(`PublishSound`), and every other step can only take published versions away (`FewerPublished`). `Acyclic` is
stated over sets of rules, so no recursion or induction is needed.

`FileParseProofs` proves, from `FileAssumption`: on either isolation `FileTypes`; under `SerialStore`,
`ParsedIsCurrentHolds`, `PagesServedHolds`, the refinement `FileKeepsPromise` (`Spec =>
ImplementsTaskFile`) and `DeletedStays`. `IInv` adds to the types that one transaction is open (`Alone`) and that
what it has read still holds (`SnapsCurrent`); a replacement or a deletion is the exception, which also remembers
an earlier read, for the objects to remove. `Content` says that the blocks and pages of a row are one parse of its
version. A version is never used twice because the version of a replacement under way is of no row, job or image
yet (`KeysFresh`). `PagesServed` needs to know whose images are where: nobody removes images of the current version
(`OwnPages`, `PagesKept`), which is kept while `faults = 0` only, since a failed second parse does remove them.
`FileNotForgottenHolds` is the safety half of `ParseEnds`, for replacements, deletions and runs by hand: without faults, a file
that waits for its parse has a handler that is about to queue one, a queued job of its version, or a worker with that
version that has yet to write what came of it. Its invariant (`AttendInv`) says that a version has one active job at
most, that workers in a body hold jobs of their own, and that whoever has written the result only has the job left to
end. With requests to parse again it does not hold (`MCFileParse_stuck`): a second request finds the first one's
job, which is about to end.

`AuditRoundProofs` proves, from `AuditAssumption`, its types (`AuditTypes`) and three properties, for any number of
workers, some of which may run a job that another one has. On either isolation and with any faults, `TriedAllHolds`: an
execution without an attempt is pending and in the list of every worker that has made one for its run (`TriedInv`), so
that the worker that finishes has left none. Under `SerialStore`, `DoneRunClosedHolds`: whoever records an answer
decides in the same transaction whether it was the last, and a retry that reopens an execution is not overlooked
(`SerialInv`); what the transaction has read still holds when it writes (`SnapsCurrent`).
`AuditNotForgottenHolds`, on either isolation and for any requests, is the safety half of
`AuditEnds`: a round or a task that says "auditing" has an audit that is open, and while nothing has failed the job
of every open audit waits in the queue, was canceled, or is held by a worker that has yet to complete the run.

`IssueMergeProofs` proves, from `MergeAssumption`: on either isolation `MergeTypesHold`; under `SerialStore`,
`FlaggedHolds` and `MergedHolds`. `MergeAssumption` names the two conclusions that the code itself
writes (`OwnConclusions`: undetermined, conflict) and keeps them apart from those a rule can report; without that
an unanimous report of "conflict" would look like a disagreement. The invariant is that a single row exists
(`Single`), that it exists once anything has been reported (`Heard`), and that its conclusion and marks are the
verdict on all that was `said`: settled, unsettled for want of evidence, or flagged (`Verdicts`).

`DeskProofs` proves, for any instance of the four parts and from `DeskAssumption` (and the parts' own), about the
composition. For the catalog of standards, under `SerialStore`: `OnePublishedRevisionHolds`,
`StandardFollowsVersionsHolds` and `GateMeansReviewedHolds` about `StandardCatalog`'s own specification, and
`DeskCatalogHolds`, which carries them over to the composition. The invariant has two halves. `CatalogInv` says
that at most one transaction is open (`Alone`), that rows have their types (`Rows`), that what the open transaction
has read of the catalog still holds (`CatalogRead`), and the first two properties. `RoundInv` says that a selection
pins a revision that exists (`Pinned`), that items and coverage rows of a clause come in pairs, the row saying what the item's decision amounts to, or that
the item was executed if an audit has asked for it (`Paired`, `Says`), that items which were asked for have been decided
on (`AskedReviewed`), that confirmed selections have items for all their clauses (`ItemsOfConfirmed`), and that what the open
transaction has read of the round still holds (`RoundRead`). The gate looks at coverage only; `Paired` and `AskedReviewed` are
what carries its answer over to the items. Revisions only grow and their clauses never change (`ClausesKept`), so that a
step of the catalog leaves the second half alone. For the accounts, `ChangeEndsSessionsHolds` and
`ChangesInTurnHolds`: one change of a user's password is under way at a time (`LockedOnce`), the password that it
verified is still the user's, and it has found every active session of the user but those of overlapping logins
(`ChangeRequest`); a session of an earlier password can therefore only come from a login that overlapped. For the
uploads, on overlapping transactions and with any faults, `StoredFilesExistHolds`: rows have keys of their own
whose objects are stored (`RowsStored`); a key that is not yet of a row is known to one request only
(`FreshStored`); what a request is about to remove is of no row and not in the hands of another request
(`DoomedUnused`); and a replacement removes what was its own row's (`OldIsOwn`). For the reports, on overlapping
transactions, `PublishedFilesOwnHolds`: reports of a task differ in their versions, whatever their round
(`ReportsApart`), so that no two share the names of their files, and while nothing has failed the files of a
published report are stored or about to be (`FilesComing`). For the numbers of tasks, with the advisory lock,
`NumberedUntilFullHolds`: a task is refused a number only when all numbers of `Width` digits are used up. The tasks
there are have the numbers from 1 on without gaps (`InSequence`); what has to be shown is that the last number *as a
text* is the largest, which is true while all have `Width` digits and false afterwards. So the proof is about
digits: of two numbers below `Power[Width]` the smaller has the smaller digit where they first differ
(`TextsOrdered`). `Power` is a recursive function; that there is one which satisfies its equation is proved too
(`PowerDef`). The facts that need an induction over numbers or digits get it from the least counterexample (`Least`,
`Induction`, from the library's theorem that the naturals are well-founded), which needs no induction theorem with an
operator for a parameter.
`DeskTypes` is the type invariant of the composition, for any constants and on either isolation: accounts and uploads
within their bounds, files of reports of rounds there are, and for the catalog (`TypedCatalog`) that what an open
transaction has read, on overlapping transactions too, is of versions, revisions and clauses that exist, because
neither is ever removed (`VersionsStay`, `ItemsStay`).

`DemoStoreProofs` proves, for any instance of the four parts of the in-memory store. About a task file, from
`DemoFilesAssumption`: `DemoFileTypes`, the refinement `DemoFileKeepsPromise` (`Spec => ImplementsTaskFile`,
initial states and every step) and `DemoFileNotLeftParsing`; `DemoStoreFileHolds` carries them over to the
composition. The refinement needs `Fresh`: a replacement that has stored its content holds a version that is not
yet that of the file and that no other replacement holds, so that the version only goes to one never used before.
`NotLeftParsing` is not inductive; `Attended` is: while the file says parsing, some thread is in the middle of
parsing the version that the file shows. About the audit, `QueuedUnansweredHolds`: inductive with the types of the
rows and of what the threads have listed (`AuditInv`, `RunningInv`), since whoever records the last answer closes
the run in the same step, and a retry reopens it with one. About the standards, `LatestCurrentHolds`: with types,
since every method that changes a revision which is the copied one changes the copy. About the rules,
`ShownRulesUsableHolds`: a rule's row shows its one published version or none (`Shown`), published versions are on
published executors (`OnPublishedExecutors`), and when a version is published the graph that was validated is the
graph of published dependencies afterwards; a copy, which reads before it holds the lock, names a version that
exists (`CopyingInv`) and only ever adds a draft.

`DemoTypes` is the type invariant of the composition. The audit's says that a thread with a job knows which run it is
of and has listed rules of the round only; the standards' rests on `LatestCurrentHolds` (a copy is of a revision that
exists) and on items, entries and requests being of rounds there are; the rules' on packs and rounds holding versions
that have been created, by executor versions that have been created.

Only model-checked: `SucceededRunIsClean` and `PublishedReady`, in the quiet case of their run; and `EveryJobComesToRest`, `ParseEnds`, `AuditEnds` and `CallEnds`, since the prover has no rules for
fairness or ENABLED. Their safety halves are proved (`NotForgottenHolds`, `FileNotForgottenHolds`,
`AuditNotForgottenHolds`, `CallsRunDownHolds`): somebody is always there to do the next step, or each step brings the
end nearer; that the somebody does it is what TLC checks. No module with proofs uses a RECURSIVE operator.

## 5. Where code and documents disagree

Two are findings of `PROJECT.json`, with a run each: the first report of a second round is refused, because its
number is that of the first round's (`reports_second`); refused calls keep the circuit open (`gateway_window`).

The others were met while modelling; their configurations are kept to reproduce them with TLC. A configuration may
list several properties: each is refuted by itself, and TLC names the first it comes to.

| Configuration | Property | The code | The document |
|---|---|---|---|
| `MCJobQueue_canceled` | `CanceledIsTerminal` | `executor_runtime.py:184` writes "running" over a cancellation made since 179 | `docs/API详细设计.md:404` "`canceled` 是终态" |
| | `RetriedJobRuns` | `api.py:1534` requeues the row and publishes no message | `docs/生产部署与运维手册.md:116` "待服务恢复后从管理端重试" |
| `MCFileParse_overlap` | `ParsedIsCurrent` | `sqlalchemy_store.py:2326`, read committed, a replacement during the write of a parse | `docs/API详细设计.md:156` "不得覆盖新版本结果" |
| | `OneParse` | `sqlalchemy_store.py:2300`, read committed, two parses | `docs/数据库详细设计.md:156` "避免不同解析版本混用" |
| | `DeletedIsFinal` | `sqlalchemy_store.py:2326`, read committed, a deletion during a parse | `tests/test_api.py:980` a deleted file is `deleted` |
| `MCFileParse_reparse` | `ListedPagesServed` | `executor_runtime.py:268` deletes images that an earlier parse of the version lists | `docs/API详细设计.md:166` page thumbnails are stored and listed |
| | `AcceptedLocks` | `sqlalchemy_store.py:2421` a revision reopens an accepted review | `docs/API详细设计.md:162` "`accepted` 决策锁定当前复核状态" |
| `MCFileParse_stuck` | `ParseEnds` | `sqlalchemy_store.py:2215` a re-parse reuses a job that is about to end | `docs/API详细设计.md:153` failures are retried by a new job |
| `MCAuditRound_waits` | `LocalRerunEnds` | `sqlalchemy_store.py:2790` creates a job that no message announces and whose type `executor_runtime.py:264` refuses | `docs/煤矿安标技术文档智能审核平台设计.md:466` "系统支持整轮执行、局部重跑" |
| | `RetriedExecutionEnds` | `api.py:855` no job is created for it | `api.py:869` "rule execution queued for retry" |
| `MCAuditRound_published` | `PublishedReady` | `sqlalchemy_store.py:3084` tests in one session and writes in another | `...设计.md:1141` |
| | `CompletedStays` | `sqlalchemy_store.py:1424` sets "waiting_review" over "completed" | `...设计.md:276` |
| `MCAuditRound_reruns` | `ExpiredOpensNothing` | `executor_runtime.py:255` runs executions that expired since they were listed | `...设计.md:647` |
| | `SucceededRunIsClean` | `executor_runtime.py:260` forgets exceptions of an earlier delivery | `...设计.md:761` |
| | `AttemptsNumbered` | `sqlalchemy_store.py:3196`, read committed | `docs/数据库详细设计.md:487` |
| `MCIssueMerge_refuted` | `EvidenceCounts` | `sqlalchemy_store.py:3288` a result without evidence rewrites the conclusion | `...设计.md:717` |
| | `DisagreementFlagged` | `sqlalchemy_store.py:3255` compares with the corrected severity | `...设计.md:717` |
| | `SameResultKeepsDecision` | `sqlalchemy_store.py:3293` a repeated result reopens a decided issue | `...设计.md:464` |
| | `AgreementIsNoConflict` | `sqlalchemy_store.py:3252` compares with the stored "unable_to_determine": a result without evidence conflicts with itself | `...设计.md:717` "多个来源结论一致时合并证据和判断依据" |
| | `OneIssue` | `sqlalchemy_store.py:3243`, read committed, no unique constraint | `...设计.md:715` |
| `MCRuleCatalog_disabled` | `AssembledFromPublished` | `sqlalchemy_store.py:1633` takes members of packs whatever their status is by now | `docs/API详细设计.md:265` "按最新已发布配置重新装配" |
| `MCModelGateway_refuted` | `ConfiguredLimitHolds` | `model_gateway.py:187` keeps the first limit | `docs/数据库详细设计.md:630` |
| | `InvalidAnswerIsAnError` | `model_gateway.py:225` an AttributeError is caught nowhere | `docs/规则执行器Python接口协议.md:188` |
| `MCDesk_overlap` | `OnlyCurrentSessions` | `sqlalchemy_store.py:812` revokes the sessions there are; a login that verified the old password inserts its own later | `docs/API详细设计.md:78` "撤销该用户全部有效 `auth_session`" |
| | `StoredContent` | `sqlalchemy_store.py:2475`, read committed: a hash equal to the one read is not written, and another replacement has changed it | `docs/数据库详细设计.md:130` `sha256` is the file's hash |
| | `GateMeansDecided` | `sqlalchemy_store.py:3230`, on any isolation: the result of an execution overwrites the "to_confirm" of an item that was sent to manual review, and the gate (2863-2868) opens | `...设计.md:750` "适用性待确认项目已经确认、排除或说明" |
| | `TaskAlwaysNumbered` | `sqlalchemy_store.py:2059` the largest number is the last as text | `docs/生产容量验收方案.md:50` numbering without collisions |

Configurations for behaviour that no document rules out, kept because a reader of the code would not expect it:

* `MCRuleCatalog_disabled` (`DependenciesPublished`): a version is disabled that others depend on, after which
  validation, over the whole graph, refuses every publication that does not repair it; `MCRuleCatalog_disabled` (`OneVersionPerRound`): two
  packs bring two versions of one rule into a round; `MCRuleCatalog_overlap`: on read committed two publications leave
  two published versions or a circle. Likewise an update of a pack re-validates the members it keeps, so that a pack
  with an archived member can be disabled only together with a change of its members (`SavePack`).
* `MCAuditRound_reruns` (`OneActiveAudit`), read committed: `start_audit` looks for a queued run and creates one when it
  finds none (`sqlalchemy_store.py:2586`), so that two requests start two audits of a round.
* `MCDesk_overlap`, read committed: two publications leave two published revisions (`OnePublishedRevision`), a
  publication during an abolition leaves a standard without a version in force (`StandardFollowsVersions`), two
  decisions on one item leave an item in manual review, of which no execution was asked, beside a coverage row that lets
  the report out (`GateMeansReviewed`). On any isolation, content uploaded, deleted and uploaded again stays deleted (`UploadsKept`,
  `sqlalchemy_store.py:2154`).
* `MCDemoStore_refuted`, the in-memory store: two reports created at once get one version (`DistinctVersions`,
  `store.py:1558`); listing the items puts a decided one back (`DecisionsStand`, 2231); a confirmation in a new round
  shows in the round before, since they share the entry (`ConfirmedHere`, 1710).

## 6. What is not modelled, and the plan

Not modelled, in the order in which it would be worth doing:

1. The rest of `store.py`: users and sessions, model configurations, test runs of rules.
2. The pure algorithms of `rule_engine.py` (the search for a circle against `Acyclic`, the triggers of packs) and
   `parse_quality.py`, against reference definitions.
3. Executors and their versions in the database store's rule catalog.

Theorems to come, with any of these: its type invariant and its properties. What the present modules state and check
is proved but for liveness and the two properties of `audit_quiet`.

Left out for good: the web frontend and prototype (user interface), migrations (schema), report rendering, text
extraction, OCR and image heuristics (pure functions of file content, an outcome in `FileParse`), storage adapters
(I/O), configuration and wiring, metrics, alerts, load test, acceptance and sign-off tools (sequential programs
around the system) and deployment files.
