------------------------------- MODULE Reports ------------------------------
(***************************************************************************)
(* Tasks and their numbers, the rounds of a task, and the reports of a     *)
(* round with their Word and PDF files.                                    *)
(*                                                                         *)
(* A task is named by its running number in the year, SH-y-n; the database *)
(* orders the numbers as text, padded to Width digits.  A report is named  *)
(* by its task and version, report_no = <task_no>-REP-V<version>, and its  *)
(* files are stored under that name; what tells the contents of two files  *)
(* apart is the round they report on.                                      *)
(*                                                                         *)
(* Creating a row is a transaction that reads (Begin...) and then writes   *)
(* (Commit...).  With SerialStore transactions do not overlap.  The        *)
(* statuses of rounds and tasks are in AuditRound, and so is the check     *)
(* whether a round may be published: here any report may be.               *)
(***************************************************************************)
EXTENDS Integers, Sequences, FiniteSets

CONSTANTS
  Base,          \* base of the written numbers, 10 in the code
  Width,         \* digits a number is padded to, 6 in the code
  MaxTasks,      \* bound on the tasks of the year
  MaxRounds,     \* bound on the rounds of a task
  MaxReports,    \* bound on the versions of a report
  Threads,       \* API threads
  MaxFaults,     \* bound on storage errors and crashes
  SerialStore,   \* whether transactions are serializable
  AdvisoryLock,  \* whether the database has one: PostgreSQL
  None           \* no request

VARIABLES
  rounds,   \* rounds[n]: current_round_no of task n, 0 if there is no such task
  reports,  \* report rows
  objects,  \* objects[f]: the round that the stored file f reports on, or 0
  work,     \* work[t]: the request that t is serving
  refused,  \* history: what a unique constraint has refused: tasks, rounds, reports
  faults    \* storage errors and crashes so far

rows == <<rounds, reports>>
vars == <<rows, objects, work, refused, faults>>

Numbers == 1..MaxTasks

Report ==
  [task : Numbers, round : 1..MaxRounds, version : 1..MaxReports,
   status : {"draft", "published"}]

Files == Numbers \X (1..MaxReports) \X {"word", "pdf"}

TypeOK ==
  /\ rounds \in [Numbers -> 0..MaxRounds]
  /\ reports \subseteq Report
  /\ objects \in [Files -> 0..MaxRounds]
  /\ DOMAIN work = Threads
  /\ refused \subseteq {"task", "round", "report"}
  /\ faults \in 0..MaxFaults

Init ==
  /\ rounds = [n \in Numbers |-> 0]
  /\ reports = {}
  /\ objects = [f \in Files |-> 0]
  /\ work = [t \in Threads |-> None]
  /\ refused = {}
  /\ faults = 0

Tasks == {n \in Numbers : rounds[n] > 0}

-----------------------------------------------------------------------------
(* Transactions.                                                           *)

Serves(t, op) == work[t] # None /\ work[t].op = op

InTransaction(t) ==
  \E op \in {"task", "round", "report", "publish"} : Serves(t, op)

Begin(t, reads) ==
  /\ work[t] = None
  /\ SerialStore => \A u \in Threads : ~InTransaction(u)
  /\ work' = [work EXCEPT ![t] = reads]
  /\ UNCHANGED <<rows, objects, refused, faults>>

\* A row whose name is taken is refused by its unique constraint.
Insert(t, taken) ==
  /\ work' = [work EXCEPT ![t] = None]
  /\ refused' = refused \cup (IF taken THEN {work[t].op} ELSE {})
  /\ UNCHANGED <<objects, faults>>

-----------------------------------------------------------------------------
(* Numbers of tasks.                                                       *)

Power[k \in Nat] == IF k = 0 THEN 1 ELSE Base * Power[k - 1]

\* A number with leading zeros, longer than Width when it does not fit.
Text(n) ==
  LET length == CHOOSE k \in Width..(Width + n) :
                  /\ n < Power[k]
                  /\ k = Width \/ n >= Power[k - 1]
  IN [i \in 1..length |-> (n \div Power[length - i]) % Base]

\* The order of texts.
Before(s, t) ==
  \E i \in 1..Len(t) :
    /\ \A j \in 1..(i - 1) : j <= Len(s) /\ s[j] = t[j]
    /\ i > Len(s) \/ s[i] < t[i]

NextNumber ==
  IF Tasks = {} THEN 1
  ELSE 1 + CHOOSE n \in Tasks : \A m \in Tasks \ {n} : Before(Text(m), Text(n))

\* Mutant of Turn: no lock is taken.
AnyTime == TRUE

\* The advisory lock is held from the reading of the latest number to the end
\* of the transaction.
Turn == AdvisoryLock => \A u \in Threads : ~Serves(u, "task")

BeginTask(t) ==
  /\ Turn
  /\ NextNumber <= MaxTasks
  /\ Begin(t, [op |-> "task", number |-> NextNumber])

\* A task comes with its first round.
CommitTask(t) ==
  /\ Serves(t, "task")
  /\ LET n == work[t].number IN
       /\ rounds' = IF n \in Tasks THEN rounds ELSE [rounds EXCEPT ![n] = 1]
       /\ Insert(t, n \in Tasks)
  /\ UNCHANGED reports

BeginRound(t, n) ==
  /\ n \in Tasks
  /\ rounds[n] < MaxRounds
  /\ Begin(t, [op |-> "round", task |-> n, round |-> rounds[n] + 1])

CommitRound(t) ==
  /\ Serves(t, "round")
  /\ LET n == work[t].task
         r == work[t].round
     IN /\ rounds' = IF r <= rounds[n] THEN rounds ELSE [rounds EXCEPT ![n] = r]
        /\ Insert(t, r <= rounds[n])
  /\ UNCHANGED reports

-----------------------------------------------------------------------------
(* Reports.                                                                *)

ReportsOf(n, r) == {p \in reports : p.task = n /\ p.round = r}

\* Versions are counted within the round.
NextVersion(n, r) ==
  IF ReportsOf(n, r) = {} THEN 1
  ELSE 1 + CHOOSE k \in 1..MaxReports :
             /\ \E p \in ReportsOf(n, r) : p.version = k
             /\ \A p \in ReportsOf(n, r) : p.version <= k

BeginReport(t, n, r) ==
  /\ r \in 1..rounds[n]
  /\ NextVersion(n, r) \in 1..MaxReports
  /\ Begin(t, [op |-> "report", task |-> n, round |-> r, version |-> NextVersion(n, r)])

\* Mutant of Taken: report_no is unique within a round.
TakenInRound(x) == \E p \in ReportsOf(x.task, x.round) : p.version = x.version

\* report_no is unique over all reports, and does not name the round.
Taken(x) == \E p \in reports : p.task = x.task /\ p.version = x.version

CommitReport(t) ==
  /\ Serves(t, "report")
  /\ LET x == work[t]
         new == [task |-> x.task, round |-> x.round, version |-> x.version,
                 status |-> "draft"]
     IN /\ reports' = reports \cup (IF Taken(x) THEN {} ELSE {new})
        /\ Insert(t, Taken(x))
  /\ UNCHANGED rounds

\* Any report can be published, a published one again.
BeginPublish(t, p) ==
  Begin(t, [op |-> "publish", report |-> p])

CommitPublish(t) ==
  /\ Serves(t, "publish")
  /\ LET p == work[t].report
         q == [p EXCEPT !.status = "published"]
     IN /\ reports' = (reports \ {p}) \cup {q}
        /\ work' = [work EXCEPT ![t] = [op |-> "word", report |-> q]]
  /\ UNCHANGED <<rounds, objects, refused, faults>>

File(p, kind) == <<p.task, p.version, kind>>

\* The files are rendered and stored after the transaction, first the Word file.
PutWord(t) ==
  /\ Serves(t, "word")
  /\ LET p == work[t].report IN
       /\ objects' = [objects EXCEPT ![File(p, "word")] = p.round]
       /\ work' = [work EXCEPT ![t] = [op |-> "pdf", report |-> p]]
  /\ UNCHANGED <<rows, refused, faults>>

PutPdf(t) ==
  /\ Serves(t, "pdf")
  /\ LET p == work[t].report IN
       objects' = [objects EXCEPT ![File(p, "pdf")] = p.round]
  /\ work' = [work EXCEPT ![t] = None]
  /\ UNCHANGED <<rows, refused, faults>>

\* A storage error or a crash ends a request; a transaction is rolled back.
Fail(t) ==
  /\ work[t] # None
  /\ faults < MaxFaults
  /\ faults' = faults + 1
  /\ work' = [work EXCEPT ![t] = None]
  /\ UNCHANGED <<rows, objects, refused>>

-----------------------------------------------------------------------------

Next ==
  \E t \in Threads :
    \/ BeginTask(t)
    \/ CommitTask(t)
    \/ CommitRound(t)
    \/ CommitReport(t)
    \/ CommitPublish(t)
    \/ PutWord(t)
    \/ PutPdf(t)
    \/ Fail(t)
    \/ \E p \in reports : BeginPublish(t, p)
    \/ \E n \in Numbers :
         \/ BeginRound(t, n)
         \/ \E r \in 1..MaxRounds : BeginReport(t, n, r)

Spec == Init /\ [][Next]_vars

-----------------------------------------------------------------------------
(* Properties.                                                             *)

\* No creation of a task is refused before the numbers of Width digits are used
\* up: the advisory lock of _next_task_no keeps two tasks off one number.
NumberedUntilFull ==
  "task" \in refused => \A n \in 1..(Power[Width] - 1) : n \in Tasks

\* Whether t is serving a publication of p.
Publishing(t, p) ==
  /\ \E op \in {"publish", "word", "pdf"} : Serves(t, op)
  /\ File(work[t].report, "word") = File(p, "word")

\* Without a fault, the two files of a published report that nobody is
\* publishing are there and report on its round, whatever other reports, of
\* this round or of another one of the task, were published before or since.
PublishedFilesOwn ==
  \A p \in reports :
    /\ p.status = "published"
    /\ faults = 0
    /\ \A t \in Threads : ~Publishing(t, p)
    => \A kind \in {"word", "pdf"} : objects[File(p, kind)] = p.round

\* No task is ever refused, which the order of the numbers as text refutes: the
\* longer number that follows the last of Width digits sorts before it.
TaskAlwaysNumbered == "task" \notin refused

\* Without overlapping transactions no report is refused: every round of a task
\* can be reported on.
EveryRoundReports == "report" \notin refused
=============================================================================
