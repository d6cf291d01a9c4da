--------------------------- MODULE JobQueueProofs ---------------------------
(* For any number of jobs, workers, API threads, retries by hand and faults: *)
(* the job queue keeps the invariant IInv of JobQueue, and with it one       *)
(* worker per job, four automatic attempts, the retry budget of a queued row *)
(* and an attended "running"; and a terminal row stays as it is.             *)
(* Each lemma is the step of one conjunct of IInv, one case per action.      *)
EXTENDS JobQueue, TLAPS

\* Every action keeps the variables in their types.
LEMMA TypeStep ==
  ASSUME TypeOK, [Next]_vars
  PROVE  TypeOK'
<1> USE QueueAssumption DEF Consumers, MaxRetries
<1> USE DEF TypeOK, Message, JobStatus, ConsumerPC
<1> USE DEF rowVars, taskVars, limitVars, histVars
<1>1. ASSUME NEW j \in Jobs, Create(j)
      PROVE  TypeOK'
  BY <1>1 DEF Create, SetStatus
<1>2. ASSUME NEW j \in Jobs, Dispatch(j)
      PROVE  TypeOK'
  BY <1>2 DEF Dispatch
<1>3. ASSUME NEW j \in Jobs, DispatchFails(j)
      PROVE  TypeOK'
  BY <1>3 DEF DispatchFails, SetStatus
<1>4. ASSUME NEW j \in Jobs, DispatcherDies(j)
      PROVE  TypeOK'
  BY <1>4 DEF DispatcherDies, Fault
<1>5. ASSUME NEW j \in Jobs, CancelJob(j)
      PROVE  TypeOK'
  BY <1>5 DEF CancelJob, SetStatus
<1>6. ASSUME NEW j \in Jobs, NEW c \in Callers, RunNow(c, j)
      PROVE  TypeOK'
  BY <1>6 DEF RunNow, Take
<1>7. ASSUME NEW j \in Jobs, NEW c \in Callers, RetryJob(c, j)
      PROVE  TypeOK'
  BY <1>7 DEF RetryJob
<1>8. ASSUME NEW w \in Workers, Deliver(w)
      PROVE  TypeOK'
  BY <1>8 DEF Deliver, Take
<1>9. ASSUME NEW w \in Workers, Requeue(w)
      PROVE  TypeOK'
  BY <1>9 DEF Requeue, Goto
<1>10. ASSUME NEW w \in Workers, Republish(w)
      PROVE  TypeOK'
  BY <1>10 DEF Republish, Release
<1>11. ASSUME NEW c \in Consumers, Claim(c)
      PROVE  TypeOK'
  BY <1>11 DEF Claim, Goto
<1>12. ASSUME NEW c \in Consumers, Decline(c)
      PROVE  TypeOK'
  BY <1>12 DEF Decline, Release
<1>13. ASSUME NEW c \in Consumers, MarkRunning(c)
      PROVE  TypeOK'
  BY <1>13 DEF MarkRunning, Goto, SetStatus
<1>14. ASSUME NEW c \in Consumers, RetryWrite(c)
      PROVE  TypeOK'
  BY <1>14 DEF RetryWrite, WriteRetry, SetStatus, Goto, Release
<1>15. ASSUME NEW c \in Consumers, BodyReturns(c)
      PROVE  TypeOK'
  BY <1>15 DEF BodyReturns, SetStatus, Release
<1>16. ASSUME NEW c \in Consumers, BodyRaisesPermanent(c)
      PROVE  TypeOK'
  BY <1>16 DEF BodyRaisesPermanent, SetStatus, Release
<1>17. ASSUME NEW c \in Consumers, BodyRaisesTransient(c)
      PROVE  TypeOK'
  BY <1>17 DEF BodyRaisesTransient, SetStatus, Escape, Goto, Release
<1>18. ASSUME NEW c \in Consumers, SetupFails(c)
      PROVE  TypeOK'
  BY <1>18 DEF SetupFails, Fault, Escape, Goto, Release
<1>19. ASSUME NEW c \in Consumers, FailureUnrecorded(c)
      PROVE  TypeOK'
  BY <1>19 DEF FailureUnrecorded, Fault, Escape, Goto, Release
<1>20. ASSUME NEW c \in Consumers, Crash(c)
      PROVE  TypeOK'
  BY <1>20 DEF Crash, Fault, Release
<1>21. CASE UNCHANGED vars
  BY <1>21 DEF vars
<1>22. QED
  BY <1>1, <1>2, <1>3, <1>4, <1>5, <1>6, <1>7, <1>8, <1>9, <1>10, <1>11,
     <1>12, <1>13, <1>14, <1>15, <1>16, <1>17, <1>18, <1>19, <1>20, <1>21 DEF
     Next, HandlerStep, WorkerStep, Progress, FaultStep

\* No action deletes a row, and messages and consumers name existing rows.
LEMMA RowsExistStep ==
  ASSUME TypeOK, RowsExist, [Next]_vars
  PROVE  RowsExist'
<1> USE QueueAssumption DEF Consumers, MaxRetries
<1> USE DEF TypeOK, Message, JobStatus, ConsumerPC, RowsExist
<1> USE DEF rowVars, taskVars, limitVars, histVars
<1>1. ASSUME NEW j \in Jobs, Create(j)
      PROVE  RowsExist'
  BY <1>1 DEF Create, SetStatus
<1>2. ASSUME NEW j \in Jobs, Dispatch(j)
      PROVE  RowsExist'
  BY <1>2 DEF Dispatch
<1>3. ASSUME NEW j \in Jobs, DispatchFails(j)
      PROVE  RowsExist'
  BY <1>3 DEF DispatchFails, SetStatus
<1>4. ASSUME NEW j \in Jobs, DispatcherDies(j)
      PROVE  RowsExist'
  BY <1>4 DEF DispatcherDies, Fault
<1>5. ASSUME NEW j \in Jobs, CancelJob(j)
      PROVE  RowsExist'
  BY <1>5 DEF CancelJob, SetStatus
<1>6. ASSUME NEW j \in Jobs, NEW c \in Callers, RunNow(c, j)
      PROVE  RowsExist'
  BY <1>6 DEF RunNow, Take
<1>7. ASSUME NEW j \in Jobs, NEW c \in Callers, RetryJob(c, j)
      PROVE  RowsExist'
  BY <1>7 DEF RetryJob
<1>8. ASSUME NEW w \in Workers, Deliver(w)
      PROVE  RowsExist'
  BY <1>8 DEF Deliver, Take
<1>9. ASSUME NEW w \in Workers, Requeue(w)
      PROVE  RowsExist'
  BY <1>9 DEF Requeue, Goto
<1>10. ASSUME NEW w \in Workers, Republish(w)
      PROVE  RowsExist'
  BY <1>10 DEF Republish, Release
<1>11. ASSUME NEW c \in Consumers, Claim(c)
      PROVE  RowsExist'
  BY <1>11 DEF Claim, Goto
<1>12. ASSUME NEW c \in Consumers, Decline(c)
      PROVE  RowsExist'
  BY <1>12 DEF Decline, Release
<1>13. ASSUME NEW c \in Consumers, MarkRunning(c)
      PROVE  RowsExist'
  BY <1>13 DEF MarkRunning, Goto, SetStatus
<1>14. ASSUME NEW c \in Consumers, RetryWrite(c)
      PROVE  RowsExist'
  BY <1>14 DEF RetryWrite, WriteRetry, SetStatus, Goto, Release
<1>15. ASSUME NEW c \in Consumers, BodyReturns(c)
      PROVE  RowsExist'
  BY <1>15 DEF BodyReturns, SetStatus, Release
<1>16. ASSUME NEW c \in Consumers, BodyRaisesPermanent(c)
      PROVE  RowsExist'
  BY <1>16 DEF BodyRaisesPermanent, SetStatus, Release
<1>17. ASSUME NEW c \in Consumers, BodyRaisesTransient(c)
      PROVE  RowsExist'
  BY <1>17 DEF BodyRaisesTransient, SetStatus, Escape, Goto, Release
<1>18. ASSUME NEW c \in Consumers, SetupFails(c)
      PROVE  RowsExist'
  BY <1>18 DEF SetupFails, Fault, Escape, Goto, Release
<1>19. ASSUME NEW c \in Consumers, FailureUnrecorded(c)
      PROVE  RowsExist'
  BY <1>19 DEF FailureUnrecorded, Fault, Escape, Goto, Release
<1>20. ASSUME NEW c \in Consumers, Crash(c)
      PROVE  RowsExist'
  BY <1>20 DEF Crash, Fault, Release
<1>21. CASE UNCHANGED vars
  BY <1>21 DEF vars
<1>22. QED
  BY <1>1, <1>2, <1>3, <1>4, <1>5, <1>6, <1>7, <1>8, <1>9, <1>10, <1>11,
     <1>12, <1>13, <1>14, <1>15, <1>16, <1>17, <1>18, <1>19, <1>20, <1>21 DEF
     Next, HandlerStep, WorkerStep, Progress, FaultStep

\* The message of a job moves, and is never copied: Dispatch puts it at the
\* broker, Deliver in a worker's hands, Republish back.
LEMMA OneTokenStep ==
  ASSUME TypeOK, RowsExist, OneToken, [Next]_vars
  PROVE  OneToken'
<1> USE QueueAssumption DEF Consumers, MaxRetries
<1> USE DEF TypeOK, Message, JobStatus, ConsumerPC, RowsExist, OneToken,
           OneWorkerPerJob
<1> USE DEF rowVars, taskVars, limitVars, histVars
<1>1. ASSUME NEW j \in Jobs, Create(j)
      PROVE  OneToken'
  BY <1>1 DEF Create, SetStatus
<1>2. ASSUME NEW j \in Jobs, Dispatch(j)
      PROVE  OneToken'
  BY <1>2 DEF Dispatch
<1>3. ASSUME NEW j \in Jobs, DispatchFails(j)
      PROVE  OneToken'
  BY <1>3 DEF DispatchFails, SetStatus
<1>4. ASSUME NEW j \in Jobs, DispatcherDies(j)
      PROVE  OneToken'
  BY <1>4 DEF DispatcherDies, Fault
<1>5. ASSUME NEW j \in Jobs, CancelJob(j)
      PROVE  OneToken'
  BY <1>5 DEF CancelJob, SetStatus
<1>6. ASSUME NEW j \in Jobs, NEW c \in Callers, RunNow(c, j)
      PROVE  OneToken'
  BY <1>6 DEF RunNow, Take
<1>7. ASSUME NEW j \in Jobs, NEW c \in Callers, RetryJob(c, j)
      PROVE  OneToken'
  BY <1>7 DEF RetryJob
<1>8. ASSUME NEW w \in Workers, Deliver(w)
      PROVE  OneToken'
  BY <1>8 DEF Deliver, Take
<1>9. ASSUME NEW w \in Workers, Requeue(w)
      PROVE  OneToken'
  BY <1>9 DEF Requeue, Goto
<1>10. ASSUME NEW w \in Workers, Republish(w)
      PROVE  OneToken'
  BY <1>10 DEF Republish, Release
<1>11. ASSUME NEW c \in Consumers, Claim(c)
      PROVE  OneToken'
  BY <1>11 DEF Claim, Goto
<1>12. ASSUME NEW c \in Consumers, Decline(c)
      PROVE  OneToken'
  BY <1>12 DEF Decline, Release
<1>13. ASSUME NEW c \in Consumers, MarkRunning(c)
      PROVE  OneToken'
  BY <1>13 DEF MarkRunning, Goto, SetStatus
<1>14. ASSUME NEW c \in Consumers, RetryWrite(c)
      PROVE  OneToken'
  BY <1>14 DEF RetryWrite, WriteRetry, SetStatus, Goto, Release
<1>15. ASSUME NEW c \in Consumers, BodyReturns(c)
      PROVE  OneToken'
  BY <1>15 DEF BodyReturns, SetStatus, Release
<1>16. ASSUME NEW c \in Consumers, BodyRaisesPermanent(c)
      PROVE  OneToken'
  BY <1>16 DEF BodyRaisesPermanent, SetStatus, Release
<1>17. ASSUME NEW c \in Consumers, BodyRaisesTransient(c)
      PROVE  OneToken'
  BY <1>17 DEF BodyRaisesTransient, SetStatus, Escape, Goto, Release
<1>18. ASSUME NEW c \in Consumers, SetupFails(c)
      PROVE  OneToken'
  BY <1>18 DEF SetupFails, Fault, Escape, Goto, Release
<1>19. ASSUME NEW c \in Consumers, FailureUnrecorded(c)
      PROVE  OneToken'
  BY <1>19 DEF FailureUnrecorded, Fault, Escape, Goto, Release
<1>20. ASSUME NEW c \in Consumers, Crash(c)
      PROVE  OneToken'
  BY <1>20 DEF Crash, Fault, Release
<1>21. CASE UNCHANGED vars
  BY <1>21 DEF vars
<1>22. QED
  BY <1>1, <1>2, <1>3, <1>4, <1>5, <1>6, <1>7, <1>8, <1>9, <1>10, <1>11,
     <1>12, <1>13, <1>14, <1>15, <1>16, <1>17, <1>18, <1>19, <1>20, <1>21 DEF
     Next, HandlerStep, WorkerStep, Progress, FaultStep

\* MarkRunning spends an attempt, and the message that follows counts one more
\* retry; with one message per job the counts of other jobs are untouched.
LEMMA AttemptsCountedStep ==
  ASSUME TypeOK, RowsExist, OneToken, AttemptsCounted, [Next]_vars
  PROVE  AttemptsCounted'
<1> USE QueueAssumption DEF Consumers, MaxRetries
<1> USE DEF TypeOK, Message, JobStatus, ConsumerPC, RowsExist, OneToken,
           OneWorkerPerJob, AttemptsCounted
<1> USE DEF rowVars, taskVars, limitVars, histVars
<1>1. ASSUME NEW j \in Jobs, Create(j)
      PROVE  AttemptsCounted'
  BY <1>1 DEF Create, SetStatus
<1>2. ASSUME NEW j \in Jobs, Dispatch(j)
      PROVE  AttemptsCounted'
  BY <1>2 DEF Dispatch
<1>3. ASSUME NEW j \in Jobs, DispatchFails(j)
      PROVE  AttemptsCounted'
  BY <1>3 DEF DispatchFails, SetStatus
<1>4. ASSUME NEW j \in Jobs, DispatcherDies(j)
      PROVE  AttemptsCounted'
  BY <1>4 DEF DispatcherDies, Fault
<1>5. ASSUME NEW j \in Jobs, CancelJob(j)
      PROVE  AttemptsCounted'
  BY <1>5 DEF CancelJob, SetStatus
<1>6. ASSUME NEW j \in Jobs, NEW c \in Callers, RunNow(c, j)
      PROVE  AttemptsCounted'
  BY <1>6 DEF RunNow, Take
<1>7. ASSUME NEW j \in Jobs, NEW c \in Callers, RetryJob(c, j)
      PROVE  AttemptsCounted'
  BY <1>7 DEF RetryJob
<1>8. ASSUME NEW w \in Workers, Deliver(w)
      PROVE  AttemptsCounted'
  BY <1>8 DEF Deliver, Take
<1>9. ASSUME NEW w \in Workers, Requeue(w)
      PROVE  AttemptsCounted'
  BY <1>9 DEF Requeue, Goto
<1>10. ASSUME NEW w \in Workers, Republish(w)
      PROVE  AttemptsCounted'
  BY <1>10 DEF Republish, Release
<1>11. ASSUME NEW c \in Consumers, Claim(c)
      PROVE  AttemptsCounted'
  BY <1>11 DEF Claim, Goto
<1>12. ASSUME NEW c \in Consumers, Decline(c)
      PROVE  AttemptsCounted'
  BY <1>12 DEF Decline, Release
<1>13. ASSUME NEW c \in Consumers, MarkRunning(c)
      PROVE  AttemptsCounted'
  BY <1>13 DEF MarkRunning, Goto, SetStatus
<1>14. ASSUME NEW c \in Consumers, RetryWrite(c)
      PROVE  AttemptsCounted'
  BY <1>14 DEF RetryWrite, WriteRetry, SetStatus, Goto, Release
<1>15. ASSUME NEW c \in Consumers, BodyReturns(c)
      PROVE  AttemptsCounted'
  BY <1>15 DEF BodyReturns, SetStatus, Release
<1>16. ASSUME NEW c \in Consumers, BodyRaisesPermanent(c)
      PROVE  AttemptsCounted'
  BY <1>16 DEF BodyRaisesPermanent, SetStatus, Release
<1>17. ASSUME NEW c \in Consumers, BodyRaisesTransient(c)
      PROVE  AttemptsCounted'
  BY <1>17 DEF BodyRaisesTransient, SetStatus, Escape, Goto, Release
<1>18. ASSUME NEW c \in Consumers, SetupFails(c)
      PROVE  AttemptsCounted'
  BY <1>18 DEF SetupFails, Fault, Escape, Goto, Release
<1>19. ASSUME NEW c \in Consumers, FailureUnrecorded(c)
      PROVE  AttemptsCounted'
  BY <1>19 DEF FailureUnrecorded, Fault, Escape, Goto, Release
<1>20. ASSUME NEW c \in Consumers, Crash(c)
      PROVE  AttemptsCounted'
  BY <1>20 DEF Crash, Fault, Release
<1>21. CASE UNCHANGED vars
  BY <1>21 DEF vars
<1>22. QED
  BY <1>1, <1>2, <1>3, <1>4, <1>5, <1>6, <1>7, <1>8, <1>9, <1>10, <1>11,
     <1>12, <1>13, <1>14, <1>15, <1>16, <1>17, <1>18, <1>19, <1>20, <1>21 DEF
     Next, HandlerStep, WorkerStep, Progress, FaultStep

\* Only MarkRunning by a worker adds an attempt, and the worker holds a message
\* delivered for at most the fourth time.
LEMMA AutomaticAttemptsBoundedStep ==
  ASSUME TypeOK, AttemptsCounted, AutomaticAttemptsBounded, [Next]_vars
  PROVE  AutomaticAttemptsBounded'
<1> USE DEF AutomaticAttemptsBounded, TypeOK, MaxRetries
<1>1. ASSUME NEW c \in Consumers, MarkRunning(c)
      PROVE  AutomaticAttemptsBounded'
  BY <1>1 DEF MarkRunning, Goto, AttemptsCounted
<1>2. CASE UNCHANGED attempts
  BY <1>2
<1>3. UNCHANGED attempts \/ \E c \in Consumers : MarkRunning(c)
  BY DEF Next, HandlerStep, WorkerStep, Progress, FaultStep, vars, rowVars,
     taskVars, limitVars, histVars, Create, Dispatch, DispatchFails,
     DispatcherDies, CancelJob, RunNow, RetryJob, Deliver, Requeue, Republish,
     Claim, Decline, RetryWrite, BodyReturns, BodyRaisesPermanent,
     BodyRaisesTransient, SetupFails, FailureUnrecorded, Crash
<1>4. QED
  BY <1>1, <1>2, <1>3

\* A row goes to "queued" by Create, uncounted, or by RetryWrite, within budget.
LEMMA QueuedWithinBudgetStep ==
  ASSUME TypeOK, RowsExist, QueuedWithinBudget, [Next]_vars
  PROVE  QueuedWithinBudget'
<1> USE QueueAssumption DEF Consumers, MaxRetries
<1> USE DEF TypeOK, Message, JobStatus, ConsumerPC, RowsExist, QueuedWithinBudget
<1> USE DEF rowVars, taskVars, limitVars, histVars
<1>1. ASSUME NEW j \in Jobs, Create(j)
      PROVE  QueuedWithinBudget'
  BY <1>1 DEF Create, SetStatus
<1>2. ASSUME NEW j \in Jobs, Dispatch(j)
      PROVE  QueuedWithinBudget'
  BY <1>2 DEF Dispatch
<1>3. ASSUME NEW j \in Jobs, DispatchFails(j)
      PROVE  QueuedWithinBudget'
  BY <1>3 DEF DispatchFails, SetStatus
<1>4. ASSUME NEW j \in Jobs, DispatcherDies(j)
      PROVE  QueuedWithinBudget'
  BY <1>4 DEF DispatcherDies, Fault
<1>5. ASSUME NEW j \in Jobs, CancelJob(j)
      PROVE  QueuedWithinBudget'
  BY <1>5 DEF CancelJob, SetStatus
<1>6. ASSUME NEW j \in Jobs, NEW c \in Callers, RunNow(c, j)
      PROVE  QueuedWithinBudget'
  BY <1>6 DEF RunNow, Take
<1>7. ASSUME NEW j \in Jobs, NEW c \in Callers, RetryJob(c, j)
      PROVE  QueuedWithinBudget'
  BY <1>7 DEF RetryJob
<1>8. ASSUME NEW w \in Workers, Deliver(w)
      PROVE  QueuedWithinBudget'
  BY <1>8 DEF Deliver, Take
<1>9. ASSUME NEW w \in Workers, Requeue(w)
      PROVE  QueuedWithinBudget'
  BY <1>9 DEF Requeue, Goto
<1>10. ASSUME NEW w \in Workers, Republish(w)
      PROVE  QueuedWithinBudget'
  BY <1>10 DEF Republish, Release
<1>11. ASSUME NEW c \in Consumers, Claim(c)
      PROVE  QueuedWithinBudget'
  BY <1>11 DEF Claim, Goto
<1>12. ASSUME NEW c \in Consumers, Decline(c)
      PROVE  QueuedWithinBudget'
  BY <1>12 DEF Decline, Release
<1>13. ASSUME NEW c \in Consumers, MarkRunning(c)
      PROVE  QueuedWithinBudget'
  BY <1>13 DEF MarkRunning, Goto, SetStatus
<1>14. ASSUME NEW c \in Consumers, RetryWrite(c)
      PROVE  QueuedWithinBudget'
  BY <1>14 DEF RetryWrite, WriteRetry, SetStatus, Goto, Release
<1>15. ASSUME NEW c \in Consumers, BodyReturns(c)
      PROVE  QueuedWithinBudget'
  BY <1>15 DEF BodyReturns, SetStatus, Release
<1>16. ASSUME NEW c \in Consumers, BodyRaisesPermanent(c)
      PROVE  QueuedWithinBudget'
  BY <1>16 DEF BodyRaisesPermanent, SetStatus, Release
<1>17. ASSUME NEW c \in Consumers, BodyRaisesTransient(c)
      PROVE  QueuedWithinBudget'
  BY <1>17 DEF BodyRaisesTransient, SetStatus, Escape, Goto, Release
<1>18. ASSUME NEW c \in Consumers, SetupFails(c)
      PROVE  QueuedWithinBudget'
  BY <1>18 DEF SetupFails, Fault, Escape, Goto, Release
<1>19. ASSUME NEW c \in Consumers, FailureUnrecorded(c)
      PROVE  QueuedWithinBudget'
  BY <1>19 DEF FailureUnrecorded, Fault, Escape, Goto, Release
<1>20. ASSUME NEW c \in Consumers, Crash(c)
      PROVE  QueuedWithinBudget'
  BY <1>20 DEF Crash, Fault, Release
<1>21. CASE UNCHANGED vars
  BY <1>21 DEF vars
<1>22. QED
  BY <1>1, <1>2, <1>3, <1>4, <1>5, <1>6, <1>7, <1>8, <1>9, <1>10, <1>11,
     <1>12, <1>13, <1>14, <1>15, <1>16, <1>17, <1>18, <1>19, <1>20, <1>21 DEF
     Next, HandlerStep, WorkerStep, Progress, FaultStep

\* Only MarkRunning writes "running"; who leaves the body writes another status
\* or has the job recorded as abandoned.
LEMMA RunningIsAttendedStep ==
  ASSUME TypeOK, RunningIsAttended, [Next]_vars
  PROVE  RunningIsAttended'
<1> USE QueueAssumption DEF Consumers, MaxRetries
<1> USE DEF TypeOK, Message, JobStatus, ConsumerPC, RunningIsAttended
<1> USE DEF rowVars, taskVars, limitVars, histVars
<1>1. ASSUME NEW j \in Jobs, Create(j)
      PROVE  RunningIsAttended'
  BY <1>1 DEF Create, SetStatus
<1>2. ASSUME NEW j \in Jobs, Dispatch(j)
      PROVE  RunningIsAttended'
  BY <1>2 DEF Dispatch
<1>3. ASSUME NEW j \in Jobs, DispatchFails(j)
      PROVE  RunningIsAttended'
  BY <1>3 DEF DispatchFails, SetStatus
<1>4. ASSUME NEW j \in Jobs, DispatcherDies(j)
      PROVE  RunningIsAttended'
  BY <1>4 DEF DispatcherDies, Fault
<1>5. ASSUME NEW j \in Jobs, CancelJob(j)
      PROVE  RunningIsAttended'
  BY <1>5 DEF CancelJob, SetStatus
<1>6. ASSUME NEW j \in Jobs, NEW c \in Callers, RunNow(c, j)
      PROVE  RunningIsAttended'
  BY <1>6 DEF RunNow, Take
<1>7. ASSUME NEW j \in Jobs, NEW c \in Callers, RetryJob(c, j)
      PROVE  RunningIsAttended'
  BY <1>7 DEF RetryJob
<1>8. ASSUME NEW w \in Workers, Deliver(w)
      PROVE  RunningIsAttended'
  BY <1>8 DEF Deliver, Take
<1>9. ASSUME NEW w \in Workers, Requeue(w)
      PROVE  RunningIsAttended'
  BY <1>9 DEF Requeue, Goto
<1>10. ASSUME NEW w \in Workers, Republish(w)
      PROVE  RunningIsAttended'
  BY <1>10 DEF Republish, Release
<1>11. ASSUME NEW c \in Consumers, Claim(c)
      PROVE  RunningIsAttended'
  BY <1>11 DEF Claim, Goto
<1>12. ASSUME NEW c \in Consumers, Decline(c)
      PROVE  RunningIsAttended'
  BY <1>12 DEF Decline, Release
<1>13. ASSUME NEW c \in Consumers, MarkRunning(c)
      PROVE  RunningIsAttended'
  BY <1>13 DEF MarkRunning, Goto, SetStatus
<1>14. ASSUME NEW c \in Consumers, RetryWrite(c)
      PROVE  RunningIsAttended'
  BY <1>14 DEF RetryWrite, WriteRetry, SetStatus, Goto, Release
<1>15. ASSUME NEW c \in Consumers, BodyReturns(c)
      PROVE  RunningIsAttended'
  BY <1>15 DEF BodyReturns, SetStatus, Release
<1>16. ASSUME NEW c \in Consumers, BodyRaisesPermanent(c)
      PROVE  RunningIsAttended'
  BY <1>16 DEF BodyRaisesPermanent, SetStatus, Release
<1>17. ASSUME NEW c \in Consumers, BodyRaisesTransient(c)
      PROVE  RunningIsAttended'
  BY <1>17 DEF BodyRaisesTransient, SetStatus, Escape, Goto, Release
<1>18. ASSUME NEW c \in Consumers, SetupFails(c)
      PROVE  RunningIsAttended'
  BY <1>18 DEF SetupFails, Fault, Escape, Goto, Release
<1>19. ASSUME NEW c \in Consumers, FailureUnrecorded(c)
      PROVE  RunningIsAttended'
  BY <1>19 DEF FailureUnrecorded, Fault, Escape, Goto, Release
<1>20. ASSUME NEW c \in Consumers, Crash(c)
      PROVE  RunningIsAttended'
  BY <1>20 DEF Crash, Fault, Release
<1>21. CASE UNCHANGED vars
  BY <1>21 DEF vars
<1>22. QED
  BY <1>1, <1>2, <1>3, <1>4, <1>5, <1>6, <1>7, <1>8, <1>9, <1>10, <1>11,
     <1>12, <1>13, <1>14, <1>15, <1>16, <1>17, <1>18, <1>19, <1>20, <1>21 DEF
     Next, HandlerStep, WorkerStep, Progress, FaultStep

\* The initial states: no row, no message, nobody at work.
LEMMA InitIInv == Init => IInv
<1> SUFFICES ASSUME Init PROVE IInv
  OBVIOUS
<1> USE QueueAssumption DEF Init, Consumers, MaxRetries
<1>1. TypeOK
  BY DEF TypeOK, Message, JobStatus, ConsumerPC
<1>2. RowsExist /\ OneToken /\ AttemptsCounted
  BY DEF RowsExist, OneToken, OneWorkerPerJob, AttemptsCounted
<1>3. AutomaticAttemptsBounded /\ QueuedWithinBudget /\ RunningIsAttended
  BY DEF AutomaticAttemptsBounded, QueuedWithinBudget, RunningIsAttended
<1>4. QED
  BY <1>1, <1>2, <1>3 DEF IInv

\* IInv is an invariant of the queue: it holds of the initial states and the
\* lemmas above carry each conjunct over every step.
THEOREM Invariance == Spec => []IInv
<1>1. IInv /\ [Next]_vars => IInv'
  BY TypeStep, RowsExistStep, OneTokenStep, AttemptsCountedStep,
     AutomaticAttemptsBoundedStep, QueuedWithinBudgetStep,
     RunningIsAttendedStep
     DEF IInv
<1>2. QED
  BY InitIInv, <1>1, PTL DEF Spec

\* Every variable keeps its type, whatever the number of jobs and consumers.
THEOREM TypeCorrect == Spec => []TypeOK
<1>1. IInv => TypeOK
  BY DEF IInv
<1>2. QED
  BY Invariance, <1>1, PTL

\* No two workers ever hold the same job: process_queue_job runs in one worker
\* process at a time for each row.
THEOREM WorkersApart == Spec => []OneWorkerPerJob
<1>1. IInv => OneWorkerPerJob
  BY DEF IInv, OneToken
<1>2. QED
  BY Invariance, <1>1, PTL

\* Workers start the body of a job at most four times, however retries by hand,
\* cancellations, runs by the API and crashes interleave with them.
THEOREM AttemptsBounded == Spec => []AutomaticAttemptsBounded
<1>1. IInv => AutomaticAttemptsBounded
  BY DEF IInv
<1>2. QED
  BY Invariance, <1>1, PTL

\* A row with more than three retries is not queued, even when a retry by hand
\* and a worker's retry write the row from the same read.
THEOREM QueuedBudget == Spec => []QueuedWithinBudget
<1>1. IInv => QueuedWithinBudget
  BY DEF IInv
<1>2. QED
  BY Invariance, <1>1, PTL

\* Only a fault leaves a row "running" with nobody in its body.
THEOREM RunningAttended == Spec => []RunningIsAttended
<1>1. IInv => RunningIsAttended
  BY DEF IInv
<1>2. QED
  BY Invariance, <1>1, PTL

\* A canceled or succeeded row that no consumer has claimed and no handler is
\* about to publish is never written again: every writer passes through a read
\* of the row that refuses it.
THEOREM TerminalStays == Spec => TerminalIsFinal
<1> DEFINE Kept == \A j \in Jobs :
              status[j] \in {"canceled", "succeeded"} /\ Unclaimed(j)
                => status'[j] = status[j] /\ Unclaimed(j)'
<1>1. ASSUME TypeOK, [Next]_vars, NEW j \in Jobs,
             status[j] \in {"canceled", "succeeded"}, Unclaimed(j)
      PROVE  status'[j] = status[j] /\ Unclaimed(j)'
  <2> USE <1>1, QueueAssumption DEF Consumers, MaxRetries, Unclaimed
  <2> USE DEF TypeOK, Message, JobStatus, ConsumerPC, rowVars, taskVars
  <2>1. ASSUME NEW i \in Jobs, Create(i)
        PROVE  status'[j] = status[j] /\ Unclaimed(j)'
    BY <2>1 DEF Create, SetStatus
  <2>2. ASSUME NEW i \in Jobs, Dispatch(i)
        PROVE  status'[j] = status[j] /\ Unclaimed(j)'
    BY <2>2 DEF Dispatch
  <2>3. ASSUME NEW i \in Jobs, DispatchFails(i)
        PROVE  status'[j] = status[j] /\ Unclaimed(j)'
    BY <2>3 DEF DispatchFails, SetStatus
  <2>4. ASSUME NEW i \in Jobs, DispatcherDies(i)
        PROVE  status'[j] = status[j] /\ Unclaimed(j)'
    BY <2>4 DEF DispatcherDies, Fault
  <2>5. ASSUME NEW i \in Jobs, CancelJob(i)
        PROVE  status'[j] = status[j] /\ Unclaimed(j)'
    BY <2>5 DEF CancelJob, SetStatus
  <2>6. ASSUME NEW i \in Jobs, NEW c \in Callers, RunNow(c, i)
        PROVE  status'[j] = status[j] /\ Unclaimed(j)'
    BY <2>6 DEF RunNow, Take
  <2>7. ASSUME NEW i \in Jobs, NEW c \in Callers, RetryJob(c, i)
        PROVE  status'[j] = status[j] /\ Unclaimed(j)'
    BY <2>7 DEF RetryJob
  <2>8. ASSUME NEW w \in Workers, Deliver(w)
        PROVE  status'[j] = status[j] /\ Unclaimed(j)'
    BY <2>8 DEF Deliver, Take
  <2>9. ASSUME NEW w \in Workers, Requeue(w)
        PROVE  status'[j] = status[j] /\ Unclaimed(j)'
    BY <2>9 DEF Requeue, Goto
  <2>10. ASSUME NEW w \in Workers, Republish(w)
        PROVE  status'[j] = status[j] /\ Unclaimed(j)'
    BY <2>10 DEF Republish, Release
  <2>11. ASSUME NEW c \in Consumers, Claim(c)
        PROVE  status'[j] = status[j] /\ Unclaimed(j)'
    BY <2>11 DEF Claim, Goto
  <2>12. ASSUME NEW c \in Consumers, Decline(c)
        PROVE  status'[j] = status[j] /\ Unclaimed(j)'
    BY <2>12 DEF Decline, Release
  <2>13. ASSUME NEW c \in Consumers, MarkRunning(c)
        PROVE  status'[j] = status[j] /\ Unclaimed(j)'
    BY <2>13 DEF MarkRunning, Goto, SetStatus
  <2>14. ASSUME NEW c \in Consumers, RetryWrite(c)
        PROVE  status'[j] = status[j] /\ Unclaimed(j)'
    BY <2>14 DEF RetryWrite, WriteRetry, SetStatus, Goto, Release
  <2>15. ASSUME NEW c \in Consumers, BodyReturns(c)
        PROVE  status'[j] = status[j] /\ Unclaimed(j)'
    BY <2>15 DEF BodyReturns, SetStatus, Release
  <2>16. ASSUME NEW c \in Consumers, BodyRaisesPermanent(c)
        PROVE  status'[j] = status[j] /\ Unclaimed(j)'
    BY <2>16 DEF BodyRaisesPermanent, SetStatus, Release
  <2>17. ASSUME NEW c \in Consumers, BodyRaisesTransient(c)
        PROVE  status'[j] = status[j] /\ Unclaimed(j)'
    BY <2>17 DEF BodyRaisesTransient, SetStatus, Escape, Goto, Release
  <2>18. ASSUME NEW c \in Consumers, SetupFails(c)
        PROVE  status'[j] = status[j] /\ Unclaimed(j)'
    BY <2>18 DEF SetupFails, Fault, Escape, Goto, Release
  <2>19. ASSUME NEW c \in Consumers, FailureUnrecorded(c)
        PROVE  status'[j] = status[j] /\ Unclaimed(j)'
    BY <2>19 DEF FailureUnrecorded, Fault, Escape, Goto, Release
  <2>20. ASSUME NEW c \in Consumers, Crash(c)
        PROVE  status'[j] = status[j] /\ Unclaimed(j)'
    BY <2>20 DEF Crash, Fault, Release
  <2>21. CASE UNCHANGED vars
    BY <2>21 DEF vars
  <2>22. QED
    BY <2>1, <2>2, <2>3, <2>4, <2>5, <2>6, <2>7, <2>8, <2>9, <2>10, <2>11,
       <2>12, <2>13, <2>14, <2>15, <2>16, <2>17, <2>18, <2>19, <2>20, <2>21 DEF
       Next, HandlerStep, WorkerStep, Progress, FaultStep
<1>2. TypeOK /\ [Next]_vars => [Kept]_vars
  BY <1>1
<1>3. QED
  BY TypeCorrect, <1>2, PTL DEF Spec, TerminalIsFinal

-----------------------------------------------------------------------------
(* No job is forgotten: what can be said of coming to rest without fairness. *)

\* Nothing has failed and nobody has retried a job by hand.
Calm == faults = 0 /\ manualRetries = 0

\* Somebody will publish the job, a message carries it, or a consumer works on it
\* (an API thread that has not begun its body may still decline).
Attended(j) ==
  \/ j \in undispatched
  \/ \E m \in messages : m.job = j
  \/ \E c \in Consumers :
       holds[c] = j /\ pc[c] # "idle" /\ (c \in Callers => pc[c] = "running")

\* No dispatched job is forgotten: while it is not at rest, its handler, its
\* message or a consumer is there for it.
NotForgotten ==
  \A j \in Jobs :
    /\ Calm
    /\ Kind[j] # "local_rerun"
    /\ status[j] \in {"queued", "running"}
    => Attended(j)

\* A queued row has the message, or the worker, whose count is its own.
CountsAgree ==
  /\ \A c \in Callers : pc[c] # "retrying"
  /\ \A j \in undispatched : retryCount[j] = 0
  /\ \A m \in messages : status[m.job] = "queued" => retryCount[m.job] = m.retries
  /\ \A w \in Workers :
       /\ pc[w] = "delivered" /\ status[holds[w]] = "queued" => retryCount[holds[w]] = tries[w]
       /\ pc[w] \in {"claimed", "running", "raised"} => retryCount[holds[w]] = tries[w]
       /\ pc[w] = "raised" => status[holds[w]] # "queued"
       /\ pc[w] = "retrying" => seen[w] = tries[w]
       /\ pc[w] = "requeued" /\ status[holds[w]] = "queued" =>
            retryCount[holds[w]] = tries[w] + 1

\* A queued row that is published has its message, or a worker that has it.
QueuedCarried ==
  \A j \in Jobs :
    Kind[j] # "local_rerun" /\ status[j] = "queued" =>
      \/ j \in undispatched
      \/ \E m \in messages : m.job = j
      \/ \E w \in Workers : pc[w] # "idle" /\ holds[w] = j

CalmInv == Calm => CountsAgree /\ QueuedCarried /\ abandoned = {}

\* The steps that are neither faults nor retries by hand.
CalmStep ==
  \/ \E i \in Jobs : \/ Create(i) \/ Dispatch(i) \/ DispatchFails(i) \/ CancelJob(i)
                    \/ \E c \in Callers : RunNow(c, i)
  \/ \E w \in Workers : WorkerStep(w)
  \/ \E c \in Consumers : Progress(c)
  \/ UNCHANGED vars

LEMMA CalmSteps ==
  ASSUME IInv, [Next]_vars, Calm'
  PROVE  Calm /\ CalmStep /\ abandoned' = abandoned
<1>. USE DEF IInv, TypeOK, Calm, rowVars, taskVars, limitVars, histVars
<1>1. ASSUME Fault PROVE FALSE
  BY <1>1 DEF Fault
<1>2. ASSUME NEW i \in Jobs, HandlerStep(i)
      PROVE  Calm /\ CalmStep /\ abandoned' = abandoned
  <2>1. ~DispatcherDies(i) /\ \A c \in Callers : ~RetryJob(c, i)
    BY <1>1 DEF DispatcherDies, RetryJob
  <2>. QED
    BY <1>2, <2>1 DEF HandlerStep, CalmStep, Create, Dispatch, DispatchFails, CancelJob, RunNow
<1>3. ASSUME NEW w \in Workers, WorkerStep(w)
      PROVE  Calm /\ CalmStep /\ abandoned' = abandoned
  BY <1>3 DEF WorkerStep, CalmStep, Deliver, Requeue, Republish
<1>4. ASSUME NEW c \in Consumers, Progress(c)
      PROVE  Calm /\ CalmStep /\ abandoned' = abandoned
  BY <1>4 DEF Progress, CalmStep, Claim, Decline, MarkRunning, RetryWrite, BodyReturns,
     BodyRaisesPermanent, BodyRaisesTransient
<1>5. \A c \in Consumers : ~FaultStep(c)
  BY <1>1 DEF FaultStep, SetupFails, FailureUnrecorded, Crash
<1>6. CASE UNCHANGED vars
  BY <1>6 DEF vars, CalmStep
<1>. QED
  BY <1>2, <1>3, <1>4, <1>5, <1>6 DEF Next

LEMMA CountsAgreeStep ==
  ASSUME IInv, Calm, CountsAgree, CalmStep
  PROVE  CountsAgree'
<1>. USE QueueAssumption DEF Consumers, MaxRetries, IInv, RowsExist, OneToken, OneWorkerPerJob
<1>. USE DEF TypeOK, Message, JobStatus, ConsumerPC, rowVars, taskVars, CountsAgree
<1>1. ASSUME NEW i \in Jobs, Create(i) PROVE CountsAgree'
  BY <1>1 DEF Create, SetStatus
<1>2. ASSUME NEW i \in Jobs, Dispatch(i) PROVE CountsAgree'
  BY <1>2 DEF Dispatch
<1>3. ASSUME NEW i \in Jobs, DispatchFails(i) PROVE CountsAgree'
  BY <1>3 DEF DispatchFails, SetStatus
<1>4. ASSUME NEW i \in Jobs, CancelJob(i) PROVE CountsAgree'
  BY <1>4 DEF CancelJob, SetStatus
<1>5. ASSUME NEW i \in Jobs, NEW c \in Callers, RunNow(c, i) PROVE CountsAgree'
  BY <1>5 DEF RunNow, Take
<1>6. ASSUME NEW w \in Workers, Deliver(w) PROVE CountsAgree'
  BY <1>6 DEF Deliver, Take
<1>7. ASSUME NEW w \in Workers, Requeue(w) PROVE CountsAgree'
  BY <1>7 DEF Requeue, Goto
<1>8. ASSUME NEW w \in Workers, Republish(w) PROVE CountsAgree'
  BY <1>8 DEF Republish, Release
<1>9. ASSUME NEW c \in Consumers, Claim(c) PROVE CountsAgree'
  BY <1>9 DEF Claim, Goto
<1>10. ASSUME NEW c \in Consumers, Decline(c) PROVE CountsAgree'
  BY <1>10 DEF Decline, Release
<1>11. ASSUME NEW c \in Consumers, MarkRunning(c) PROVE CountsAgree'
  BY <1>11 DEF MarkRunning, Goto, SetStatus
<1>12. ASSUME NEW c \in Consumers, RetryWrite(c) PROVE CountsAgree'
  BY <1>12 DEF RetryWrite, WriteRetry, SetStatus, Goto, Release
<1>13. ASSUME NEW c \in Consumers, BodyReturns(c) PROVE CountsAgree'
  BY <1>13 DEF BodyReturns, SetStatus, Release
<1>14. ASSUME NEW c \in Consumers, BodyRaisesPermanent(c) PROVE CountsAgree'
  BY <1>14 DEF BodyRaisesPermanent, SetStatus, Release
<1>15. ASSUME NEW c \in Consumers, BodyRaisesTransient(c) PROVE CountsAgree'
  BY <1>15 DEF BodyRaisesTransient, SetStatus, Escape, Goto, Release
<1>16. CASE UNCHANGED vars
  BY <1>16 DEF vars
<1>. QED
  BY <1>1, <1>2, <1>3, <1>4, <1>5, <1>6, <1>7, <1>8, <1>9, <1>10, <1>11, <1>12, <1>13, <1>14, <1>15, <1>16 DEF CalmStep, WorkerStep, Progress

LEMMA QueuedCarriedStep ==
  ASSUME IInv, Calm, CountsAgree, QueuedWithinBudget, QueuedCarried, CalmStep
  PROVE  QueuedCarried'
<1>. USE QueueAssumption DEF Consumers, MaxRetries, IInv, RowsExist, OneToken, OneWorkerPerJob
<1>. USE DEF TypeOK, Message, JobStatus, ConsumerPC, rowVars, taskVars, QueuedCarried
<1>1. ASSUME NEW i \in Jobs, Create(i) PROVE QueuedCarried'
  BY <1>1 DEF Create, SetStatus
<1>2. ASSUME NEW i \in Jobs, Dispatch(i) PROVE QueuedCarried'
  <2>1. /\ [job |-> i, retries |-> 0] \in messages' /\ messages \subseteq messages'
        /\ undispatched' = undispatched \ {i}
        /\ UNCHANGED <<status, pc, holds>>
    BY <1>2 DEF Dispatch
  <2>2. \E m \in messages' : m.job = i
    BY <2>1
  <2>. QED
    BY <2>1, <2>2
<1>3. ASSUME NEW i \in Jobs, DispatchFails(i) PROVE QueuedCarried'
  BY <1>3 DEF DispatchFails, SetStatus
<1>4. ASSUME NEW i \in Jobs, CancelJob(i) PROVE QueuedCarried'
  BY <1>4 DEF CancelJob, SetStatus
<1>5. ASSUME NEW i \in Jobs, NEW c \in Callers, RunNow(c, i) PROVE QueuedCarried'
  BY <1>5 DEF RunNow, Take
<1>6. ASSUME NEW w \in Workers, Deliver(w) PROVE QueuedCarried'
  BY <1>6 DEF Deliver, Take
<1>7. ASSUME NEW w \in Workers, Requeue(w) PROVE QueuedCarried'
  BY <1>7 DEF Requeue, Goto
<1>8. ASSUME NEW w \in Workers, Republish(w) PROVE QueuedCarried'
  <2>. DEFINE m == [job |-> holds[w], retries |-> tries[w] + 1]
  <2>1. /\ pc[w] = "requeued" /\ holds[w] \in Jobs /\ messages \subseteq messages'
        /\ tries[w] < MaxRetries => m \in messages'
        /\ UNCHANGED <<status, undispatched>>
        /\ \A c \in Consumers \ {w} : pc'[c] = pc[c] /\ holds'[c] = holds[c]
    BY <1>8 DEF Republish, Release
  <2>2. status[holds[w]] = "queued" => tries[w] < MaxRetries
    BY <2>1 DEF CountsAgree, QueuedWithinBudget
  <2>3. m.job = holds[w]
    OBVIOUS
  <2>. HIDE DEF m
  <2>. QED
    BY <2>1, <2>2, <2>3
<1>9. ASSUME NEW c \in Consumers, Claim(c) PROVE QueuedCarried'
  BY <1>9 DEF Claim, Goto
<1>10. ASSUME NEW c \in Consumers, Decline(c) PROVE QueuedCarried'
  BY <1>10 DEF Decline, Release
<1>11. ASSUME NEW c \in Consumers, MarkRunning(c) PROVE QueuedCarried'
  BY <1>11 DEF MarkRunning, Goto, SetStatus
<1>12. ASSUME NEW c \in Consumers, RetryWrite(c) PROVE QueuedCarried'
  <2>1. c \in Workers
    BY <1>12 DEF RetryWrite, CountsAgree
  <2>2. /\ pc[c] = "retrying" /\ pc' = [pc EXCEPT ![c] = "requeued"] /\ holds' = holds
        /\ UNCHANGED <<undispatched, messages>>
        /\ \A j \in Jobs \ {holds[c]} : status'[j] = status[j]
    BY <1>12, <2>1 DEF RetryWrite, WriteRetry, SetStatus, Goto
  <2>. QED
    BY <2>1, <2>2
<1>13. ASSUME NEW c \in Consumers, BodyReturns(c) PROVE QueuedCarried'
  BY <1>13 DEF BodyReturns, SetStatus, Release
<1>14. ASSUME NEW c \in Consumers, BodyRaisesPermanent(c) PROVE QueuedCarried'
  BY <1>14 DEF BodyRaisesPermanent, SetStatus, Release
<1>15. ASSUME NEW c \in Consumers, BodyRaisesTransient(c) PROVE QueuedCarried'
  BY <1>15 DEF BodyRaisesTransient, SetStatus, Escape, Goto, Release
<1>16. CASE UNCHANGED vars
  BY <1>16 DEF vars
<1>. QED
  BY <1>1, <1>2, <1>3, <1>4, <1>5, <1>6, <1>7, <1>8, <1>9, <1>10, <1>11, <1>12, <1>13, <1>14, <1>15, <1>16 DEF CalmStep, WorkerStep, Progress


LEMMA CalmInvStep == IInv /\ CalmInv /\ [Next]_vars => CalmInv'
<1>. SUFFICES ASSUME IInv, CalmInv, [Next]_vars, Calm' PROVE CalmInv'
  BY DEF CalmInv
<1>1. Calm /\ CalmStep /\ abandoned' = abandoned
  BY CalmSteps
<1>2. CountsAgree /\ QueuedCarried /\ QueuedWithinBudget /\ abandoned = {}
  BY <1>1 DEF CalmInv, IInv
<1>. QED
  BY <1>1, <1>2, CountsAgreeStep, QueuedCarriedStep DEF CalmInv

\* While nothing fails and nobody retries by hand, a dispatched job that is not at
\* rest has a handler that will publish it, a message, a worker or somebody in its
\* body: a worker gives a queued row back only with a message, since the retries
\* of the row and of its message are the same number.
THEOREM NotForgottenHolds == Spec => []NotForgotten
<1>1. Init => CalmInv
  BY QueueAssumption DEF Init, CalmInv, CountsAgree, QueuedCarried, Consumers
<1>2. IInv /\ CalmInv => NotForgotten
  <2>. SUFFICES ASSUME IInv, CalmInv, NEW j \in Jobs, Calm, Kind[j] # "local_rerun",
                       status[j] \in {"queued", "running"}
                PROVE  Attended(j)
    BY DEF NotForgotten
  <2>1. CASE status[j] = "queued"
    BY <2>1, QueueAssumption DEF CalmInv, QueuedCarried, Attended, Consumers
  <2>2. CASE status[j] = "running"
    BY <2>2 DEF CalmInv, IInv, RunningIsAttended, Attended
  <2>. QED
    BY <2>1, <2>2
<1>. QED
  BY <1>1, <1>2, Invariance, CalmInvStep, PTL DEF Spec
=============================================================================
