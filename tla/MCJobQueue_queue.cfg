\* Two jobs, two workers and an API thread; two faults and two retries by hand.
SPECIFICATION FairSpec
CONSTANTS
  j1 = j1
  j2 = j2
  w1 = w1
  w2 = w2
  NoJob = NoJob
  Jobs = {j1, j2}
  Workers = {w1, w2}
  Callers = {a1}
  Kind <- AuditAndRerun
  MaxManualRetries = 2
  MaxFaults = 2
INVARIANTS
  OneWorkerPerJob
  AutomaticAttemptsBounded
  RunningIsAttended
PROPERTIES
  TerminalIsFinal
  EveryJobComesToRest
\* The system stops when every job is terminal.
CHECK_DEADLOCK FALSE
