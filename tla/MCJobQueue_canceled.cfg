\* The documented rules about canceled jobs and jobs retried by hand, without any fault; each
\* property is refuted by itself.
SPECIFICATION FairSpec
CONSTANTS
  j1 = j1
  j2 = j2
  w1 = w1
  w2 = w2
  NoJob = NoJob
  Jobs = {j1}
  Workers = {w1}
  Callers = {a1}
  Kind <- AuditOnly
  MaxManualRetries = 1
  MaxFaults = 0
PROPERTIES
  CanceledIsTerminal
  RetriedJobRuns
CHECK_DEADLOCK FALSE
