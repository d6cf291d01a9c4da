\* A job run again, a local rerun during an audit, two attempts at one execution that overlap
\* (AttemptsNumbered), two starts that overlap (OneActiveAudit); each property is refuted by itself.
SPECIFICATION Spec
CONSTANTS
  k1 = k1
  k2 = k2
  r1 = r1
  r2 = r2
  w1 = w1
  w2 = w2
  h1 = h1
  h2 = h2
  NoRun = NoRun
  NoRule = NoRule
  Rules = {k1, k2}
  Runs = {r1, r2}
  Workers = {w1}
  Handlers = {h1, h2}
  Requests = {"start", "rejob", "rerun", "run"}
  MaxRounds = 1
  MaxRequests = 2
  MaxFaults = 0
  SerialStore = FALSE
INVARIANTS
  SucceededRunIsClean
  AttemptsNumbered
  OneActiveAudit
PROPERTY ExpiredOpensNothing
\* The system stops when the requests are used up.
CHECK_DEADLOCK FALSE
