\* A local rerun, or an execution put back after its run: each property by
\* itself is refuted.
SPECIFICATION FairSpec
CONSTANTS
  k1 = k1
  k2 = k2
  r1 = r1
  r2 = r2
  w1 = w1
  w2 = w2
  h1 = h1
  h2 = h2
  NoRun = NoRun
  NoRule = NoRule
  Rules = {k1, k2}
  Runs = {r1}
  Workers = {w1}
  Handlers = {h1, h2}
  Requests = {"start", "rerun", "retry"}
  MaxRounds = 1
  MaxRequests = 2
  MaxFaults = 0
  SerialStore = TRUE
PROPERTIES LocalRerunEnds RetriedExecutionEnds
\* The system stops when the requests are used up.
CHECK_DEADLOCK FALSE
