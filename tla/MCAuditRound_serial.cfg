\* Three of any requests, two workers, two runs, two rounds, one fault, serializable transactions.
SPECIFICATION Spec
CONSTANTS
  k1 = k1
  k2 = k2
  r1 = r1
  r2 = r2
  w1 = w1
  w2 = w2
  h1 = h1
  h2 = h2
  NoRun = NoRun
  NoRule = NoRule
  Rules = {k1, k2}
  Runs = {r1, r2}
  Workers = {w1, w2}
  Handlers = {h1}
  Requests = {"start", "rerun", "retry", "run", "report", "cancel", "rejob",
              "runjob", "decide", "draft", "publish", "round"}
  MaxRounds = 2
  MaxRequests = 3
  MaxFaults = 1
  SerialStore = TRUE
SYMMETRY AuditSymmetry
INVARIANTS
  DoneRunIsClosed
  AuditNotForgotten
  SucceededJobTriedAll
\* The system stops when the requests are used up.
CHECK_DEADLOCK FALSE
