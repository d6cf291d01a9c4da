\* A second parse that fails, a block revised after the review; each property is refuted.
SPECIFICATION Spec
CONSTANTS
  j1 = j1
  j2 = j2
  j3 = j3
  w1 = w1
  w2 = w2
  h1 = h1
  h2 = h2
  NoJob = NoJob
  Jobs = {j1, j2, j3}
  Workers = {w1}
  Handlers = {h1}
  Requests = {"retry", "review", "revise"}
  MaxVersion = 1
  MaxRequests = 2
  MaxFaults = 1
  SerialStore = TRUE
SYMMETRY ActorSymmetry
INVARIANT ListedPagesServed
PROPERTY AcceptedLocks
\* The system stops when the requests are used up.
CHECK_DEADLOCK FALSE
