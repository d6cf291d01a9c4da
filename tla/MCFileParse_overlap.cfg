\* Read committed: a replacement, a deletion or a second parse during a parse;
\* each property is refuted.
SPECIFICATION Spec
CONSTANTS
  j1 = j1
  j2 = j2
  j3 = j3
  w1 = w1
  w2 = w2
  h1 = h1
  h2 = h2
  NoJob = NoJob
  Jobs = {j1, j2, j3}
  Workers = {w1, w2}
  Handlers = {h1, h2}
  Requests = {"replace", "delete", "retry"}
  MaxVersion = 2
  MaxRequests = 2
  MaxFaults = 1
  SerialStore = FALSE
SYMMETRY ActorSymmetry
INVARIANTS ParsedIsCurrent OneParse
PROPERTY DeletedIsFinal
\* The system stops when the requests are used up.
CHECK_DEADLOCK FALSE
