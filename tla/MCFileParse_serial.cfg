\* Two of any requests, two workers, one fault, serializable transactions.
SPECIFICATION Spec
CONSTANTS
  j1 = j1
  j2 = j2
  j3 = j3
  w1 = w1
  w2 = w2
  h1 = h1
  h2 = h2
  NoJob = NoJob
  Jobs = {j1, j2, j3}
  Workers = {w1, w2}
  Handlers = {h1, h2}
  Requests = {"replace", "delete", "retry", "review", "revise", "run"}
  MaxVersion = 2
  MaxRequests = 2
  MaxFaults = 1
  SerialStore = TRUE
SYMMETRY ActorSymmetry
INVARIANTS
  ParsedIsCurrent
  UndisturbedPagesServed
PROPERTY ImplementsTaskFile
\* The system stops when the requests are used up.
CHECK_DEADLOCK FALSE
