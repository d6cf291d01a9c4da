\* No re-parse request, no fault: what a fair system owes to every file.
SPECIFICATION FairSpec
CONSTANTS
  j1 = j1
  j2 = j2
  j3 = j3
  w1 = w1
  w2 = w2
  h1 = h1
  h2 = h2
  NoJob = NoJob
  Jobs = {j1, j2, j3}
  Workers = {w1, w2}
  Handlers = {h1}
  Requests = {"replace", "delete", "run"}
  MaxVersion = 2
  MaxRequests = 2
  MaxFaults = 0
  SerialStore = TRUE
INVARIANT FileNotForgotten
PROPERTY ParseEnds
\* The system stops when the requests are used up.
CHECK_DEADLOCK FALSE
