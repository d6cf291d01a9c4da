\* A re-parse requested just as a parse ends.
SPECIFICATION FairSpec
CONSTANTS
  j1 = j1
  j2 = j2
  j3 = j3
  w1 = w1
  w2 = w2
  h1 = h1
  h2 = h2
  NoJob = NoJob
  Jobs = {j1, j2}
  Workers = {w1}
  Handlers = {h1}
  Requests = {"retry"}
  MaxVersion = 1
  MaxRequests = 1
  MaxFaults = 0
  SerialStore = TRUE
PROPERTY ParseEnds
\* The system stops when the requests are used up.
CHECK_DEADLOCK FALSE
