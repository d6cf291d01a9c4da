\* Calls that keep coming while the circuit is open.
SPECIFICATION FairSpec
CONSTANTS
  c1 = c1
  c2 = c2
  c3 = c3
  Callers = {c1}
  MaxLimit = 2
  MaxAttempts = 2
  Threshold = 2
  Recovery = 2
PROPERTY WindowEnds
