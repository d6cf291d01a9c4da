\* Two threads, a limit of one or two, a circuit that opens at the second failure.
SPECIFICATION FairSpec
CONSTANTS
  c1 = c1
  c2 = c2
  c3 = c3
  Callers = {c1, c2}
  MaxLimit = 2
  MaxAttempts = 2
  Threshold = 2
  Recovery = 2
INVARIANT PermitsConserved
PROPERTIES OpenCircuitDrains CallEnds
