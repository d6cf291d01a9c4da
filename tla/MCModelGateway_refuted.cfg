\* The limit is lowered after the first call, an answer cannot be normalized;
\* each property is refuted.
SPECIFICATION Spec
CONSTANTS
  c1 = c1
  c2 = c2
  c3 = c3
  Callers = {c1, c2}
  MaxLimit = 2
  MaxAttempts = 2
  Threshold = 2
  Recovery = 2
PROPERTIES ConfiguredLimitHolds InvalidAnswerIsAnError
