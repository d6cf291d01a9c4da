\* What the code does not keep, each property refuted by itself: OneIssue by overlapping
\* transactions, the others also by transactions one after the other.
SPECIFICATION Spec
CONSTANTS
  e1 = e1
  e2 = e2
  e3 = e3
  Executions = {e1, e2}
  Severities = {"normal", "severe"}
  Conclusions = {"failed"}
  Evidence = {TRUE, FALSE}
  Corrections = TRUE
  SerialStore = FALSE
INVARIANTS
  OneIssue
  DisagreementFlagged
  EvidenceCounts
  AgreementIsNoConflict
PROPERTY SameResultKeepsDecision
