\* Three executions, two severities, with and without evidence, corrections.
SPECIFICATION Spec
CONSTANTS
  e1 = e1
  e2 = e2
  e3 = e3
  Executions = {e1, e2, e3}
  Severities = {"normal", "severe"}
  Conclusions = {"failed"}
  Evidence = {TRUE, FALSE}
  Corrections = TRUE
  SerialStore = TRUE
SYMMETRY ExecutionSymmetry
INVARIANTS
  FlaggedUnlessCorrected
  MergedWithEvidence
