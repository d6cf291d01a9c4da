---------------------------- MODULE MCAuditRound ----------------------------
(* Small instances of AuditRound for TLC.                                  *)
EXTENDS AuditRound, TLC

CONSTANTS k1, k2, r1, r2, w1, w2, h1, h2

\* Rules, runs and workers are interchangeable.
AuditSymmetry ==
  Permutations({k1, k2}) \cup Permutations({r1, r2}) \cup Permutations({w1, w2})
=============================================================================
