---------------------------- MODULE MCIssueMerge ----------------------------
(* Small instances of IssueMerge for TLC.                                  *)
EXTENDS IssueMerge, TLC

CONSTANTS e1, e2, e3

ExecutionSymmetry == Permutations({e1, e2, e3})
=============================================================================
