---------------------------- MODULE MCFileParse -----------------------------
(* Small instances of FileParse for TLC.                                   *)
EXTENDS FileParse, TLC

CONSTANTS j1, j2, j3, w1, w2, h1, h2

\* Jobs, workers and API threads are interchangeable.
ActorSymmetry ==
  Permutations({j1, j2, j3}) \cup Permutations({w1, w2}) \cup Permutations({h1, h2})
=============================================================================
