--------------------------- MODULE MCModelGateway ---------------------------
(* Small instances of ModelGateway for TLC.                                *)
EXTENDS ModelGateway, TLC

CONSTANTS c1, c2, c3

CallerSymmetry == Permutations({c1, c2, c3})
=============================================================================
