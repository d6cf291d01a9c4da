------------------------------- MODULE MCDesk -------------------------------
(* Small instances of Desk for TLC.                                        *)
EXTENDS Desk, TLC

CONSTANTS s1, v1, v2, t1, t2, x1, x2

\* Both versions belong to one standard.
OneStandard == (v1 :> s1) @@ (v2 :> s1)

Symmetric == Permutations({t1, t2}) \cup Permutations({x1, x2})
=============================================================================
