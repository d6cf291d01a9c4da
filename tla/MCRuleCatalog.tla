---------------------------- MODULE MCRuleCatalog ---------------------------
(* Small instances of RuleCatalog for TLC.                                 *)
EXTENDS RuleCatalog, TLC

CONSTANTS a, b, p1, p2, t1, t2

\* Two versions of each, which may depend on the other rule.
TwoOfEach == (a :> 2) @@ (b :> 2)

Circular == (a :> {{}, {b}}) @@ (b :> {{}, {a}})

\* Two versions of a single rule.
TwoOfOne == a :> 2

Independent == a :> {{}}

ThreadSymmetry == Permutations({t1, t2})
=============================================================================
