----------------------------- MODULE MCDemoStore -----------------------------
(* Small instances of DemoStore for TLC.                                    *)
EXTENDS DemoStore, TLC

CONSTANTS j1, j2, t1, t2, k1, k2, r1, r2

\* Two versions of a rule that is there, one of a rule that is created; each may
\* depend on the other.
RuleVersions == (r1 :> 2) @@ (r2 :> 1)

RuleDepends == (r1 :> {{}, {r2}}) @@ (r2 :> {{}, {r1}})

Symmetric ==
  Permutations({j1, j2}) \cup Permutations({t1, t2}) \cup Permutations({k1, k2})
=============================================================================
