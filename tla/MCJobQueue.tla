----------------------------- MODULE MCJobQueue -----------------------------
(* Small instances of JobQueue for TLC.                                    *)
EXTENDS JobQueue, TLC

CONSTANTS j1, j2, w1, w2

\* One job of a kind whose body may report a failure, one that no worker can run.
AuditAndRerun == (j1 :> "audit") @@ (j2 :> "local_rerun")

AuditOnly == [j \in {j1} |-> "audit"]

\* Workers are interchangeable: no formula names one.
WorkerSymmetry == Permutations({w1, w2})
=============================================================================
