----------------------------- MODULE IssueMerge -----------------------------
(***************************************************************************)
(* How the failed results of several executions of a round become one      *)
(* audit issue: the issue part of record_execution_attempt, with the       *)
(* decisions and corrections that reviewers make in between.               *)
(*                                                                         *)
(* All results here carry the same issue code.  A result is its severity,  *)
(* its conclusion and whether it cites customer and standard evidence;     *)
(* those of the executors conclude "failed".  The transaction looks for    *)
(* the issue and then writes; SerialStore is as in FileParse.              *)
(***************************************************************************)
EXTENDS Integers, FiniteSets

CONSTANTS
  Executions,   \* the rule executions that report the issue
  Severities,   \* the severities they may give it
  Conclusions,  \* the conclusions they may draw
  Evidence,     \* whether a result cites both kinds of evidence: part of BOOLEAN
  Corrections,  \* whether reviewers correct the severity
  SerialStore   \* whether transactions are serializable

\* What the store itself concludes when it merges; an executor never does.
OwnConclusions == {"unable_to_determine", "conflict_requires_review"}

ASSUME MergeAssumption ==
  /\ IsFiniteSet(Executions)
  /\ Severities # {}
  /\ Conclusions \cap OwnConclusions = {}
  /\ Evidence \subseteq BOOLEAN
  /\ Corrections \in BOOLEAN
  /\ SerialStore \in BOOLEAN

VARIABLES
  issue,     \* the audit_issue rows with the code
  source,    \* source[i][e]: the issue_source row of execution e under issue i
  said,      \* said[e]: the results that the attempts of e have recorded
  pc,        \* pc[e]: whether a transaction records an attempt of e
  result,    \* result[e]: the result it records
  snap,      \* snap[e]: the issue row it found
  corrected  \* history: whether a reviewer corrected a severity

vars == <<issue, source, said, pc, result, snap, corrected>>

\* As many rows as executions might insert.
Rows == 1..Cardinality(Executions)

Results == [severity : Severities, conclusion : Conclusions, evidence : Evidence]

NoResult == [severity |-> "none", conclusion |-> "none", evidence |-> FALSE]

IssueRow ==
  [status : {"absent", "open", "decided"},
   severity : Severities \cup {"none"},
   conclusion : Conclusions \cup OwnConclusions \cup {"none"}]

NoIssue == [status |-> "absent", severity |-> "none", conclusion |-> "none"]

NoSnap == [row |-> 0, issue |-> NoIssue]

SourceStatus == {"none", "active", "evidence_insufficient", "conflict"}

TypeOK ==
  /\ issue \in [Rows -> IssueRow]
  /\ source \in [Rows -> [Executions -> SourceStatus]]
  /\ said \in [Executions -> SUBSET Results]
  /\ pc \in [Executions -> {"idle", "merging"}]
  /\ result \in [Executions -> Results \cup {NoResult}]
  /\ snap \in [Executions -> [row : 0..Cardinality(Executions), issue : IssueRow]]
  /\ corrected \in BOOLEAN

Init ==
  /\ issue = [i \in Rows |-> NoIssue]
  /\ source = [i \in Rows |-> [e \in Executions |-> "none"]]
  /\ said = [e \in Executions |-> {}]
  /\ pc = [e \in Executions |-> "idle"]
  /\ result = [e \in Executions |-> NoResult]
  /\ snap = [e \in Executions |-> NoSnap]
  /\ corrected = FALSE

-----------------------------------------------------------------------------

Isolated(e) == SerialStore => \A f \in Executions \ {e} : pc[f] = "idle"

Existing == {i \in Rows : issue[i].status # "absent"}

\* The transaction looks for the issue; of several it takes any.
BeginMerge(e, res) ==
  /\ pc[e] = "idle"
  /\ Isolated(e)
  /\ pc' = [pc EXCEPT ![e] = "merging"]
  /\ result' = [result EXCEPT ![e] = res]
  /\ IF Existing = {}
       THEN snap' = [snap EXCEPT ![e] = NoSnap]
       ELSE \E i \in Existing : snap' = [snap EXCEPT ![e] = [row |-> i, issue |-> issue[i]]]
  /\ UNCHANGED <<issue, source, said, corrected>>

\* Mutant of Conflict: every further result is one.
AnyFurtherResult(old, res) == old.status # "absent"

\* is_conflict: the result differs from what the issue says by now.
Conflict(old, res) ==
  old.status # "absent" /\ (old.severity # res.severity \/ old.conclusion # res.conclusion)

\* Without evidence an open issue cannot be concluded on.
Conclusion(old, res) ==
  IF Conflict(old, res) THEN "conflict_requires_review"
  ELSE IF ~res.evidence /\ old.status # "decided" THEN "unable_to_determine"
  ELSE IF old.status = "absent" THEN res.conclusion
  ELSE old.conclusion

\* Mutant of Sources: only the new source is marked.
MarkNewSource(i, e, old, res) ==
  [source[i] EXCEPT ![e] =
     IF @ # "none" THEN @
     ELSE IF Conflict(old, res) THEN "conflict"
     ELSE IF res.evidence THEN "active" ELSE "evidence_insufficient"]

\* The sources of the issue: a conflict marks them all, and a source that is
\* there already is not changed by another result of its execution.
Sources(i, e, old, res) ==
  [f \in Executions |->
     IF Conflict(old, res) /\ (f = e \/ source[i][f] # "none") THEN "conflict"
     ELSE IF f = e /\ source[i][f] = "none"
       THEN IF res.evidence THEN "active" ELSE "evidence_insufficient"
     ELSE source[i][f]]

\* A column that keeps the value that was read is not written.
Column(read, new, now) == IF new = read THEN now ELSE new

WriteMerge(e) ==
  LET res == result[e]
      old == snap[e].issue
  IN
  /\ pc[e] = "merging"
  /\ \E i \in Rows :
       /\ IF snap[e].row = 0 THEN issue[i].status = "absent" ELSE i = snap[e].row
       /\ issue' = [issue EXCEPT ![i] =
            [status     |-> IF old.status = "absent" \/ Conflict(old, res)
                              THEN Column(old.status, "open", @.status) ELSE @.status,
             severity   |-> IF old.status = "absent" THEN res.severity ELSE @.severity,
             conclusion |-> Column(old.conclusion, Conclusion(old, res), @.conclusion)]]
       /\ source' = [source EXCEPT ![i] = Sources(i, e, old, res)]
  /\ said' = [said EXCEPT ![e] = @ \cup {res}]
  /\ pc' = [pc EXCEPT ![e] = "idle"]
  /\ result' = [result EXCEPT ![e] = NoResult]
  /\ snap' = [snap EXCEPT ![e] = NoSnap]
  /\ UNCHANGED corrected

\* set_issue_status, to confirm, reject or close.
Decide(i) ==
  /\ issue[i].status = "open"
  /\ issue' = [issue EXCEPT ![i].status = "decided"]
  /\ UNCHANGED <<source, said, pc, result, snap, corrected>>

\* update_issue: a reviewer corrects the severity.
Correct(i, s) ==
  /\ Corrections
  /\ issue[i].status # "absent"
  /\ issue' = [issue EXCEPT ![i].severity = s]
  /\ corrected' = TRUE
  /\ UNCHANGED <<source, said, pc, result, snap>>

Next ==
  \/ \E e \in Executions : WriteMerge(e) \/ \E res \in Results : BeginMerge(e, res)
  \/ \E i \in Rows : Decide(i) \/ \E s \in Severities : Correct(i, s)

Spec == Init /\ [][Next]_vars

-----------------------------------------------------------------------------
(* What an issue tells its reviewer.                                       *)

Said == UNION {said[e] : e \in Executions}

Shown == {i \in Rows : issue[i].status # "absent"}

Agree(x, y) == x.severity = y.severity /\ x.conclusion = y.conclusion

Unanimous == \A x, y \in Said : Agree(x, y)

\* "The same business problem found several times is shown as one issue."
\* Only while no two first results overlap.
OneIssue == Cardinality(Shown) <= 1

\* "Conflicting conclusions or severities are never settled by the system: they
\* are marked for a reviewer", on the issue and on every source.
DisagreementFlagged ==
  ~Unanimous =>
    \E i \in Shown :
      /\ issue[i].conclusion = "conflict_requires_review"
      /\ \A e \in Executions : said[e] # {} => source[i][e] = "conflict"

\* "Sources that agree are merged": there is no conflict to be seen.
AgreementIsNoConflict ==
  Unanimous => \A i \in Shown : issue[i].conclusion # "conflict_requires_review"

\* ... and with evidence from one of them, their conclusion stands.
EvidenceCounts ==
  Unanimous /\ (\E x \in Said : x.evidence) =>
    \A i \in Shown : \E x \in Said : issue[i].conclusion = x.conclusion

\* In whatever order results arrive, and whatever reviewers decide in between,
\* a disagreement is flagged as long as nobody corrects a severity.
FlaggedUnlessCorrected == corrected \/ DisagreementFlagged

\* Results that agree and that all cite their evidence are merged without a
\* conflict, and their conclusion stands.
MergedWithEvidence ==
  corrected \/ (\E x \in Said : ~x.evidence) \/ (AgreementIsNoConflict /\ EvidenceCounts)

\* "An issue that a rerun does not affect keeps its review": a result that an
\* execution has given before does not take a reviewer's decision back.
SameResultKeepsDecision ==
  [][\A e \in Executions, i \in Rows :
       pc[e] = "merging" /\ pc'[e] = "idle" /\ result[e] \in said[e]
         /\ issue[i].status = "decided" => issue'[i].status = "decided"]_vars
=============================================================================
