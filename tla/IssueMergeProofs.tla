-------------------------- MODULE IssueMergeProofs --------------------------
(***************************************************************************)
(* Proofs about IssueMerge, for any executions, severities, conclusions    *)
(* and evidence: the types on either isolation, and with serializable      *)
(* transactions the two promises to the reviewer of an issue.              *)
(***************************************************************************)
EXTENDS IssueMerge, FiniteSetTheorems, TLAPS

-----------------------------------------------------------------------------
(* Types, on either isolation.                                             *)

ResultsGiven == \A e \in Executions : pc[e] = "merging" => result[e] \in Results

TypeInv == TypeOK /\ ResultsGiven

LEMMA RowsAreCounted == Cardinality(Executions) \in Nat /\ Rows \subseteq Nat \ {0}
  BY FS_CardinalityType, MergeAssumption DEF Rows

\* The fields of what a result and a row may be.
LEMMA Fields ==
  /\ \A x \in Results : x.severity \in Severities /\ x.conclusion \in Conclusions
                        /\ x.evidence \in BOOLEAN
  /\ \A x \in IssueRow : x.status \in {"absent", "open", "decided"}
                         /\ x.severity \in Severities \cup {"none"}
                         /\ x.conclusion \in Conclusions \cup OwnConclusions \cup {"none"}
  /\ NoIssue \in IssueRow
  BY MergeAssumption DEF Results, IssueRow, NoIssue

LEMMA InitTypes == Init => TypeInv
<1>. SUFFICES ASSUME Init PROVE TypeInv
  OBVIOUS
<1>1. /\ issue \in [Rows -> IssueRow]
      /\ source \in [Rows -> [Executions -> SourceStatus]]
      /\ said \in [Executions -> SUBSET Results]
  BY Fields DEF Init, SourceStatus
<1>2. /\ pc \in [Executions -> {"idle", "merging"}]
      /\ result \in [Executions -> Results \cup {NoResult}]
      /\ corrected \in BOOLEAN
  BY DEF Init
<1>3. snap \in [Executions -> [row : 0..Cardinality(Executions), issue : IssueRow]]
  BY Fields, RowsAreCounted DEF Init, NoSnap
<1>4. ResultsGiven
  BY DEF Init, ResultsGiven
<1>. QED
  BY <1>1, <1>2, <1>3, <1>4 DEF TypeInv, TypeOK

\* What the merge writes keeps the types of the two tables.
LEMMA MergeTypes ==
  ASSUME NEW e \in Executions, NEW i \in Rows, NEW res \in Results, NEW old \in IssueRow,
         NEW now \in IssueRow, TypeOK
  PROVE  /\ [status     |-> IF old.status = "absent" \/ Conflict(old, res)
                              THEN Column(old.status, "open", now.status) ELSE now.status,
             severity   |-> IF old.status = "absent" THEN res.severity ELSE now.severity,
             conclusion |-> Column(old.conclusion, Conclusion(old, res), now.conclusion)]
              \in IssueRow
         /\ Sources(i, e, old, res) \in [Executions -> SourceStatus]
<1>1. Conclusion(old, res) \in Conclusions \cup OwnConclusions \cup {"none"}
  BY Fields DEF Conclusion, OwnConclusions
<1>2. Column(old.conclusion, Conclusion(old, res), now.conclusion)
        \in Conclusions \cup OwnConclusions \cup {"none"}
  BY <1>1, Fields DEF Column
<1>3. Column(old.status, "open", now.status) \in {"absent", "open", "decided"}
  BY Fields DEF Column
<1>4. Sources(i, e, old, res) \in [Executions -> SourceStatus]
  BY DEF Sources, TypeOK, SourceStatus
<1>. QED
  BY <1>2, <1>3, <1>4, Fields DEF IssueRow

\* So does what a reviewer writes.
LEMMA Redecided ==
  ASSUME NEW x \in IssueRow
  PROVE  /\ [x EXCEPT !.status = "decided"] \in IssueRow
         /\ \A s \in Severities : [x EXCEPT !.severity = s] \in IssueRow
  BY DEF IssueRow

LEMMA StepTypes == TypeInv /\ [Next]_vars => TypeInv'
<1>. SUFFICES ASSUME TypeInv, [Next]_vars PROVE TypeInv'
  OBVIOUS
<1>1. ASSUME NEW e \in Executions, NEW res \in Results, BeginMerge(e, res)
      PROVE  TypeInv'
  <2>1. \A i \in Existing : [row |-> i, issue |-> issue[i]]
                              \in [row : 0..Cardinality(Executions), issue : IssueRow]
    BY RowsAreCounted DEF TypeInv, TypeOK, Existing, Rows
  <2>2. NoSnap \in [row : 0..Cardinality(Executions), issue : IssueRow]
    BY Fields, RowsAreCounted DEF NoSnap
  <2>3. snap' \in [Executions -> [row : 0..Cardinality(Executions), issue : IssueRow]]
    <3>1. CASE Existing = {}
      BY <1>1, <2>2, <3>1 DEF BeginMerge, TypeInv, TypeOK
    <3>2. CASE Existing # {}
      <4>1. PICK i \in Existing : snap' = [snap EXCEPT ![e] = [row |-> i, issue |-> issue[i]]]
        BY <1>1, <3>2 DEF BeginMerge
      <4>. QED
        BY <4>1, <2>1 DEF TypeInv, TypeOK
    <3>. QED
      BY <3>1, <3>2
  <2>4. pc' \in [Executions -> {"idle", "merging"}]
        /\ result' \in [Executions -> Results \cup {NoResult}]
    BY <1>1 DEF BeginMerge, TypeInv, TypeOK
  <2>5. ResultsGiven'
    BY <1>1 DEF BeginMerge, TypeInv, TypeOK, ResultsGiven
  <2>. QED
    BY <1>1, <2>3, <2>4, <2>5 DEF BeginMerge, TypeInv, TypeOK
<1>2. ASSUME NEW e \in Executions, WriteMerge(e)
      PROVE  TypeInv'
  <2>1. result[e] \in Results /\ snap[e].issue \in IssueRow
    BY <1>2 DEF WriteMerge, TypeInv, TypeOK, ResultsGiven
  <2>2. issue' \in [Rows -> IssueRow] /\ source' \in [Rows -> [Executions -> SourceStatus]]
    <3>. DEFINE Merged(i) ==
           [status     |-> IF snap[e].issue.status = "absent" \/ Conflict(snap[e].issue, result[e])
                             THEN Column(snap[e].issue.status, "open", issue[i].status)
                             ELSE issue[i].status,
            severity   |-> IF snap[e].issue.status = "absent" THEN result[e].severity
                             ELSE issue[i].severity,
            conclusion |-> Column(snap[e].issue.conclusion,
                                  Conclusion(snap[e].issue, result[e]), issue[i].conclusion)]
    <3>1. PICK i \in Rows :
            /\ issue' = [issue EXCEPT ![i] = Merged(i)]
            /\ source' = [source EXCEPT ![i] = Sources(i, e, snap[e].issue, result[e])]
      BY <1>2 DEF WriteMerge
    <3>2. issue[i] \in IssueRow
      BY DEF TypeInv, TypeOK
    <3>3. Merged(i) \in IssueRow
          /\ Sources(i, e, snap[e].issue, result[e]) \in [Executions -> SourceStatus]
      BY <2>1, <3>2, MergeTypes DEF TypeInv
    <3>. HIDE DEF Merged
    <3>. QED
      BY <3>1, <3>3 DEF TypeInv, TypeOK
  <2>3. said' \in [Executions -> SUBSET Results]
    BY <1>2, <2>1 DEF WriteMerge, TypeInv, TypeOK
  <2>4. /\ pc' \in [Executions -> {"idle", "merging"}]
        /\ result' \in [Executions -> Results \cup {NoResult}]
        /\ corrected' \in BOOLEAN
    BY <1>2 DEF WriteMerge, TypeInv, TypeOK
  <2>5. NoSnap \in [row : 0..Cardinality(Executions), issue : IssueRow]
    BY Fields, RowsAreCounted DEF NoSnap
  <2>6. snap' \in [Executions -> [row : 0..Cardinality(Executions), issue : IssueRow]]
    BY <1>2, <2>5 DEF WriteMerge, TypeInv, TypeOK
  <2>7. ResultsGiven'
    BY <1>2 DEF WriteMerge, TypeInv, TypeOK, ResultsGiven
  <2>. QED
    BY <2>2, <2>3, <2>4, <2>6, <2>7 DEF TypeInv, TypeOK
<1>3. ASSUME NEW i \in Rows, Decide(i)
      PROVE  TypeInv'
  <2>1. issue' \in [Rows -> IssueRow]
    BY <1>3, Redecided DEF Decide, TypeInv, TypeOK
  <2>. QED
    BY <1>3, <2>1 DEF Decide, TypeInv, TypeOK, ResultsGiven
<1>4. ASSUME NEW i \in Rows, NEW s \in Severities, Correct(i, s)
      PROVE  TypeInv'
  <2>1. issue' \in [Rows -> IssueRow]
    BY <1>4, Redecided DEF Correct, TypeInv, TypeOK
  <2>. QED
    BY <1>4, <2>1 DEF Correct, TypeInv, TypeOK, ResultsGiven
<1>5. CASE UNCHANGED vars
  BY <1>5 DEF vars, TypeInv, TypeOK, ResultsGiven
<1>. QED
  BY <1>1, <1>2, <1>3, <1>4, <1>5 DEF Next

\* Every variable of the merge keeps its type, on either isolation.
THEOREM MergeTypesHold == Spec => []TypeOK
<1>. QED
  BY InitTypes, StepTypes, PTL DEF Spec, TypeInv

-----------------------------------------------------------------------------
(* Serializable transactions.                                              *)

\* At most one transaction is open.
Alone ==
  \A e, f \in Executions : pc[e] = "merging" /\ pc[f] = "merging" => e = f

\* What the transaction of e has read still holds; reviewers may have decided
\* since, which it does not compare, or corrected.
Current(e) ==
  IF snap[e].row = 0
    THEN Existing = {} /\ snap[e].issue = NoIssue
    ELSE /\ snap[e].row \in Existing
         /\ snap[e].issue.status # "absent"
         /\ snap[e].issue.conclusion = issue[snap[e].row].conclusion
         /\ corrected \/ snap[e].issue.severity = issue[snap[e].row].severity

SnapsCurrent == \A e \in Executions : pc[e] = "merging" => Current(e)

\* All rows but one are as they were made.
Single ==
  /\ \A i, j \in Existing : i = j
  /\ \A i \in Rows : i \notin Existing => issue[i] = NoIssue

\* An execution that has given a result is a source of the issue.
Heard ==
  \A e \in Executions : said[e] # {} =>
    Existing # {} /\ \A i \in Existing : source[i][e] # "none"

\* The results so far all say what the issue says.
Settled(i) ==
  \A x \in Said : x.severity = issue[i].severity /\ x.conclusion = issue[i].conclusion

\* They agree, and the last of them had no evidence.
Unsettled(i) ==
  /\ issue[i].conclusion = "unable_to_determine"
  /\ Unanimous
  /\ \A x \in Said : x.severity = issue[i].severity
  /\ \E x \in Said : ~x.evidence

\* They do not agree, or one without evidence was taken for a disagreement.
Flagged(i) ==
  /\ issue[i].conclusion = "conflict_requires_review"
  /\ \A e \in Executions : said[e] # {} => source[i][e] = "conflict"
  /\ ~Unanimous \/ \E x \in Said : ~x.evidence

Verdict(i) == Said # {} /\ (Settled(i) \/ Unsettled(i) \/ Flagged(i))

Verdicts == corrected \/ \A i \in Existing : Verdict(i)

IInv == TypeInv /\ Alone /\ SnapsCurrent /\ Single /\ Heard /\ Verdicts

LEMMA InitInv == Init => IInv
<1>. SUFFICES ASSUME Init PROVE IInv
  OBVIOUS
<1>1. Existing = {}
  BY DEF Init, Existing, NoIssue
<1>2. Alone /\ SnapsCurrent /\ Heard
  BY DEF Init, Alone, SnapsCurrent, Heard
<1>3. Single /\ Verdicts
  BY <1>1 DEF Init, Single, Verdicts
<1>. QED
  BY <1>2, <1>3, InitTypes DEF IInv

\* A transaction begins alone and reads what is there.
LEMMA BeginKeeps ==
  ASSUME SerialStore, IInv, NEW e \in Executions, NEW res \in Results, BeginMerge(e, res)
  PROVE  IInv'
<1>1. TypeInv'
  BY StepTypes DEF IInv, Next
<1>2. /\ UNCHANGED <<issue, source, said, corrected>>
      /\ \A f \in Executions \ {e} : pc'[f] # "merging"
  BY DEF BeginMerge, Isolated, IInv, TypeInv, TypeOK
<1>3. Alone'
  BY <1>2 DEF Alone
<1>4. Current(e)'
  <2>1. CASE Existing = {}
    <3>1. snap'[e] = NoSnap
      BY <2>1 DEF BeginMerge, IInv, TypeInv, TypeOK
    <3>. QED
      BY <1>2, <2>1, <3>1 DEF Current, NoSnap, Existing
  <2>2. CASE Existing # {}
    <3>1. PICK i \in Existing : snap'[e] = [row |-> i, issue |-> issue[i]]
      BY <2>2 DEF BeginMerge, IInv, TypeInv, TypeOK
    <3>2. i \in Rows /\ i # 0 /\ issue[i].status # "absent"
      BY RowsAreCounted DEF Existing
    <3>. QED
      BY <1>2, <3>1, <3>2 DEF Current, Existing
  <2>. QED
    BY <2>1, <2>2
<1>5. SnapsCurrent'
  BY <1>2, <1>4 DEF SnapsCurrent
<1>6. Existing' = Existing /\ Said' = Said /\ (Unanimous' <=> Unanimous)
  BY <1>2 DEF Existing, Said, Unanimous
<1>7. Single' /\ Heard'
  BY <1>2, <1>6 DEF IInv, Single, Heard
<1>8. \A i \in Rows : Verdict(i) => Verdict(i)'
  BY <1>2, <1>6 DEF Verdict, Settled, Unsettled, Flagged
<1>9. Verdicts'
  BY <1>2, <1>6, <1>8 DEF IInv, Verdicts, Existing
<1>. QED
  BY <1>1, <1>3, <1>5, <1>7, <1>9 DEF IInv

\* The result that is recorded joins what was said.
LEMMA SaidGrows ==
  ASSUME TypeOK, NEW e \in Executions, NEW res \in Results,
         said' = [said EXCEPT ![e] = @ \cup {res}]
  PROVE  /\ Said' = Said \cup {res}
         /\ \A f \in Executions : said'[f] # {} => f = e \/ said[f] # {}
<1>1. \A f \in Executions : said'[f] = IF f = e THEN said[e] \cup {res} ELSE said[f]
  BY DEF TypeOK
<1>. QED
  BY <1>1 DEF Said

\* The first result makes the issue, and the issue says what it says.
LEMMA FirstMerge ==
  ASSUME IInv, NEW e \in Executions, WriteMerge(e), snap[e].row = 0, Current(e),
         result[e] \in Results
  PROVE  Single' /\ Heard' /\ Verdicts'
<1>. DEFINE res == result[e]
<1>1. /\ Existing = {} /\ snap[e].issue = NoIssue
      /\ \A f \in Executions : said[f] = {}
      /\ \A i \in Rows : issue[i] = NoIssue
  BY DEF Current, IInv, Heard, Single
<1>2. PICK i \in Rows :
        /\ issue' = [issue EXCEPT ![i] =
             [status     |-> Column("absent", "open", issue[i].status),
              severity   |-> res.severity,
              conclusion |-> Column("none", Conclusion(NoIssue, res), issue[i].conclusion)]]
        /\ source' = [source EXCEPT ![i] = Sources(i, e, NoIssue, res)]
  <2>1. NoIssue.status = "absent" /\ NoIssue.conclusion = "none"
    BY DEF NoIssue
  <2>. QED
    BY <1>1, <2>1 DEF WriteMerge
<1>3. /\ issue'[i].status = "open"
      /\ issue'[i].severity = res.severity
      /\ issue'[i].conclusion = IF res.evidence THEN res.conclusion ELSE "unable_to_determine"
      /\ \A j \in Rows \ {i} : issue'[j] = NoIssue
  BY <1>1, <1>2 DEF IInv, TypeInv, TypeOK, Column, Conclusion, Conflict, NoIssue
<1>4. Existing' = {i}
  BY <1>3 DEF Existing, NoIssue
<1>5. Said' = {res} /\ \A f \in Executions : said'[f] # {} => f = e
  <2>1. Said = {}
    BY <1>1 DEF Said
  <2>. QED
    BY <1>1, <2>1, SaidGrows DEF WriteMerge, IInv, TypeInv
<1>6. source'[i][e] # "none"
  BY <1>2 DEF IInv, TypeInv, TypeOK, Sources, Conflict, NoIssue
<1>7. Single'
  BY <1>3, <1>4 DEF Single
<1>8. Heard'
  BY <1>4, <1>5, <1>6 DEF Heard
<1>9. Verdict(i)'
  <2>1. CASE res.evidence
    BY <2>1, <1>3, <1>5 DEF Verdict, Settled
  <2>2. CASE ~res.evidence
    BY <2>2, <1>3, <1>5 DEF Verdict, Unsettled, Unanimous, Agree
  <2>. QED
    BY <2>1, <2>2
<1>. QED
  BY <1>4, <1>7, <1>8, <1>9 DEF Verdicts

\* A further result either says what the issue says, or makes it a conflict.
LEMMA FurtherMerge ==
  ASSUME IInv, NEW e \in Executions, WriteMerge(e), Current(e), result[e] \in Results,
         NEW i \in Rows, snap[e].row = i
  PROVE  Single' /\ Heard' /\ Verdicts'
<1>. DEFINE res == result[e]
            old == snap[e].issue
<1>0. i # 0
  BY RowsAreCounted
<1>1. /\ i \in Existing /\ i \in Rows /\ \A j \in Existing : j = i
      /\ old.status # "absent"
      /\ old.conclusion = issue[i].conclusion
      /\ ~corrected => old.severity = issue[i].severity
  BY <1>0 DEF Current, IInv, Single, Existing
<1>2. /\ issue' = [issue EXCEPT ![i] =
             [status     |-> IF Conflict(old, res)
                               THEN Column(old.status, "open", issue[i].status)
                               ELSE issue[i].status,
              severity   |-> issue[i].severity,
              conclusion |-> Column(old.conclusion, Conclusion(old, res), issue[i].conclusion)]]
      /\ source' = [source EXCEPT ![i] = Sources(i, e, old, res)]
      /\ UNCHANGED corrected
  BY <1>0, <1>1 DEF WriteMerge
<1>3. /\ issue'[i].status # "absent"
      /\ issue'[i].severity = issue[i].severity
      /\ issue'[i].conclusion = Conclusion(old, res)
      /\ \A j \in Rows \ {i} : issue'[j] = issue[j]
  BY <1>1, <1>2 DEF IInv, TypeInv, TypeOK, Column, Existing
<1>4. Existing' = Existing
  BY <1>1, <1>3 DEF Existing
<1>5. Said' = Said \cup {res} /\ \A f \in Executions : said'[f] # {} => f = e \/ said[f] # {}
  BY SaidGrows DEF WriteMerge, IInv, TypeInv
<1>6. source'[i] = Sources(i, e, old, res)
  BY <1>1, <1>2 DEF IInv, TypeInv, TypeOK
<1>7. Single'
  BY <1>1, <1>3, <1>4 DEF IInv, Single
<1>8. \A f \in Executions : said[f] # {} => source[i][f] # "none"
  BY <1>1 DEF IInv, Heard
<1>9. Heard'
  BY <1>1, <1>4, <1>5, <1>6, <1>8 DEF Heard, Sources
<1>10. ASSUME ~corrected
       PROVE  Verdict(i)'
  <2>1. /\ Verdict(i) /\ old.severity = issue[i].severity
        /\ res.conclusion \in Conclusions
        /\ res.conclusion \notin OwnConclusions
    BY <1>1, <1>10, Fields, MergeAssumption DEF IInv, Verdicts
  <2>2. CASE Conflict(old, res)
    <3>1. issue'[i].conclusion = "conflict_requires_review"
      BY <1>3, <2>2 DEF Conclusion
    <3>2. \A f \in Executions : said'[f] # {} => source'[i][f] = "conflict"
      BY <1>5, <1>6, <1>8, <2>2 DEF Sources
    <3>3. ~Unanimous' \/ \E x \in Said' : ~x.evidence
      <4>1. CASE Settled(i)
        <5>1. PICK x \in Said : x.severity = old.severity /\ x.conclusion = old.conclusion
          BY <1>1, <2>1, <4>1 DEF Verdict, Settled
        <5>2. ~Agree(x, res) /\ x \in Said' /\ res \in Said'
          BY <1>5, <2>2, <5>1 DEF Conflict, Agree
        <5>. QED
          BY <5>2 DEF Unanimous
      <4>2. CASE Unsettled(i)
        BY <1>5, <4>2 DEF Unsettled
      <4>3. CASE Flagged(i)
        BY <1>5, <4>3 DEF Flagged, Unanimous
      <4>. QED
        BY <2>1, <4>1, <4>2, <4>3 DEF Verdict
    <3>4. Flagged(i)'
      BY <3>1, <3>2, <3>3 DEF Flagged
    <3>. QED
      BY <1>5, <3>4 DEF Verdict
  <2>3. CASE ~Conflict(old, res)
    <3>1. old.severity = res.severity /\ old.conclusion = res.conclusion
      BY <1>1, <2>3 DEF Conflict
    <3>2. Settled(i)
      BY <1>1, <2>1, <3>1 DEF Verdict, Unsettled, Flagged, OwnConclusions
    <3>3. \A x \in Said' : x.severity = res.severity /\ x.conclusion = res.conclusion
      BY <1>1, <1>5, <2>1, <3>1, <3>2 DEF Settled
    <3>4. CASE issue'[i].conclusion = res.conclusion
      BY <1>3, <1>5, <2>1, <3>1, <3>3, <3>4 DEF Verdict, Settled
    <3>5. CASE issue'[i].conclusion = "unable_to_determine" /\ ~res.evidence
      <4>1. Unanimous'
        BY <3>3 DEF Unanimous, Agree
      <4>. QED
        BY <1>3, <1>5, <2>1, <3>1, <3>3, <3>5, <4>1 DEF Verdict, Unsettled
    <3>. QED
      BY <1>1, <1>3, <2>3, <3>1, <3>4, <3>5 DEF Conclusion
  <2>. QED
    BY <2>2, <2>3
<1>. QED
  BY <1>1, <1>2, <1>4, <1>7, <1>9, <1>10 DEF Verdicts

\* The open transaction writes by what still holds, and closes.
LEMMA WriteKeeps ==
  ASSUME SerialStore, IInv, NEW e \in Executions, WriteMerge(e)
  PROVE  IInv'
<1>1. TypeInv'
  BY StepTypes DEF IInv, Next
<1>2. \A f \in Executions : pc'[f] # "merging"
  BY DEF WriteMerge, IInv, Alone, TypeInv, TypeOK
<1>3. Alone' /\ SnapsCurrent'
  BY <1>2 DEF Alone, SnapsCurrent
<1>4. Current(e) /\ result[e] \in Results
  BY DEF WriteMerge, IInv, SnapsCurrent, TypeInv, ResultsGiven
<1>5. snap[e].row # 0 => snap[e].row \in Rows
  BY <1>4 DEF Current, Existing
<1>6. Single' /\ Heard' /\ Verdicts'
  BY <1>4, <1>5, FirstMerge, FurtherMerge
<1>. QED
  BY <1>1, <1>3, <1>6 DEF IInv

\* A decision or a correction changes neither which rows there are nor what
\* they conclude, and without a correction no severity.
LEMMA ReviewKeeps ==
  ASSUME IInv, TypeInv', UNCHANGED <<source, said, pc, result, snap>>, corrected => corrected',
         \A i \in Rows :
           /\ issue[i].status = "absent" => issue'[i] = issue[i]
           /\ issue[i].status # "absent" => issue'[i].status # "absent"
           /\ issue'[i].conclusion = issue[i].conclusion
           /\ ~corrected' => issue'[i].severity = issue[i].severity
  PROVE  IInv'
<1>1. Existing' = Existing
  BY DEF Existing
<1>2. Alone' /\ Heard' /\ Said' = Said /\ (Unanimous' <=> Unanimous)
  BY <1>1 DEF IInv, Alone, Heard, Said, Unanimous
<1>3. Single'
  BY <1>1 DEF IInv, Single, Existing, NoIssue
<1>4. SnapsCurrent'
  <2>. SUFFICES ASSUME NEW e \in Executions, pc[e] = "merging" PROVE Current(e)'
    BY DEF SnapsCurrent
  <2>1. Current(e)
    BY DEF IInv, SnapsCurrent
  <2>2. CASE snap[e].row = 0
    BY <1>1, <2>1, <2>2 DEF Current
  <2>3. CASE snap[e].row # 0
    <3>1. snap[e].row \in Existing /\ snap[e].row \in Rows
      BY <2>1, <2>3 DEF Current, Existing
    <3>. QED
      BY <1>1, <2>1, <2>3, <3>1 DEF Current
  <2>. QED
    BY <2>2, <2>3
<1>5. Verdicts'
  <2>. SUFFICES ASSUME ~corrected', NEW i \in Existing PROVE Verdict(i)'
    BY <1>1 DEF Verdicts
  <2>1. /\ Verdict(i)
        /\ issue'[i].conclusion = issue[i].conclusion /\ issue'[i].severity = issue[i].severity
    BY DEF IInv, Verdicts, Existing
  <2>. QED
    BY <1>2, <2>1 DEF Verdict, Settled, Unsettled, Flagged
<1>. QED
  BY <1>2, <1>3, <1>4, <1>5 DEF IInv

LEMMA StepInv == SerialStore /\ IInv /\ [Next]_vars => IInv'
<1>. SUFFICES ASSUME SerialStore, IInv, [Next]_vars PROVE IInv'
  OBVIOUS
<1>1. TypeInv'
  BY StepTypes DEF IInv
<1>2. ASSUME NEW i \in Rows, Decide(i)
      PROVE  IInv'
  <2>1. \A j \in Rows : issue'[j] = IF j = i THEN [issue[i] EXCEPT !.status = "decided"]
                                            ELSE issue[j]
    BY <1>2 DEF Decide, IInv, TypeInv, TypeOK
  <2>2. /\ issue[i] \in IssueRow
        /\ [issue[i] EXCEPT !.status = "decided"].severity = issue[i].severity
        /\ [issue[i] EXCEPT !.status = "decided"].conclusion = issue[i].conclusion
        /\ [issue[i] EXCEPT !.status = "decided"].status = "decided"
    BY DEF IInv, TypeInv, TypeOK, IssueRow
  <2>. QED
    BY <1>1, <1>2, <2>1, <2>2, ReviewKeeps DEF Decide
<1>3. ASSUME NEW i \in Rows, NEW s \in Severities, Correct(i, s)
      PROVE  IInv'
  <2>1. \A j \in Rows : issue'[j] = IF j = i THEN [issue[i] EXCEPT !.severity = s]
                                            ELSE issue[j]
    BY <1>3 DEF Correct, IInv, TypeInv, TypeOK
  <2>2. /\ issue[i] \in IssueRow
        /\ [issue[i] EXCEPT !.severity = s].status = issue[i].status
        /\ [issue[i] EXCEPT !.severity = s].conclusion = issue[i].conclusion
    BY DEF IInv, TypeInv, TypeOK, IssueRow
  <2>. QED
    BY <1>1, <1>3, <2>1, <2>2, ReviewKeeps DEF Correct
<1>4. CASE UNCHANGED vars
  BY <1>1, <1>4, ReviewKeeps DEF vars
<1>. QED
  BY <1>2, <1>3, <1>4, BeginKeeps, WriteKeeps DEF Next

-----------------------------------------------------------------------------
(* What an issue tells its reviewer.                                       *)

LEMMA InvHolds == ASSUME SerialStore PROVE Spec => []IInv
<1>. QED
  BY InitInv, StepInv, SerialStore, PTL DEF Spec

\* On serializable transactions, results that differ in their severity or their
\* conclusion leave the issue and each of its sources marked as a conflict, in
\* whatever order they came, unless a reviewer has corrected a severity.
THEOREM FlaggedHolds == ASSUME SerialStore PROVE Spec => []FlaggedUnlessCorrected
<1>1. IInv => FlaggedUnlessCorrected
  <2>. SUFFICES ASSUME IInv, ~corrected, ~Unanimous PROVE DisagreementFlagged
    BY DEF FlaggedUnlessCorrected, DisagreementFlagged
  <2>1. PICK e \in Executions : said[e] # {}
    BY DEF Unanimous, Said
  <2>2. PICK i \in Existing : Verdict(i)
    BY <2>1 DEF IInv, Heard, Verdicts
  <2>3. ~Settled(i) /\ ~Unsettled(i)
    BY DEF Settled, Unsettled, Unanimous, Agree
  <2>4. Flagged(i) /\ i \in Shown
    BY <2>2, <2>3 DEF Verdict, Existing, Shown
  <2>. QED
    BY <2>4 DEF Flagged, DisagreementFlagged
<1>. QED
  BY <1>1, InvHolds, SerialStore, PTL

\* On serializable transactions, results that agree and all cite evidence never
\* make a conflict, and the issue concludes what they conclude.
THEOREM MergedHolds == ASSUME SerialStore PROVE Spec => []MergedWithEvidence
<1>1. IInv => MergedWithEvidence
  <2>. SUFFICES ASSUME IInv, ~corrected, \A x \in Said : x.evidence, Unanimous,
                       NEW i \in Shown
                PROVE  /\ issue[i].conclusion # "conflict_requires_review"
                       /\ \E x \in Said : issue[i].conclusion = x.conclusion
    BY DEF MergedWithEvidence, AgreementIsNoConflict, EvidenceCounts
  <2>1. Verdict(i)
    BY DEF IInv, Verdicts, Existing, Shown
  <2>2. Settled(i) /\ Said # {}
    BY <2>1 DEF Verdict, Unsettled, Flagged
  <2>3. PICK x \in Said : issue[i].conclusion = x.conclusion
    BY <2>2 DEF Settled
  <2>4. x.conclusion \in Conclusions
    BY Fields DEF IInv, TypeInv, TypeOK, Said
  <2>. QED
    BY <2>3, <2>4, MergeAssumption DEF OwnConclusions
<1>. QED
  BY <1>1, InvHolds, SerialStore, PTL
=============================================================================
