------------------------------ MODULE DeskProofs -----------------------------
(***************************************************************************)
(* Proofs about the desk.  Of StandardCatalog with serializable            *)
(* transactions, for any standards, versions, revisions, rounds and        *)
(* threads: the catalog's rows agree with each other, and a gate that is   *)
(* open means that the clauses of the confirmed standards were reviewed.   *)
(* Of Desk, whose parts do not disturb each other, with transactions that  *)
(* overlap: sessions and changes of passwords, the objects that the files  *)
(* of a task name, the files of published reports, and the numbers of      *)
(* tasks, with the arithmetic of their digits; and the types of every part.*)
(***************************************************************************)
EXTENDS Desk, SequenceTheorems, WellFoundedInduction, TLAPS

-----------------------------------------------------------------------------
(* Transactions.                                                           *)

\* At most one transaction is open.
Alone ==
  /\ DOMAIN open = Threads
  /\ \A t, u \in Threads : open[t] # None /\ open[u] # None => t = u

Closed == \A t \in Threads : open[t] = None

\* A transaction begins alone.
LEMMA StartAlone ==
  ASSUME SerialStore, Alone, NEW t \in Threads, NEW reads, Start(t, reads)
  PROVE  /\ Alone'
         /\ open'[t] = reads
         /\ \A u \in Threads \ {t} : open'[u] = None
  BY DEF Start, Isolated, Alone

\* After a commit nothing is open.
LEMMA CommitCloses ==
  ASSUME Alone, NEW t \in Threads, open[t] # None, open' = [open EXCEPT ![t] = None]
  PROVE  Alone' /\ Closed'
  BY DEF Alone, Closed

-----------------------------------------------------------------------------
(* The catalog.                                                            *)

Rows ==
  /\ standard \in [Standards -> Statuses]
  /\ version \in [Versions -> Statuses]
  /\ revisions \in [Versions -> Seq(Revision)]
  /\ \A v \in Versions : Len(revisions[v]) <= MaxRevisions
  /\ \A v \in Versions : revisions[v] = <<>> <=> version[v] = "absent"

RevisionRead(x) ==
  /\ x.version \in Versions
  /\ version[x.version] # "absent"
  /\ x.number = Latest(x.version) + 1
  /\ x.number <= MaxRevisions
  /\ x.clauses \subseteq Codes

PublishRead(x) ==
  /\ x.version \in Versions
  /\ x.number \in DOMAIN revisions[x.version]
  /\ x.previous = Previous(x.version, x.number)
  /\ x.was = revisions[x.version][x.number].status
  /\ x.wasVersion = version[x.version]
  /\ x.wasStandard = standard[StandardOf[x.version]]

AbolishRead(x) ==
  /\ x.version \in Versions
  /\ version[x.version] # "absent"
  /\ x.another = AnotherActive(x.version)
  /\ x.wasVersion = version[x.version]
  /\ x.wasStandard = standard[StandardOf[x.version]]

\* What an open transaction has read of the catalog still holds.
CatalogRead ==
  \A t \in Threads : open[t] # None =>
    /\ open[t].op = "revise" => RevisionRead(open[t])
    /\ open[t].op = "publish" => PublishRead(open[t])
    /\ open[t].op = "abolish" => AbolishRead(open[t])

CatalogInv ==
  Alone /\ Rows /\ CatalogRead /\ OnePublishedRevision /\ StandardFollowsVersions

\* Without an open transaction nothing has been read.
LEMMA ClosedReads == Closed => CatalogRead
  BY DEF Closed, CatalogRead

\* A step that leaves the catalog alone and opens a transaction keeps the
\* invariant when what it has read holds.
LEMMA CatalogStart ==
  ASSUME SerialStore, CatalogInv, NEW t \in Threads, NEW x, Start(t, x),
         x.op = "revise" => RevisionRead(x),
         x.op = "publish" => PublishRead(x),
         x.op = "abolish" => AbolishRead(x)
  PROVE  CatalogInv'
<1>1. Alone' /\ open'[t] = x /\ \A u \in Threads \ {t} : open'[u] = None
  BY StartAlone DEF CatalogInv
<1>2. standard' = standard /\ version' = version /\ revisions' = revisions
  BY DEF Start, catalog
<1>3. CatalogRead'
  <2>. SUFFICES ASSUME NEW u \in Threads, open'[u] # None
                PROVE  /\ x.op = "revise" => RevisionRead(x)'
                       /\ x.op = "publish" => PublishRead(x)'
                       /\ x.op = "abolish" => AbolishRead(x)'
    BY <1>1 DEF CatalogRead, RevisionRead, PublishRead, AbolishRead
  <2>1. x.op = "revise" => RevisionRead(x)'
    BY <1>2 DEF RevisionRead, Latest
  <2>2. x.op = "publish" => PublishRead(x)'
    BY <1>2 DEF PublishRead, Previous
  <2>3. x.op = "abolish" => AbolishRead(x)'
    BY <1>2 DEF AbolishRead, AnotherActive
  <2>. QED
    BY <2>1, <2>2, <2>3
<1>4. Rows' /\ OnePublishedRevision' /\ StandardFollowsVersions'
  BY <1>2 DEF CatalogInv, Rows, OnePublishedRevision, StandardFollowsVersions, Published
<1>. QED
  BY <1>1, <1>3, <1>4 DEF CatalogInv

\* So does one that leaves the catalog alone and closes its transaction.
LEMMA CatalogClose ==
  ASSUME CatalogInv, NEW t \in Threads, open[t] # None,
         open' = [open EXCEPT ![t] = None], UNCHANGED catalog
  PROVE  CatalogInv'
<1>1. Alone' /\ CatalogRead'
  BY CommitCloses DEF CatalogInv, Closed, CatalogRead
<1>2. Rows' /\ OnePublishedRevision' /\ StandardFollowsVersions'
  BY DEF CatalogInv, Rows, OnePublishedRevision, StandardFollowsVersions, Published, catalog
<1>. QED
  BY <1>1, <1>2 DEF CatalogInv

\* The catalog is empty at first.
LEMMA CatalogInit == Init => CatalogInv
<1>. SUFFICES ASSUME Init PROVE CatalogInv
  OBVIOUS
<1>1. <<>> \in Seq(Revision) /\ Len(<<>>) = 0 /\ DOMAIN <<>> = {}
  OBVIOUS
<1>2. Alone
  BY DEF Init, Alone
<1>3. Rows
  BY <1>1, StandardAssumption DEF Init, Rows, Statuses
<1>4. CatalogRead
  BY DEF Init, CatalogRead
<1>5. \A v \in Versions : Published(v) = {}
  BY <1>1 DEF Init, Published
<1>6. OnePublishedRevision
  BY <1>5 DEF OnePublishedRevision
<1>7. StandardFollowsVersions
  BY <1>5 DEF Init, StandardFollowsVersions
<1>. QED
  BY <1>2, <1>3, <1>4, <1>6, <1>7 DEF CatalogInv

\* A standard is created between transactions.
LEMMA CreateStandardKeeps ==
  ASSUME SerialStore, CatalogInv, NEW s \in Standards, CreateStandard(s)
  PROVE  CatalogInv'
<1>. USE DEF CatalogInv
<1>1. Alone' /\ Closed'
  BY DEF CreateStandard, Isolated, Alone, Closed
<1>2. CatalogRead'
  BY <1>1 DEF Closed, CatalogRead
<1>3. Rows' /\ OnePublishedRevision'
  BY DEF CreateStandard, Rows, Statuses, OnePublishedRevision, Published
<1>4. StandardFollowsVersions'
  BY DEF CreateStandard, Rows, StandardFollowsVersions, Published
<1>. QED
  BY <1>1, <1>2, <1>3, <1>4

\* A version is created between transactions, with a draft.
LEMMA CreateVersionKeeps ==
  ASSUME SerialStore, CatalogInv, NEW v \in Versions,
         NEW status \in Statuses \ {"absent"}, CreateVersion(v, status)
  PROVE  CatalogInv'
<1>. USE DEF CatalogInv
<1>. DEFINE draft == [clauses |-> {}, status |-> "draft"]
<1>1. Alone' /\ Closed'
  BY DEF CreateVersion, Isolated, Alone, Closed
<1>2. CatalogRead'
  BY <1>1 DEF Closed, CatalogRead
<1>3. draft \in Revision /\ draft.status = "draft"
  BY DEF Revision
<1>4. revisions' = [revisions EXCEPT ![v] = <<draft>>]
  BY DEF CreateVersion
<1>. HIDE DEF draft
<1>5. /\ <<draft>> \in Seq(Revision) /\ Len(<<draft>>) = 1 /\ <<draft>> # <<>>
      /\ DOMAIN <<draft>> = {1} /\ <<draft>>[1] = draft
  BY <1>3
<1>6. Rows'
  <2>1. version' = [version EXCEPT ![v] = status] /\ status \in Statuses
    BY DEF CreateVersion
  <2>2. 1 <= MaxRevisions
    BY StandardAssumption
  <2>3. revisions' \in [Versions -> Seq(Revision)]
    BY <1>4, <1>5 DEF Rows
  <2>4. \A w \in Versions \ {v} : revisions'[w] = revisions[w] /\ version'[w] = version[w]
    BY <1>4, <2>1 DEF Rows
  <2>5. revisions'[v] = <<draft>> /\ version'[v] = status
    BY <1>4, <2>1 DEF Rows
  <2>. QED
    BY <1>5, <2>1, <2>2, <2>3, <2>4, <2>5 DEF CreateVersion, Rows
<1>7. Published(v)' = {} /\ \A w \in Versions \ {v} : Published(w)' = Published(w)
  BY <1>3, <1>4, <1>5 DEF Rows, Published
<1>8. OnePublishedRevision'
  BY <1>7 DEF OnePublishedRevision
<1>9. StandardFollowsVersions'
  BY <1>7 DEF CreateVersion, Rows, StandardFollowsVersions
<1>. QED
  BY <1>1, <1>2, <1>6, <1>8, <1>9

\* The number that a new revision was given is free when it is added.
LEMMA CommitRevisionKeeps ==
  ASSUME CatalogInv, NEW t \in Threads, CommitRevision(t)
  PROVE  CatalogInv'
<1>. USE DEF CatalogInv
<1>. PICK x : x = open[t]
  OBVIOUS
<1>. PICK v : v = x.version
  OBVIOUS
<1>. DEFINE draft == [clauses |-> x.clauses, status |-> "draft"]
<1>1. Alone' /\ Closed'
  BY CommitCloses DEF CommitRevision, Commits
<1>2. CatalogRead'
  BY <1>1 DEF Closed, CatalogRead
<1>3. v \in Versions /\ Latest(v) + 1 = x.number /\ x.number <= MaxRevisions
  BY DEF CommitRevision, Commits, CatalogRead, RevisionRead
<1>4. draft \in Revision /\ draft.status = "draft"
  BY DEF CommitRevision, Commits, CatalogRead, RevisionRead, Revision
<1>5. revisions' = [revisions EXCEPT ![v] = Append(revisions[v], draft)]
  BY <1>3 DEF CommitRevision
<1>. HIDE DEF draft
<1>6. revisions[v] \in Seq(Revision)
  BY <1>3 DEF Rows
<1>7. /\ Append(revisions[v], draft) \in Seq(Revision)
      /\ Len(Append(revisions[v], draft)) = Len(revisions[v]) + 1
      /\ DOMAIN Append(revisions[v], draft) = DOMAIN revisions[v] \cup {Len(revisions[v]) + 1}
      /\ \A m \in DOMAIN revisions[v] : Append(revisions[v], draft)[m] = revisions[v][m]
      /\ Append(revisions[v], draft)[Len(revisions[v]) + 1] = draft
  BY <1>4, <1>6
<1>8. version[v] # "absent" /\ Append(revisions[v], draft) # <<>>
  BY <1>6, <1>7 DEF CommitRevision, Commits, CatalogRead, RevisionRead
<1>9. standard' = standard /\ version' = version
  BY DEF CommitRevision
<1>10. Rows'
  BY <1>3, <1>5, <1>7, <1>8, <1>9 DEF Rows, Latest
<1>11. \A w \in Versions : Published(w)' = Published(w)
  <2>1. Published(v)' = Published(v)
    BY <1>3, <1>4, <1>5, <1>7 DEF Rows, Published
  <2>2. \A w \in Versions \ {v} : Published(w)' = Published(w)
    BY <1>5 DEF Rows, Published
  <2>. QED
    BY <2>1, <2>2
<1>12. OnePublishedRevision' /\ StandardFollowsVersions'
  BY <1>9, <1>11 DEF OnePublishedRevision, StandardFollowsVersions
<1>. QED
  BY <1>1, <1>2, <1>10, <1>12

\* Publishing archives the revision that was published.
LEMMA CommitPublishKeeps ==
  ASSUME CatalogInv, NEW t \in Threads, CommitPublish(t)
  PROVE  CatalogInv'
<1>. USE DEF CatalogInv
<1>. PICK x : x = open[t]
  OBVIOUS
<1>. PICK v : v = x.version
  OBVIOUS
<1>. DEFINE s == StandardOf[v]
            Now(m) == [clauses |-> revisions[v][m].clauses,
                       status  |-> IF m = x.number
                                   THEN Written(x.was, "published", revisions[v][m].status)
                                   ELSE IF m \in x.previous THEN "archived"
                                   ELSE revisions[v][m].status]
            published == [m \in DOMAIN revisions[v] |-> Now(m)]
<1>1. Alone' /\ Closed'
  BY CommitCloses DEF CommitPublish, Commits
<1>2. CatalogRead'
  BY <1>1 DEF Closed, CatalogRead
<1>3. PublishRead(x)
  BY DEF CommitPublish, Commits, CatalogRead
<1>4. v \in Versions /\ s \in Standards /\ x.number \in DOMAIN revisions[v]
  BY <1>3, StandardAssumption DEF PublishRead
<1>5. revisions' = [revisions EXCEPT ![v] = published]
  BY <1>4 DEF CommitPublish
<1>6. version' = [version EXCEPT ![v] = "active"]
  BY <1>3, <1>4 DEF CommitPublish, PublishRead, Written, Rows
<1>7. standard' = [standard EXCEPT ![s] = "active"]
  BY <1>3, <1>4 DEF CommitPublish, PublishRead, Written, Rows
<1>8. \A m \in DOMAIN revisions[v] :
        /\ Now(m) \in Revision
        /\ Now(m).status = "published" <=> m = x.number
  <2>. SUFFICES ASSUME NEW m \in DOMAIN revisions[v]
                PROVE  /\ Now(m) \in Revision
                       /\ Now(m).status = "published" <=> m = x.number
    OBVIOUS
  <2>. DEFINE row == revisions[v][m]
  <2>1. row \in Revision
    BY <1>4 DEF Rows
  <2>2. x.previous = Previous(v, x.number) /\ x.was = revisions[v][x.number].status
    BY <1>3 DEF PublishRead
  <2>3. m \in x.previous <=> row.status = "published" /\ m # x.number
    BY <2>2 DEF Previous
  <2>4. Written(x.was, "published", revisions[v][x.number].status) = "published"
    BY <2>2 DEF Written
  <2>5. Now(m).clauses = row.clauses
    OBVIOUS
  <2>6. CASE m = x.number
    BY <2>1, <2>4, <2>6 DEF Revision
  <2>7. CASE m # x.number
    BY <2>1, <2>3, <2>7 DEF Revision
  <2>. QED
    BY <2>6, <2>7
<1>9. x.was = revisions[v][x.number].status
  BY <1>3 DEF PublishRead
<1>. HIDE DEF Now
<1>10. /\ published \in Seq(Revision) /\ Len(published) = Len(revisions[v])
       /\ DOMAIN published = DOMAIN revisions[v]
       /\ \A m \in DOMAIN published : published[m] = Now(m)
  <2>1. revisions[v] \in Seq(Revision)
    BY <1>4 DEF Rows
  <2>2. Len(revisions[v]) \in Nat /\ DOMAIN revisions[v] = 1..Len(revisions[v])
    BY <2>1
  <2>3. published \in [1..Len(revisions[v]) -> Revision]
    BY <1>8, <2>2
  <2>. QED
    BY <2>2, <2>3, SeqDef
<1>. HIDE DEF published, s
<1>11. revisions[v] # <<>> /\ published # <<>>
  BY <1>4, <1>10 DEF Rows
<1>12. Rows'
  BY <1>4, <1>5, <1>6, <1>7, <1>10, <1>11 DEF Rows, Statuses
<1>13. Published(v)' = {x.number}
  BY <1>4, <1>5, <1>8, <1>10 DEF Rows, Published
<1>14. \A w \in Versions \ {v} : Published(w)' = Published(w)
  BY <1>5 DEF Rows, Published
<1>15. OnePublishedRevision'
  BY <1>13, <1>14 DEF OnePublishedRevision
<1>16. StandardFollowsVersions'
  <2>1. \A r \in Standards \ {s} : standard'[r] = standard[r]
    BY <1>7 DEF Rows
  <2>2. \A w \in Versions \ {v} : version'[w] = version[w]
    BY <1>6 DEF Rows
  <2>3. standard'[s] = "active" /\ version'[v] = "active" /\ StandardOf[v] = s
    BY <1>4, <1>6, <1>7 DEF Rows, s
  <2>. QED
    BY <1>4, <1>14, <2>1, <2>2, <2>3 DEF StandardFollowsVersions
<1>. QED
  BY <1>1, <1>2, <1>12, <1>15, <1>16

\* What an abolition has counted still holds when it writes.
LEMMA CommitAbolishKeeps ==
  ASSUME CatalogInv, NEW t \in Threads, CommitAbolish(t)
  PROVE  CatalogInv'
<1>. USE DEF CatalogInv
<1>. PICK x : x = open[t]
  OBVIOUS
<1>. PICK v : v = x.version
  OBVIOUS
<1>. DEFINE s == StandardOf[v]
            status == IF x.another THEN "active" ELSE "obsolete"
<1>1. Alone' /\ Closed'
  BY CommitCloses DEF CommitAbolish, Commits
<1>2. CatalogRead'
  BY <1>1 DEF Closed, CatalogRead
<1>3. AbolishRead(x)
  BY DEF CommitAbolish, Commits, CatalogRead
<1>4. v \in Versions /\ s \in Standards /\ version[v] # "absent"
  BY <1>3, StandardAssumption DEF AbolishRead
<1>5. version' = [version EXCEPT ![v] = "obsolete"]
  BY <1>3, <1>4 DEF CommitAbolish, AbolishRead, Written, Rows
<1>6. standard' = [standard EXCEPT ![s] = status]
  BY <1>3, <1>4 DEF CommitAbolish, AbolishRead, Written, Rows
<1>7. revisions' = revisions /\ \A w \in Versions : Published(w)' = Published(w)
  BY DEF CommitAbolish, Published
<1>8. x.another <=> AnotherActive(v)
  BY <1>3 DEF AbolishRead
<1>9. Rows'
  BY <1>4, <1>5, <1>6, <1>7 DEF Rows, Statuses
<1>10. OnePublishedRevision'
  BY <1>7 DEF OnePublishedRevision
<1>11. StandardFollowsVersions'
  <2>1. \A r \in Standards \ {s} : standard'[r] = standard[r]
    BY <1>6 DEF Rows
  <2>2. \A w \in Versions \ {v} : version'[w] = version[w]
    BY <1>5 DEF Rows
  <2>3. standard'[s] = status /\ version'[v] = "obsolete"
    BY <1>4, <1>5, <1>6 DEF Rows
  <2>. QED
    BY <1>4, <1>7, <1>8, <2>1, <2>2, <2>3 DEF StandardFollowsVersions, AnotherActive
<1>. QED
  BY <1>1, <1>2, <1>9, <1>10, <1>11

\* What a transaction reads when it begins holds.
LEMMA BeginKeeps ==
  ASSUME SerialStore, CatalogInv, NEW t \in Threads, NEW v \in Versions
  PROVE  /\ \A C \in SUBSET Codes : BeginRevision(t, v, C) => CatalogInv'
         /\ CopyRevision(t, v) => CatalogInv'
         /\ \A n : BeginPublish(t, v, n) => CatalogInv'
         /\ BeginPublishVersion(t, v) => CatalogInv'
         /\ BeginAbolish(t, v) => CatalogInv'
<1>1. ASSUME NEW C \in SUBSET Codes, BeginRevision(t, v, C) PROVE CatalogInv'
  <2>. PICK x : x = [op |-> "revise", version |-> v, number |-> Latest(v) + 1, clauses |-> C]
    OBVIOUS
  <2>1. Start(t, x) /\ x.op = "revise" /\ version[v] # "absent" /\ Latest(v) < MaxRevisions
    BY <1>1 DEF BeginRevision
  <2>2. Latest(v) \in Nat
    BY DEF CatalogInv, Rows, Latest
  <2>3. RevisionRead(x)
    BY <2>1, <2>2, StandardAssumption DEF RevisionRead
  <2>. QED
    BY <2>1, <2>3, CatalogStart
<1>2. ASSUME CopyRevision(t, v) PROVE CatalogInv'
  <2>1. version[v] # "absent" /\ BeginRevision(t, v, revisions[v][Latest(v)].clauses)
    BY <1>2 DEF CopyRevision
  <2>2. revisions[v] \in Seq(Revision) /\ revisions[v] # <<>>
    BY <2>1 DEF CatalogInv, Rows
  <2>3. revisions[v][Latest(v)] \in Revision
    BY <2>2 DEF Latest
  <2>4. revisions[v][Latest(v)].clauses \in SUBSET Codes
    BY <2>3 DEF Revision
  <2>. QED
    BY <1>1, <2>1, <2>4
<1>3. ASSUME NEW n, BeginPublish(t, v, n) PROVE CatalogInv'
  <2>. PICK x : x = [op |-> "publish", version |-> v, number |-> n,
               previous |-> Previous(v, n), was |-> revisions[v][n].status,
               wasVersion |-> version[v], wasStandard |-> standard[StandardOf[v]]]
    OBVIOUS
  <2>1. Start(t, x) /\ x.op = "publish" /\ PublishRead(x)
    BY <1>3 DEF BeginPublish, PublishRead
  <2>. QED
    BY <2>1, CatalogStart
<1>4. ASSUME BeginPublishVersion(t, v) PROVE CatalogInv'
  BY <1>3, <1>4 DEF BeginPublishVersion
<1>5. ASSUME BeginAbolish(t, v) PROVE CatalogInv'
  <2>. PICK x : x = [op |-> "abolish", version |-> v, another |-> AnotherActive(v),
               wasVersion |-> version[v], wasStandard |-> standard[StandardOf[v]]]
    OBVIOUS
  <2>1. Start(t, x) /\ x.op = "abolish" /\ AbolishRead(x)
    BY <1>5 DEF BeginAbolish, AbolishRead
  <2>. QED
    BY <2>1, CatalogStart
<1>. QED
  BY <1>1, <1>2, <1>3, <1>4, <1>5

\* The transactions of the rounds leave the catalog alone.
LEMMA RoundStepKeepsCatalog ==
  ASSUME SerialStore, CatalogInv, NEW t \in Threads
  PROVE  /\ \A r, v : BeginSelect(t, r, v) => CatalogInv'
         /\ \A x : BeginConfirm(t, x) => CatalogInv'
         /\ \A i, d : BeginDecide(t, i, d) => CatalogInv'
         /\ \A r : BeginAudit(t, r) => CatalogInv'
         /\ \A i : BeginAttempt(t, i) => CatalogInv'
         /\ LookForCoverage(t) => CatalogInv'
         /\ CommitSelect(t) \/ CommitConfirm(t) \/ CommitDecide(t) => CatalogInv'
         /\ CommitAudit(t) \/ CommitAttempt(t) \/ RollBack(t) => CatalogInv'
<1>1. ASSUME NEW r, NEW v, BeginSelect(t, r, v) PROVE CatalogInv'
  <2>1. PICK n : Start(t, [op |-> "select", round |-> r, version |-> v, revision |-> n])
    BY <1>1 DEF BeginSelect
  <2>. PICK x : x = [op |-> "select", round |-> r, version |-> v, revision |-> n]
    OBVIOUS
  <2>2. Start(t, x) /\ x.op = "select"
    BY <2>1
  <2>. QED
    BY <2>2, CatalogStart
<1>2. ASSUME NEW x, BeginConfirm(t, x) PROVE CatalogInv'
  <2>. PICK y : y = [op |-> "confirm", selection |-> x,
                     missing |-> {c \in ClausesOf(x) : ItemsFor(x.round, c) = {}}]
    OBVIOUS
  <2>1. Start(t, y) /\ y.op = "confirm"
    BY <1>2 DEF BeginConfirm
  <2>. QED
    BY <2>1, CatalogStart
<1>3. ASSUME NEW i, NEW d, BeginDecide(t, i, d) PROVE CatalogInv'
  <2>1. PICK was : Start(t, [op |-> "decide", item |-> i, decision |-> d, was |-> was])
    BY <1>3 DEF BeginDecide
  <2>. PICK y : y = [op |-> "decide", item |-> i, decision |-> d, was |-> was]
    OBVIOUS
  <2>2. Start(t, y) /\ y.op = "decide"
    BY <2>1
  <2>. QED
    BY <2>2, CatalogStart
<1>4. ASSUME LookForCoverage(t) PROVE CatalogInv'
  <2>. PICK x : x = open[t].selection
    OBVIOUS
  <2>. PICK y : y = [op |-> "cover", selection |-> x, missing |-> open[t].missing,
                     uncovered |-> {c \in ClausesOf(x) : CoverageFor(x.round, c) = {}}]
    OBVIOUS
  <2>1. y.op = "cover" /\ open[t] # None /\ open' = [open EXCEPT ![t] = y]
    BY <1>4 DEF LookForCoverage
  <2>2. standard' = standard /\ version' = version /\ revisions' = revisions
    BY <1>4 DEF LookForCoverage, catalog
  <2>3. Alone' /\ \A u \in Threads : open'[u] # None => open'[u] = y
    BY <2>1 DEF CatalogInv, Alone
  <2>4. CatalogRead'
    BY <2>1, <2>3 DEF CatalogRead
  <2>5. Rows' /\ OnePublishedRevision' /\ StandardFollowsVersions'
    BY <2>2 DEF CatalogInv, Rows, OnePublishedRevision, StandardFollowsVersions, Published
  <2>. QED
    BY <2>3, <2>4, <2>5 DEF CatalogInv
<1>5. ASSUME \/ CommitSelect(t) \/ CommitConfirm(t) \/ CommitDecide(t)
             \/ CommitAudit(t) \/ CommitAttempt(t) \/ RollBack(t)
      PROVE  CatalogInv'
  <2>1. open[t] # None /\ open' = [open EXCEPT ![t] = None] /\ UNCHANGED catalog
    BY <1>5 DEF CommitSelect, CommitConfirm, CommitDecide, CommitAudit, CommitAttempt,
                RollBack, Commits, catalog
  <2>. QED
    BY <2>1, CatalogClose
<1>6. ASSUME NEW r, BeginAudit(t, r) PROVE CatalogInv'
  <2>. PICK y : y = [op |-> "audit", asks |-> {Name(i) : i \in
                       {i \in items : i.round = r /\ i.decision = "applicable"}}]
    OBVIOUS
  <2>1. Start(t, y) /\ y.op = "audit"
    BY <1>6 DEF BeginAudit
  <2>. QED
    BY <2>1, CatalogStart
<1>7. ASSUME NEW i, BeginAttempt(t, i) PROVE CatalogInv'
  <2>1. PICK was : Start(t, [op |-> "attempt", item |-> i, was |-> was])
    BY <1>7 DEF BeginAttempt
  <2>. PICK y : y = [op |-> "attempt", item |-> i, was |-> was]
    OBVIOUS
  <2>2. Start(t, y) /\ y.op = "attempt"
    BY <2>1
  <2>. QED
    BY <2>2, CatalogStart
<1>. QED
  BY <1>1, <1>2, <1>3, <1>4, <1>5, <1>6, <1>7

\* Every step keeps the catalog's rows in agreement.
LEMMA CatalogStep ==
  ASSUME SerialStore PROVE CatalogInv /\ [Next]_vars => CatalogInv'
<1>. SUFFICES ASSUME CatalogInv, [Next]_vars PROVE CatalogInv'
  OBVIOUS
<1>1. CASE UNCHANGED vars
  <2>1. /\ standard' = standard /\ version' = version /\ revisions' = revisions
        /\ open' = open
    BY <1>1 DEF vars, catalog
  <2>2. Alone' /\ Rows' /\ OnePublishedRevision' /\ StandardFollowsVersions'
    BY <2>1 DEF CatalogInv, Alone, Rows, OnePublishedRevision, StandardFollowsVersions,
                Published
  <2>3. CatalogRead'
    BY <2>1 DEF CatalogInv, CatalogRead, RevisionRead, PublishRead, AbolishRead, Latest,
                Previous, AnotherActive
  <2>. QED
    BY <2>2, <2>3 DEF CatalogInv
<1>2. ASSUME NEW t \in Threads,
             \/ CommitSelect(t) \/ CommitConfirm(t) \/ CommitDecide(t)
             \/ CommitAudit(t) \/ CommitAttempt(t) \/ RollBack(t)
      PROVE  CatalogInv'
  BY <1>2, RoundStepKeepsCatalog
<1>3. ASSUME NEW t \in Threads, LookForCoverage(t) PROVE CatalogInv'
  BY <1>3, RoundStepKeepsCatalog
<1>4. ASSUME NEW t \in Threads, NEW x, BeginConfirm(t, x) PROVE CatalogInv'
  BY <1>4, RoundStepKeepsCatalog
<1>5. ASSUME NEW t \in Threads, NEW i, NEW d, BeginDecide(t, i, d) PROVE CatalogInv'
  BY <1>5, RoundStepKeepsCatalog
<1>6. ASSUME NEW t \in Threads, NEW r, NEW v, BeginSelect(t, r, v) PROVE CatalogInv'
  BY <1>6, RoundStepKeepsCatalog
<1>7. ASSUME NEW t \in Threads, NEW r, BeginAudit(t, r) PROVE CatalogInv'
  BY <1>7, RoundStepKeepsCatalog
<1>8. ASSUME NEW t \in Threads, NEW i, BeginAttempt(t, i) PROVE CatalogInv'
  BY <1>8, RoundStepKeepsCatalog
<1>. QED
  BY <1>1, <1>2, <1>3, <1>4, <1>5, <1>6, <1>7, <1>8, BeginKeeps, CreateStandardKeeps, CreateVersionKeeps,
     CommitRevisionKeeps, CommitPublishKeeps, CommitAbolishKeeps
  DEF Next

\* With serializable transactions a version never has two published revisions.
THEOREM OnePublishedRevisionHolds ==
  ASSUME SerialStore PROVE Spec => []OnePublishedRevision
<1>1. CatalogInv => OnePublishedRevision
  BY DEF CatalogInv
<1>. QED
  BY <1>1, CatalogInit, CatalogStep, PTL DEF Spec

\* With serializable transactions a published standard is active just as long as
\* it has an active version.
THEOREM StandardFollowsVersionsHolds ==
  ASSUME SerialStore PROVE Spec => []StandardFollowsVersions
<1>1. CatalogInv => StandardFollowsVersions
  BY DEF CatalogInv
<1>. QED
  BY <1>1, CatalogInit, CatalogStep, PTL DEF Spec

-----------------------------------------------------------------------------
(* The rows of the rounds.  Every item has one coverage row, which says    *)
(* what the item's decision amounts to, or that the item was executed; a   *)
(* clause has one item, and what is executed was found applicable once.    *)

RoundTypes ==
  /\ selections \subseteq Selection /\ items \subseteq Item
  /\ coverage \subseteq Coverage /\ asked \subseteq Names

Pinned == \A x \in selections : x.revision \in DOMAIN revisions[x.version]

SameClause(i, j) == i.round = j.round /\ i.clause = j.clause

\* What the coverage row of an item says.
Says(k, i) ==
  k.status = CoverageStatus(i.decision) \/ (k.status = "executed" /\ Name(i) \in asked)

Paired ==
  /\ \A i \in items : \E k \in coverage : Covers(k, i) /\ Says(k, i)
  /\ \A k \in coverage : \E i \in items : Covers(k, i)
  /\ \A i, j \in items : SameClause(i, j) => i = j
  /\ \A k, l \in coverage : SameClause(k, l) => k = l

ItemsOfConfirmed ==
  \A x \in selections : x.confirmed => \A c \in ClausesOf(x) : ItemsFor(x.round, c) # {}

\* An item that was looked at.
Reviewed(n) == \E i \in items : Name(i) = n /\ i.decision # "to_confirm"

AskedReviewed == \A n \in asked : Reviewed(n)

RoundPart == RoundTypes /\ Pinned /\ Paired /\ ItemsOfConfirmed /\ AskedReviewed

SelectRead(x) ==
  /\ x.round \in Rounds /\ x.version \in Versions
  /\ x.revision \in DOMAIN revisions[x.version]

ConfirmRead(x) ==
  /\ x.selection \in selections
  /\ x.missing = {c \in ClausesOf(x.selection) : ItemsFor(x.selection.round, c) = {}}

CoverRead(x) ==
  x.uncovered = {c \in ClausesOf(x.selection) : CoverageFor(x.selection.round, c) = {}}

DecideRead(x) ==
  /\ x.item \in items
  /\ x.decision \in Decisions
  /\ \E k \in coverage : Covers(k, x.item) /\ k.status = x.was

AuditRead(x) == \A n \in x.asks : n \in Names /\ Reviewed(n)

AttemptRead(x) ==
  x.item \in asked /\ \E k \in coverage : Covers(k, x.item) /\ k.status = x.was

RoundRead ==
  \A t \in Threads : open[t] # None =>
    /\ open[t].op = "select" => SelectRead(open[t])
    /\ open[t].op \in {"confirm", "cover"} => ConfirmRead(open[t])
    /\ open[t].op = "cover" => CoverRead(open[t])
    /\ open[t].op = "decide" => DecideRead(open[t])
    /\ open[t].op = "audit" => AuditRead(open[t])
    /\ open[t].op = "attempt" => AttemptRead(open[t])

\* The name of an item has the parts of the item, and tells it from the others.
LEMMA Named ==
  ASSUME NEW i, NEW k
  PROVE  /\ Name(i).round = i.round /\ Name(i).clause = i.clause /\ Name(i).by = i.by
         /\ Covers(k, Name(i)) <=> Covers(k, i)
         /\ i \in Item => Name(i) \in Names
  BY DEF Name, Names, Covers, Item

\* An item that an execution was asked of has a row, which is its only one.
LEMMA AskedRow ==
  ASSUME RoundPart, NEW n \in asked
  PROVE  \E k \in coverage : Covers(k, n)
<1>1. PICK i \in items : Name(i) = n
  BY DEF RoundPart, AskedReviewed, Reviewed
<1>2. PICK k \in coverage : Covers(k, i)
  BY DEF RoundPart, Paired
<1>. QED
  BY <1>1, <1>2, Named

\* A clause without an item is one without a coverage row.
LEMMA MissingIsUncovered ==
  ASSUME Paired, NEW r, NEW c PROVE ItemsFor(r, c) = {} <=> CoverageFor(r, c) = {}
  BY DEF Paired, ItemsFor, CoverageFor, Covers

\* The clauses of a revision never change.
ClausesKept ==
  \A v \in Versions : \A m \in DOMAIN revisions[v] :
    m \in DOMAIN revisions'[v] /\ revisions'[v][m].clauses = revisions[v][m].clauses

\* A step that leaves the rows of the rounds alone.
LEMMA RoundKept ==
  ASSUME RoundPart, ClausesKept, UNCHANGED roundRows PROVE RoundPart'
<1>1. selections' = selections /\ items' = items /\ coverage' = coverage /\ asked' = asked
  BY DEF roundRows
<1>2. \A x \in selections : x.version \in Versions
  BY DEF RoundPart, RoundTypes, Selection
<1>3. Pinned'
  BY <1>1, <1>2 DEF RoundPart, Pinned, ClausesKept
<1>4. \A x \in selections : ClausesOf(x)' = ClausesOf(x)
  BY <1>2 DEF RoundPart, Pinned, ClausesKept, ClausesOf
<1>5. ItemsOfConfirmed'
  BY <1>1, <1>4 DEF RoundPart, ItemsOfConfirmed, ItemsFor
<1>6. RoundTypes' /\ Paired' /\ AskedReviewed'
  BY <1>1 DEF RoundPart, RoundTypes, Paired, Says, AskedReviewed, Reviewed
<1>. QED
  BY <1>3, <1>5, <1>6 DEF RoundPart

\* The steps of the catalog keep the clauses, and leave the rounds alone.
LEMMA CreateKeepsClauses ==
  ASSUME CatalogInv, NEW v \in Versions, NEW status, CreateVersion(v, status)
  PROVE  ClausesKept
<1>1. revisions[v] = <<>>
  BY DEF CatalogInv, Rows, CreateVersion
<1>2. \A w \in Versions \ {v} : revisions'[w] = revisions[w]
  BY DEF CatalogInv, Rows, CreateVersion
<1>3. DOMAIN revisions[v] = {}
  BY <1>1
<1>. QED
  BY <1>2, <1>3 DEF ClausesKept

\* A new revision is added behind the others.
LEMMA RevisionKeepsClauses ==
  ASSUME CatalogInv, NEW t \in Threads, CommitRevision(t) PROVE ClausesKept
<1>. PICK x : x = open[t]
  OBVIOUS
<1>. PICK v : v = x.version
  OBVIOUS
<1>. PICK draft : draft = [clauses |-> x.clauses, status |-> "draft"]
  OBVIOUS
<1>1. v \in Versions /\ Latest(v) + 1 = x.number /\ draft \in Revision
  BY DEF CommitRevision, Commits, CatalogInv, CatalogRead, RevisionRead, Revision
<1>2. revisions' = [revisions EXCEPT ![v] = Append(revisions[v], draft)]
  BY <1>1 DEF CommitRevision
<1>3. revisions[v] \in Seq(Revision)
  BY <1>1 DEF CatalogInv, Rows
<1>4. \A m \in DOMAIN revisions[v] :
        /\ m \in DOMAIN Append(revisions[v], draft)
        /\ Append(revisions[v], draft)[m] = revisions[v][m]
  BY <1>1, <1>3
<1>5. revisions'[v] = Append(revisions[v], draft)
  BY <1>1, <1>2 DEF CatalogInv, Rows
<1>6. \A w \in Versions \ {v} : revisions'[w] = revisions[w]
  BY <1>2 DEF CatalogInv, Rows
<1>. QED
  BY <1>4, <1>5, <1>6 DEF ClausesKept

\* Publishing changes only statuses.
LEMMA PublishKeepsClauses ==
  ASSUME CatalogInv, NEW t \in Threads, CommitPublish(t) PROVE ClausesKept
<1>. PICK x : x = open[t]
  OBVIOUS
<1>. PICK v : v = x.version
  OBVIOUS
<1>1. v \in Versions
  BY DEF CommitPublish, Commits, CatalogInv, CatalogRead, PublishRead
<1>2. revisions'[v] =
        [m \in DOMAIN revisions[v] |->
           [clauses |-> revisions[v][m].clauses,
            status  |-> IF m = x.number
                        THEN Written(x.was, "published", revisions[v][m].status)
                        ELSE IF m \in x.previous THEN "archived"
                        ELSE revisions[v][m].status]]
  BY <1>1 DEF CommitPublish, CatalogInv, Rows
<1>3. \A w \in Versions \ {v} : revisions'[w] = revisions[w]
  BY DEF CommitPublish, CatalogInv, Rows
<1>4. \A m \in DOMAIN revisions[v] :
        m \in DOMAIN revisions'[v] /\ revisions'[v][m].clauses = revisions[v][m].clauses
  BY <1>2
<1>. QED
  BY <1>3, <1>4 DEF ClausesKept

RoundInv == RoundPart /\ RoundRead

\* A step of the catalog leaves the rows of the rounds as they are, and closes
\* its transaction if it has one.
LEMMA CatalogStepKeepsRounds ==
  ASSUME SerialStore, CatalogInv, RoundInv
  PROVE  /\ \A s \in Standards : CreateStandard(s) => RoundInv'
         /\ \A v \in Versions : \A status : CreateVersion(v, status) => RoundInv'
         /\ \A t \in Threads :
              CommitRevision(t) \/ CommitPublish(t) \/ CommitAbolish(t) \/ RollBack(t)
                => RoundInv'
<1>1. ASSUME Closed', ClausesKept, UNCHANGED roundRows PROVE RoundInv'
  BY <1>1, RoundKept DEF RoundInv, RoundRead, Closed
<1>2. ASSUME NEW s \in Standards, CreateStandard(s) PROVE RoundInv'
  <2>1. Closed' /\ ClausesKept /\ UNCHANGED roundRows
    BY <1>2 DEF CreateStandard, Isolated, Closed, ClausesKept
  <2>. QED
    BY <1>1, <2>1
<1>3. ASSUME NEW v \in Versions, NEW status, CreateVersion(v, status) PROVE RoundInv'
  <2>1. Closed' /\ UNCHANGED roundRows
    BY <1>3 DEF CreateVersion, Isolated, Closed
  <2>. QED
    BY <1>1, <1>3, <2>1, CreateKeepsClauses
<1>4. ASSUME NEW t \in Threads,
             CommitRevision(t) \/ CommitPublish(t) \/ CommitAbolish(t) \/ RollBack(t)
      PROVE  RoundInv'
  <2>1. open[t] # None /\ open' = [open EXCEPT ![t] = None] /\ UNCHANGED roundRows
    BY <1>4 DEF CommitRevision, CommitPublish, CommitAbolish, RollBack, Commits
  <2>2. Closed'
    BY <2>1, CommitCloses DEF CatalogInv
  <2>3. CASE CommitRevision(t)
    BY <1>1, <2>1, <2>2, <2>3, RevisionKeepsClauses
  <2>4. CASE CommitPublish(t)
    BY <1>1, <2>1, <2>2, <2>4, PublishKeepsClauses
  <2>5. CASE CommitAbolish(t) \/ RollBack(t)
    <3>1. ClausesKept
      BY <2>5 DEF CommitAbolish, RollBack, catalog, ClausesKept
    <3>. QED
      BY <1>1, <2>1, <2>2, <3>1
  <2>. QED
    BY <1>4, <2>3, <2>4, <2>5
<1>. QED
  BY <1>2, <1>3, <1>4

\* A transaction that begins has read what holds.
LEMMA RoundStart ==
  ASSUME SerialStore, CatalogInv, RoundInv, NEW t \in Threads, NEW x, Start(t, x),
         x.op = "select" => SelectRead(x),
         x.op \in {"confirm", "cover"} => ConfirmRead(x),
         x.op = "cover" => CoverRead(x),
         x.op = "decide" => DecideRead(x),
         x.op = "audit" => AuditRead(x),
         x.op = "attempt" => AttemptRead(x)
  PROVE  RoundInv'
<1>1. open'[t] = x /\ \A u \in Threads \ {t} : open'[u] = None
  BY StartAlone DEF CatalogInv
<1>2. /\ revisions' = revisions /\ selections' = selections /\ items' = items
      /\ coverage' = coverage /\ asked' = asked
  BY DEF Start, catalog, roundRows
<1>3. RoundPart'
  BY <1>2, RoundKept DEF RoundInv, ClausesKept, roundRows
<1>4. /\ SelectRead(x)' = SelectRead(x) /\ ConfirmRead(x)' = ConfirmRead(x)
      /\ CoverRead(x)' = CoverRead(x) /\ DecideRead(x)' = DecideRead(x)
      /\ AuditRead(x)' = AuditRead(x) /\ AttemptRead(x)' = AttemptRead(x)
  BY <1>2 DEF SelectRead, ConfirmRead, CoverRead, DecideRead, AuditRead, AttemptRead,
              Reviewed, ClausesOf, ItemsFor, CoverageFor
<1>5. /\ x.op = "select" => SelectRead(x)'
      /\ x.op \in {"confirm", "cover"} => ConfirmRead(x)'
      /\ x.op = "cover" => CoverRead(x)'
      /\ x.op = "decide" => DecideRead(x)'
      /\ x.op = "audit" => AuditRead(x)'
      /\ x.op = "attempt" => AttemptRead(x)'
  BY <1>4
<1>6. RoundRead'
  BY <1>1, <1>5 DEF RoundRead, SelectRead, ConfirmRead, CoverRead, DecideRead, AuditRead,
                    AttemptRead
<1>. QED
  BY <1>3, <1>6 DEF RoundInv

\* What the transactions of the catalog read is of no matter to the rounds.
LEMMA CatalogBeginsKeepRounds ==
  ASSUME SerialStore, CatalogInv, RoundInv, NEW t \in Threads, NEW v \in Versions
  PROVE  /\ \A C \in SUBSET Codes : BeginRevision(t, v, C) => RoundInv'
         /\ CopyRevision(t, v) => RoundInv'
         /\ \A n : BeginPublish(t, v, n) => RoundInv'
         /\ BeginPublishVersion(t, v) => RoundInv'
         /\ BeginAbolish(t, v) => RoundInv'
<1>1. ASSUME NEW C, BeginRevision(t, v, C) PROVE RoundInv'
  <2>. PICK x : x = [op |-> "revise", version |-> v, number |-> Latest(v) + 1, clauses |-> C]
    OBVIOUS
  <2>1. Start(t, x) /\ x.op = "revise"
    BY <1>1 DEF BeginRevision
  <2>. QED
    BY <2>1, RoundStart
<1>2. ASSUME CopyRevision(t, v) PROVE RoundInv'
  BY <1>1, <1>2 DEF CopyRevision
<1>3. ASSUME NEW n, BeginPublish(t, v, n) PROVE RoundInv'
  <2>. PICK x : x = [op |-> "publish", version |-> v, number |-> n,
               previous |-> Previous(v, n), was |-> revisions[v][n].status,
               wasVersion |-> version[v], wasStandard |-> standard[StandardOf[v]]]
    OBVIOUS
  <2>1. Start(t, x) /\ x.op = "publish"
    BY <1>3 DEF BeginPublish
  <2>. QED
    BY <2>1, RoundStart
<1>4. ASSUME BeginPublishVersion(t, v) PROVE RoundInv'
  BY <1>3, <1>4 DEF BeginPublishVersion
<1>5. ASSUME BeginAbolish(t, v) PROVE RoundInv'
  <2>. PICK x : x = [op |-> "abolish", version |-> v, another |-> AnotherActive(v),
               wasVersion |-> version[v], wasStandard |-> standard[StandardOf[v]]]
    OBVIOUS
  <2>1. Start(t, x) /\ x.op = "abolish"
    BY <1>5 DEF BeginAbolish
  <2>. QED
    BY <2>1, RoundStart
<1>. QED
  BY <1>1, <1>2, <1>3, <1>4, <1>5

\* The transactions of the rounds begin with what holds.
LEMMA RoundBeginsKeep ==
  ASSUME SerialStore, CatalogInv, RoundInv, NEW t \in Threads
  PROVE  /\ \A r \in Rounds, v \in Versions : BeginSelect(t, r, v) => RoundInv'
         /\ \A x \in selections : BeginConfirm(t, x) => RoundInv'
         /\ \A i \in items, d \in Decisions : BeginDecide(t, i, d) => RoundInv'
         /\ \A r \in Rounds : BeginAudit(t, r) => RoundInv'
         /\ \A i \in asked : BeginAttempt(t, i) => RoundInv'
         /\ LookForCoverage(t) => RoundInv'
<1>1. ASSUME NEW r \in Rounds, NEW v \in Versions, BeginSelect(t, r, v) PROVE RoundInv'
  <2>1. PICK n \in Published(v) :
          Start(t, [op |-> "select", round |-> r, version |-> v, revision |-> n])
    BY <1>1 DEF BeginSelect
  <2>. PICK x : x = [op |-> "select", round |-> r, version |-> v, revision |-> n]
    OBVIOUS
  <2>2. Start(t, x) /\ x.op = "select" /\ SelectRead(x)
    BY <2>1 DEF SelectRead, Published
  <2>. QED
    BY <2>2, RoundStart
<1>2. ASSUME NEW x \in selections, BeginConfirm(t, x) PROVE RoundInv'
  <2>. PICK y : y = [op |-> "confirm", selection |-> x,
                     missing |-> {c \in ClausesOf(x) : ItemsFor(x.round, c) = {}}]
    OBVIOUS
  <2>1. Start(t, y) /\ y.op = "confirm" /\ ConfirmRead(y)
    BY <1>2 DEF BeginConfirm, ConfirmRead
  <2>. QED
    BY <2>1, RoundStart
<1>3. ASSUME NEW i \in items, NEW d \in Decisions, BeginDecide(t, i, d) PROVE RoundInv'
  <2>1. PICK was \in RowStatus(i) :
          Start(t, [op |-> "decide", item |-> i, decision |-> d, was |-> was])
    BY <1>3 DEF BeginDecide
  <2>2. \E k \in coverage : Covers(k, i)
    BY DEF RoundInv, RoundPart, Paired
  <2>3. \E k \in coverage : Covers(k, i) /\ k.status = was
    BY <2>1, <2>2 DEF RowStatus
  <2>. PICK y : y = [op |-> "decide", item |-> i, decision |-> d, was |-> was]
    OBVIOUS
  <2>4. Start(t, y) /\ y.op = "decide" /\ DecideRead(y)
    BY <2>1, <2>3 DEF DecideRead
  <2>. QED
    BY <2>4, RoundStart
<1>4. ASSUME LookForCoverage(t) PROVE RoundInv'
  <2>. PICK x : x = open[t].selection
    OBVIOUS
  <2>. PICK y : y = [op |-> "cover", selection |-> x, missing |-> open[t].missing,
                     uncovered |-> {c \in ClausesOf(x) : CoverageFor(x.round, c) = {}}]
    OBVIOUS
  <2>1. /\ open[t] # None /\ open[t].op = "confirm" /\ open' = [open EXCEPT ![t] = y]
        /\ revisions' = revisions /\ UNCHANGED roundRows
    BY <1>4 DEF LookForCoverage, catalog
  <2>2. \A u \in Threads : open'[u] # None => open'[u] = y
    BY <2>1 DEF CatalogInv, Alone
  <2>3. ConfirmRead(y) /\ CoverRead(y) /\ y.op = "cover"
    BY <2>1 DEF RoundInv, RoundRead, ConfirmRead, CoverRead
  <2>4. ConfirmRead(y)' /\ CoverRead(y)'
    BY <2>1, <2>3 DEF roundRows, ConfirmRead, CoverRead, ClausesOf, ItemsFor, CoverageFor
  <2>5. RoundRead'
    BY <2>2, <2>3, <2>4 DEF RoundRead, ConfirmRead, CoverRead
  <2>6. RoundPart'
    BY <2>1, RoundKept DEF RoundInv, ClausesKept
  <2>. QED
    BY <2>5, <2>6 DEF RoundInv
<1>5. ASSUME NEW r \in Rounds, BeginAudit(t, r) PROVE RoundInv'
  <2>. DEFINE applicable == {i \in items : i.round = r /\ i.decision = "applicable"}
              y == [op |-> "audit", asks |-> {Name(i) : i \in applicable}]
  <2>1. Start(t, y)
    BY <1>5 DEF BeginAudit
  <2>2. \A i \in applicable : Name(i) \in Names /\ Reviewed(Name(i))
    BY Named DEF RoundInv, RoundPart, RoundTypes, Reviewed
  <2>3. y.op = "audit" /\ AuditRead(y)
    BY <2>2 DEF AuditRead
  <2>. HIDE DEF y
  <2>. QED
    BY <2>1, <2>3, RoundStart
<1>6. ASSUME NEW i \in asked, BeginAttempt(t, i) PROVE RoundInv'
  <2>1. PICK was \in RowStatus(i) : Start(t, [op |-> "attempt", item |-> i, was |-> was])
    BY <1>6 DEF BeginAttempt
  <2>2. \E k \in coverage : Covers(k, i) /\ k.status = was
    BY <2>1, AskedRow DEF RowStatus, RoundInv
  <2>. PICK y : y = [op |-> "attempt", item |-> i, was |-> was]
    OBVIOUS
  <2>3. Start(t, y) /\ y.op = "attempt" /\ AttemptRead(y)
    BY <2>1, <2>2 DEF AttemptRead
  <2>. QED
    BY <2>3, RoundStart
<1>. QED
  BY <1>1, <1>2, <1>3, <1>4, <1>5, <1>6

-----------------------------------------------------------------------------
(* Transactions of the rounds that commit.                                 *)

\* A selection pins the revision that was read as published.
LEMMA CommitSelectKeeps ==
  ASSUME CatalogInv, RoundInv, NEW t \in Threads, CommitSelect(t) PROVE RoundInv'
<1>. PICK x : x = open[t]
  OBVIOUS
<1>. PICK y : y = [round |-> x.round, version |-> x.version, by |-> t,
                   revision |-> x.revision, confirmed |-> FALSE]
  OBVIOUS
<1>1. Closed'
  BY CommitCloses DEF CommitSelect, Commits, CatalogInv
<1>2. SelectRead(x)
  BY DEF CommitSelect, Commits, RoundInv, RoundRead
<1>3. /\ selections' = selections \cup {y} /\ items' = items /\ coverage' = coverage
      /\ asked' = asked /\ revisions' = revisions
  BY DEF CommitSelect, catalog
<1>4. x.revision \in Numbers
  <2>1. /\ x.version \in Versions /\ x.revision \in DOMAIN revisions[x.version]
        /\ revisions[x.version] \in Seq(Revision)
        /\ Len(revisions[x.version]) <= MaxRevisions
    BY <1>2 DEF SelectRead, CatalogInv, Rows
  <2>2. Len(revisions[x.version]) \in Nat /\ x.revision \in 1..Len(revisions[x.version])
    BY <2>1
  <2>. QED
    BY <2>1, <2>2, StandardAssumption DEF Numbers
<1>5. y \in Selection
  BY <1>2, <1>4 DEF SelectRead, Selection
<1>6. RoundTypes'
  BY <1>3, <1>5 DEF RoundInv, RoundPart, RoundTypes
<1>7. Pinned'
  BY <1>2, <1>3 DEF RoundInv, RoundPart, Pinned, SelectRead
<1>8. Paired' /\ AskedReviewed'
  BY <1>3 DEF RoundInv, RoundPart, Paired, Says, AskedReviewed, Reviewed
<1>9. ItemsOfConfirmed'
  <2>1. ~ y.confirmed
    OBVIOUS
  <2>. QED
    BY <1>3, <2>1 DEF RoundInv, RoundPart, ItemsOfConfirmed, ClausesOf, ItemsFor
<1>. QED
  BY <1>1, <1>6, <1>7, <1>8, <1>9 DEF RoundInv, RoundPart, RoundRead, Closed

\* A confirmation gives every clause without an item an item and a row.
LEMMA CommitConfirmKeeps ==
  ASSUME CatalogInv, RoundInv, NEW t \in Threads, CommitConfirm(t) PROVE RoundInv'
<1>. PICK x : x = open[t].selection
  OBVIOUS
<1>. PICK r : r = x.round
  OBVIOUS
<1>. PICK M : M = open[t].missing
  OBVIOUS
<1>. DEFINE I(c) == [round |-> r, clause |-> c, by |-> t, decision |-> "to_confirm"]
            K(c) == [round |-> r, clause |-> c, by |-> t, status |-> "to_confirm", item |-> t]
<1>. PICK y : y = [x EXCEPT !.confirmed = TRUE]
  OBVIOUS
<1>1. Closed'
  BY CommitCloses DEF CommitConfirm, Commits, CatalogInv
<1>2. open[t] # None /\ open[t].op = "cover"
  BY DEF CommitConfirm, Commits
<1>3. /\ x \in selections
      /\ M = {c \in ClausesOf(x) : ItemsFor(r, c) = {}}
      /\ open[t].uncovered = {c \in ClausesOf(x) : CoverageFor(r, c) = {}}
  BY <1>2 DEF RoundInv, RoundRead, ConfirmRead, CoverRead
<1>4. open[t].uncovered = M
  BY <1>3, MissingIsUncovered DEF RoundInv, RoundPart
<1>5. items' = items \cup {I(c) : c \in M}
  BY DEF CommitConfirm
<1>6. coverage' = coverage \cup {K(c) : c \in M}
  <2>1. coverage' = coverage \cup
             {[round |-> r, clause |-> c, by |-> t, status |-> "to_confirm",
               item |-> IF c \in M THEN t ELSE (CHOOSE i \in ItemsFor(r, c) : TRUE).by]
                : c \in M}
    BY <1>4 DEF CommitConfirm
  <2>2. \A c \in M : K(c) = [round |-> r, clause |-> c, by |-> t, status |-> "to_confirm",
               item |-> IF c \in M THEN t ELSE (CHOOSE i \in ItemsFor(r, c) : TRUE).by]
    OBVIOUS
  <2>. QED
    BY <2>1, <2>2
<1>7. /\ selections' = (selections \ {x}) \cup {y} /\ revisions' = revisions
      /\ asked' = asked
  BY DEF CommitConfirm, catalog
<1>8. x \in Selection /\ r \in Rounds
  BY <1>3 DEF RoundInv, RoundPart, RoundTypes, Selection
<1>9. y \in Selection /\ y.round = r /\ y.version = x.version /\ y.revision = x.revision
  BY <1>8 DEF Selection
<1>10. M \subseteq Clauses
  <2>1. x.version \in Versions /\ x.revision \in DOMAIN revisions[x.version]
    BY <1>3, <1>8 DEF RoundInv, RoundPart, Pinned, Selection
  <2>2. revisions[x.version][x.revision] \in Revision
    BY <2>1 DEF CatalogInv, Rows
  <2>3. x.revision \in Numbers
    BY <1>8 DEF Selection
  <2>4. ClausesOf(x) \subseteq Clauses
    BY <2>1, <2>2, <2>3 DEF ClausesOf, Clauses, Revision
  <2>. QED
    BY <1>3, <2>4
<1>11. \A c \in M : /\ I(c) \in Item /\ K(c) \in Coverage
                    /\ I(c).round = r /\ I(c).clause = c /\ I(c).by = t
                    /\ I(c).decision = "to_confirm"
                    /\ K(c).round = r /\ K(c).clause = c /\ K(c).item = t
                    /\ K(c).status = "to_confirm"
  BY <1>8, <1>10 DEF Item, Coverage
<1>. HIDE DEF I, K
<1>12. RoundTypes'
  BY <1>5, <1>6, <1>7, <1>9, <1>11 DEF RoundInv, RoundPart, RoundTypes
<1>13. Pinned'
  BY <1>3, <1>7, <1>9 DEF RoundInv, RoundPart, Pinned
<1>14. \A c \in M : ItemsFor(r, c) = {} /\ CoverageFor(r, c) = {}
  BY <1>3, <1>4
<1>15. Paired'
  <2>1. \A i \in items' : \E k \in coverage' : Covers(k, i) /\ Says(k, i)'
    <3>1. ASSUME NEW i \in items
          PROVE  \E k \in coverage' : Covers(k, i) /\ Says(k, i)'
      BY <1>6, <1>7 DEF RoundInv, RoundPart, Paired, Says
    <3>2. ASSUME NEW c \in M
          PROVE  \E k \in coverage' : Covers(k, I(c)) /\ Says(k, I(c))'
      <4>1. K(c) \in coverage'
        BY <1>6
      <4>2. K(c).status = CoverageStatus(I(c).decision)
        BY <1>11 DEF CoverageStatus
      <4>. QED
        BY <1>11, <4>1, <4>2 DEF Covers, Says
    <3>. QED
      BY <1>5, <3>1, <3>2
  <2>2. \A k \in coverage' : \E i \in items' : Covers(k, i)
    <3>1. ASSUME NEW k \in coverage PROVE \E i \in items' : Covers(k, i)
      BY <1>5 DEF RoundInv, RoundPart, Paired
    <3>2. ASSUME NEW c \in M PROVE \E i \in items' : Covers(K(c), i)
      <4>1. I(c) \in items'
        BY <1>5
      <4>. QED
        BY <1>11, <4>1 DEF Covers
    <3>. QED
      BY <1>6, <3>1, <3>2
  <2>3. \A i, j \in items' : SameClause(i, j) => i = j
    BY <1>5, <1>11, <1>14 DEF RoundInv, RoundPart, Paired, SameClause, ItemsFor
  <2>4. \A k, l \in coverage' : SameClause(k, l) => k = l
    BY <1>6, <1>11, <1>14 DEF RoundInv, RoundPart, Paired, SameClause, CoverageFor
  <2>. QED
    BY <2>1, <2>2, <2>3, <2>4 DEF Paired
<1>16. ItemsOfConfirmed'
  <2>1. \A z : ClausesOf(z)' = ClausesOf(z)
    BY <1>7 DEF ClausesOf
  <2>2. \A q, c : ItemsFor(q, c) \subseteq ItemsFor(q, c)'
    BY <1>5 DEF ItemsFor
  <2>3. ClausesOf(y) = ClausesOf(x)
    BY <1>9 DEF ClausesOf
  <2>4. \A c \in ClausesOf(x) : ItemsFor(r, c)' # {}
    <3>1. ASSUME NEW c \in M PROVE ItemsFor(r, c)' # {}
      BY <1>5, <1>11, <3>1 DEF ItemsFor
    <3>. QED
      BY <1>3, <2>2, <3>1
  <2>. QED
    <3>1. ASSUME NEW z \in selections, z.confirmed, NEW c \in ClausesOf(z)
          PROVE  ItemsFor(z.round, c)' # {}
      BY <2>2, <3>1 DEF RoundInv, RoundPart, ItemsOfConfirmed
    <3>2. \A c \in ClausesOf(y) : ItemsFor(y.round, c)' # {}
      BY <1>9, <2>3, <2>4
    <3>3. \A z \in selections' : z = y \/ z \in selections
      BY <1>7
    <3>4. ASSUME NEW z \in selections', z.confirmed, NEW c \in ClausesOf(z)
          PROVE  ItemsFor(z.round, c)' # {}
      <4>1. CASE z = y
        BY <3>2, <3>4, <4>1
      <4>2. CASE z \in selections
        BY <3>1, <3>4, <4>2
      <4>. QED
        BY <3>3, <4>1, <4>2
    <3>. QED
      BY <2>1, <3>4 DEF ItemsOfConfirmed
<1>17. AskedReviewed'
  BY <1>5, <1>7 DEF RoundInv, RoundPart, AskedReviewed, Reviewed
<1>. QED
  BY <1>1, <1>12, <1>13, <1>15, <1>16, <1>17 DEF RoundInv, RoundPart, RoundRead, Closed

\* A decision is written to its item and to the item's row, and to no others.
LEMMA CommitDecideKeeps ==
  ASSUME CatalogInv, RoundInv, NEW t \in Threads, CommitDecide(t) PROVE RoundInv'
<1>. PICK x : x = open[t]
  OBVIOUS
<1>. PICK i : i = x.item
  OBVIOUS
<1>. PICK d : d = x.decision
  OBVIOUS
<1>1. Closed'
  BY CommitCloses DEF CommitDecide, Commits, CatalogInv
<1>2. DecideRead(x)
  BY DEF CommitDecide, Commits, RoundInv, RoundRead
<1>3. i \in items /\ d \in Decisions
  BY <1>2 DEF DecideRead
<1>4. PICK k \in coverage : Covers(k, i) /\ k.status = x.was
  BY <1>2 DEF DecideRead
<1>5. i \in Item /\ k \in Coverage
  BY <1>3, <1>4 DEF RoundInv, RoundPart, RoundTypes
<1>. PICK i2 : i2 = [round |-> i.round, clause |-> i.clause, by |-> i.by, decision |-> d]
  OBVIOUS
<1>. PICK k2 : k2 = [round |-> k.round, clause |-> k.clause, by |-> k.by, item |-> k.item,
                     status |-> CoverageStatus(d)]
  OBVIOUS
<1>6. /\ i2 \in Item /\ i2.round = i.round /\ i2.clause = i.clause /\ i2.by = i.by
      /\ i2.decision = d
  BY <1>3, <1>5 DEF Item
<1>7. /\ k2 \in Coverage /\ k2.round = k.round /\ k2.clause = k.clause /\ k2.item = k.item
      /\ k2.status = CoverageStatus(d)
  BY <1>3, <1>5 DEF Coverage, CoverageStatus, Decisions
<1>8. items' = (items \ {i}) \cup {i2}
  <2>1. [i EXCEPT !.decision = Written(i.decision, d, i.decision)] = i2
    BY <1>5 DEF Written, Item
  <2>2. \A j \in items : Name(j) = Name(i) <=> j = i
    BY <1>3 DEF RoundInv, RoundPart, Paired, SameClause, Name
  <2>. DEFINE Now(j) == IF Name(j) = Name(i)
                        THEN [j EXCEPT !.decision = Written(i.decision, d, j.decision)]
                        ELSE j
  <2>3. items' = {Now(j) : j \in items}
    BY DEF CommitDecide
  <2>4. \A j \in items \ {i} : Now(j) = j
    BY <2>2
  <2>5. Now(i) = i2
    BY <2>1
  <2>. HIDE DEF Now
  <2>. QED
    BY <1>3, <2>3, <2>4, <2>5
<1>9. \A l \in coverage : Covers(l, i) <=> l = k
  BY <1>4 DEF RoundInv, RoundPart, Paired, SameClause, Covers
<1>10. coverage' = (coverage \ {k}) \cup {k2}
  <2>1. x.was # "no row"
    BY <1>4, <1>5 DEF Coverage
  <2>2. [k EXCEPT !.status = Written(x.was, CoverageStatus(d), k.status)] = k2
    BY <1>4, <1>5 DEF Written, Coverage
  <2>. DEFINE Now(l) == IF Covers(l, i) /\ x.was # "no row"
                        THEN [l EXCEPT !.status = Written(x.was, CoverageStatus(d), l.status)]
                        ELSE l
  <2>3. coverage' = {Now(l) : l \in coverage}
    BY DEF CommitDecide
  <2>4. \A l \in coverage \ {k} : Now(l) = l
    BY <1>9
  <2>5. Now(k) = k2
    BY <1>4, <2>1, <2>2
  <2>. HIDE DEF Now
  <2>. QED
    BY <1>4, <2>3, <2>4, <2>5
<1>11. selections' = selections /\ revisions' = revisions /\ asked' = asked
  BY DEF CommitDecide, catalog
<1>12. RoundTypes'
  BY <1>6, <1>7, <1>8, <1>10, <1>11 DEF RoundInv, RoundPart, RoundTypes
<1>13. Pinned'
  BY <1>11 DEF RoundInv, RoundPart, Pinned
<1>14. Covers(k2, i2)
  BY <1>4, <1>6, <1>7 DEF Covers
<1>15. \A j \in items \ {i} : ~ Covers(k, j)
  BY <1>3, <1>4 DEF RoundInv, RoundPart, Paired, SameClause, Covers
<1>16. Paired'
  <2>1. \A j \in items' : \E l \in coverage' : Covers(l, j) /\ Says(l, j)'
    <3>1. ASSUME NEW j \in items \ {i}
          PROVE  \E l \in coverage' : Covers(l, j) /\ Says(l, j)'
      <4>1. PICK l \in coverage : Covers(l, j) /\ Says(l, j)
        BY DEF RoundInv, RoundPart, Paired
      <4>2. l \in coverage'
        BY <1>10, <1>15, <4>1
      <4>. QED
        BY <1>11, <4>1, <4>2 DEF Says
    <3>2. Says(k2, i2)'
      BY <1>6, <1>7 DEF Says
    <3>. QED
      BY <1>8, <1>10, <1>14, <3>1, <3>2
  <2>2. \A l \in coverage' : \E j \in items' : Covers(l, j)
    <3>1. ASSUME NEW l \in coverage \ {k} PROVE \E j \in items' : Covers(l, j)
      <4>1. PICK j \in items : Covers(l, j)
        BY DEF RoundInv, RoundPart, Paired
      <4>2. j \in items'
        BY <1>8, <1>9, <4>1
      <4>. QED
        BY <4>1, <4>2
    <3>. QED
      BY <1>8, <1>10, <1>14, <3>1
  <2>3. \A j, m \in items' : SameClause(j, m) => j = m
    BY <1>3, <1>6, <1>8 DEF RoundInv, RoundPart, Paired, SameClause
  <2>4. \A l, m \in coverage' : SameClause(l, m) => l = m
    BY <1>4, <1>7, <1>10 DEF RoundInv, RoundPart, Paired, SameClause
  <2>. QED
    BY <2>1, <2>2, <2>3, <2>4 DEF Paired
<1>17. ItemsOfConfirmed'
  <2>1. \A z : ClausesOf(z)' = ClausesOf(z)
    BY <1>11 DEF ClausesOf
  <2>2. \A q, c : ItemsFor(q, c) # {} => ItemsFor(q, c)' # {}
    BY <1>6, <1>8 DEF ItemsFor
  <2>. QED
    BY <1>11, <2>1, <2>2 DEF RoundInv, RoundPart, ItemsOfConfirmed
<1>18. AskedReviewed'
  <2>1. Name(i2) = Name(i) /\ i2.decision # "to_confirm"
    BY <1>3, <1>6 DEF Name, Decisions
  <2>2. \A j \in items : j.decision # "to_confirm" =>
          \E l \in items' : Name(l) = Name(j) /\ l.decision # "to_confirm"
    BY <1>8, <2>1
  <2>. QED
    BY <1>11, <2>2 DEF RoundInv, RoundPart, AskedReviewed, Reviewed
<1>. QED
  BY <1>1, <1>12, <1>13, <1>16, <1>17, <1>18 DEF RoundInv, RoundPart, RoundRead, Closed

\* An audit asks for items that were found applicable.
LEMMA CommitAuditKeeps ==
  ASSUME CatalogInv, RoundInv, NEW t \in Threads, CommitAudit(t) PROVE RoundInv'
<1>1. Closed'
  BY CommitCloses DEF CommitAudit, Commits, CatalogInv
<1>2. AuditRead(open[t])
  BY DEF CommitAudit, Commits, RoundInv, RoundRead
<1>3. /\ asked' = asked \cup open[t].asks /\ items' = items /\ coverage' = coverage
      /\ selections' = selections /\ revisions' = revisions
  BY DEF CommitAudit, catalog
<1>4. RoundTypes' /\ AskedReviewed'
  BY <1>2, <1>3 DEF RoundInv, RoundPart, RoundTypes, AskedReviewed, Reviewed, AuditRead
<1>5. Paired'
  BY <1>3 DEF RoundInv, RoundPart, Paired, Says
<1>6. Pinned' /\ ItemsOfConfirmed'
  BY <1>3 DEF RoundInv, RoundPart, Pinned, ItemsOfConfirmed, ClausesOf, ItemsFor
<1>. QED
  BY <1>1, <1>4, <1>5, <1>6 DEF RoundInv, RoundPart, RoundRead, Closed

\* A result is written to the row of the item that was asked for, if anywhere.
LEMMA CommitAttemptKeeps ==
  ASSUME CatalogInv, RoundInv, NEW t \in Threads, CommitAttempt(t) PROVE RoundInv'
<1>. PICK n : n = open[t].item
  OBVIOUS
<1>. DEFINE Now(k) == [k EXCEPT !.status = "executed"]
<1>1. Closed'
  BY CommitCloses DEF CommitAttempt, Commits, CatalogInv
<1>2. AttemptRead(open[t])
  BY DEF CommitAttempt, Commits, RoundInv, RoundRead
<1>3. n \in asked
  BY <1>2 DEF AttemptRead
<1>4. PICK k \in coverage : Covers(k, n) /\ k.status = open[t].was
  BY <1>2 DEF AttemptRead
<1>5. PICK i \in items : Name(i) = n
  BY <1>3 DEF RoundInv, RoundPart, AskedReviewed, Reviewed
<1>6. Covers(k, i)
  BY <1>4, <1>5, Named
<1>7. \A l \in coverage : Covers(l, n) <=> l = k
  BY <1>4 DEF RoundInv, RoundPart, Paired, SameClause, Covers
<1>8. k \in Coverage
  BY DEF RoundInv, RoundPart, RoundTypes
<1>9. /\ Now(k) \in Coverage /\ Now(k).status = "executed" /\ Now(k).round = k.round
      /\ Now(k).clause = k.clause /\ Now(k).item = k.item
  BY <1>8 DEF Coverage
<1>10. /\ items' = items /\ selections' = selections /\ asked' = asked
       /\ revisions' = revisions
  BY DEF CommitAttempt, catalog
<1>11. coverage' = coverage \/ coverage' = (coverage \ {k}) \cup {Now(k)}
  <2>1. PICK same \in {open[t].was = "executed", FALSE} :
          coverage' = {IF Covers(l, n) /\ open[t].was # "no row" /\ ~same
                       THEN Now(l) ELSE l : l \in coverage}
    BY DEF CommitAttempt
  <2>2. CASE same
    BY <2>1, <2>2
  <2>3. CASE ~ same
    <3>1. open[t].was # "no row"
      BY <1>4, <1>8 DEF Coverage
    <3>2. coverage' = {IF l = k THEN Now(l) ELSE l : l \in coverage}
      BY <1>7, <2>1, <2>3, <3>1
    <3>. HIDE DEF Now
    <3>. QED
      BY <3>2
  <2>. QED
    BY <2>1, <2>2, <2>3
<1>. PICK k2 : k2 = Now(k)
  OBVIOUS
<1>12. /\ k2 \in Coverage /\ k2.status = "executed" /\ k2.round = k.round
       /\ k2.clause = k.clause /\ k2.item = k.item
       /\ coverage' = coverage \/ coverage' = (coverage \ {k}) \cup {k2}
  BY <1>9, <1>11
<1>. HIDE DEF Now
<1>13. RoundTypes' /\ Pinned' /\ ItemsOfConfirmed' /\ AskedReviewed'
  BY <1>10, <1>12 DEF RoundInv, RoundPart, RoundTypes, Pinned, ItemsOfConfirmed, ClausesOf,
     ItemsFor, AskedReviewed, Reviewed
<1>14. Paired'
  <2>1. CASE coverage' = coverage
    BY <1>10, <2>1 DEF RoundInv, RoundPart, Paired, Says
  <2>2. CASE coverage' = (coverage \ {k}) \cup {k2}
    <3>1. Covers(k2, i) /\ Says(k2, i)'
      BY <1>3, <1>5, <1>6, <1>10, <1>12 DEF Covers, Says
    <3>2. ASSUME NEW j \in items \ {i}
          PROVE  \E l \in coverage' : Covers(l, j) /\ Says(l, j)'
      <4>1. PICK l \in coverage : Covers(l, j) /\ Says(l, j)
        BY DEF RoundInv, RoundPart, Paired
      <4>2. l # k
        BY <1>6, <4>1 DEF RoundInv, RoundPart, Paired, SameClause, Covers
      <4>3. l \in coverage'
        BY <2>2, <4>2
      <4>. QED
        BY <1>10, <4>1, <4>3 DEF Says
    <3>3. \A j \in items' : \E l \in coverage' : Covers(l, j) /\ Says(l, j)'
      BY <1>10, <2>2, <3>1, <3>2
    <3>4. \A l \in coverage' : \E j \in items' : Covers(l, j)
      BY <1>10, <2>2, <3>1 DEF RoundInv, RoundPart, Paired
    <3>5. \A l, m \in coverage' : SameClause(l, m) => l = m
      BY <1>12, <2>2 DEF RoundInv, RoundPart, Paired, SameClause
    <3>6. \A j, m \in items' : SameClause(j, m) => j = m
      BY <1>10 DEF RoundInv, RoundPart, Paired
    <3>. QED
      BY <3>3, <3>4, <3>5, <3>6 DEF Paired
  <2>. QED
    BY <1>12, <2>1, <2>2
<1>. QED
  BY <1>1, <1>13, <1>14 DEF RoundInv, RoundPart, RoundRead, Closed

\* The rounds have no rows at first.
LEMMA RoundInit == Init => RoundInv
  BY DEF Init, RoundInv, RoundPart, RoundTypes, Pinned, Paired, ItemsOfConfirmed,
         AskedReviewed, RoundRead

\* Every step keeps the rows of the rounds paired.
LEMMA RoundStep ==
  ASSUME SerialStore PROVE CatalogInv /\ RoundInv /\ [Next]_vars => RoundInv'
<1>. SUFFICES ASSUME CatalogInv, RoundInv, [Next]_vars PROVE RoundInv'
  OBVIOUS
<1>1. CASE UNCHANGED vars
  <2>1. /\ revisions' = revisions /\ open' = open /\ UNCHANGED roundRows
        /\ selections' = selections /\ items' = items /\ coverage' = coverage
        /\ asked' = asked
    BY <1>1 DEF vars, catalog, roundRows
  <2>2. RoundPart'
    BY <2>1, RoundKept DEF RoundInv, ClausesKept
  <2>3. RoundRead'
    BY <2>1 DEF RoundInv, RoundRead, SelectRead, ConfirmRead, CoverRead, DecideRead,
                AuditRead, AttemptRead, Reviewed, ClausesOf, ItemsFor, CoverageFor
  <2>. QED
    BY <2>2, <2>3 DEF RoundInv
<1>2. ASSUME NEW s \in Standards, CreateStandard(s) PROVE RoundInv'
  BY <1>2, CatalogStepKeepsRounds
<1>3. ASSUME NEW v \in Versions, NEW status, CreateVersion(v, status) PROVE RoundInv'
  BY <1>3, CatalogStepKeepsRounds
<1>4. ASSUME NEW t \in Threads,
             CommitRevision(t) \/ CommitPublish(t) \/ CommitAbolish(t) \/ RollBack(t)
      PROVE  RoundInv'
  BY <1>4, CatalogStepKeepsRounds
<1>. QED
  BY <1>1, <1>2, <1>3, <1>4, CatalogBeginsKeepRounds, RoundBeginsKeep, CommitSelectKeeps,
     CommitConfirmKeeps, CommitDecideKeeps, CommitAuditKeeps, CommitAttemptKeeps
  DEF Next

\* With serializable transactions a gate that is open means that every clause of
\* every confirmed standard has an item, that a reviewer has decided on every item,
\* and that one in manual review was found applicable and has an execution, whatever
\* results the worker or a request has recorded meanwhile.
THEOREM GateMeansReviewedHolds ==
  ASSUME SerialStore PROVE Spec => []GateMeansReviewed
<1>1. RoundInv => GateMeansReviewed
  <2>. SUFFICES ASSUME RoundInv, NEW r \in Rounds, GateOpen(r)
                PROVE  /\ \A i \in items : i.round = r =>
                            /\ i.decision # "to_confirm"
                            /\ i.decision = "manual_review" => Name(i) \in asked
                       /\ \A x \in selections : x.round = r /\ x.confirmed =>
                            \A c \in ClausesOf(x) : ItemsFor(r, c) # {}
    BY DEF GateMeansReviewed
  <2>1. ASSUME NEW i \in items, i.round = r
        PROVE  /\ i.decision # "to_confirm"
               /\ i.decision = "manual_review" => Name(i) \in asked
    <3>1. PICK k \in coverage : Covers(k, i) /\ Says(k, i)
      BY DEF RoundInv, RoundPart, Paired
    <3>2. k.status # "to_confirm"
      BY <2>1, <3>1 DEF GateOpen, Covers
    <3>3. CASE k.status = CoverageStatus(i.decision)
      BY <3>2, <3>3 DEF CoverageStatus
    <3>4. CASE Name(i) \in asked
      <4>1. PICK j \in items : Name(j) = Name(i) /\ j.decision # "to_confirm"
        BY <3>4 DEF RoundInv, RoundPart, AskedReviewed, Reviewed
      <4>2. j = i
        BY <4>1 DEF RoundInv, RoundPart, Paired, SameClause, Name
      <4>. QED
        BY <3>4, <4>1, <4>2
    <3>. QED
      BY <3>1, <3>3, <3>4 DEF Says
  <2>2. ASSUME NEW x \in selections, x.round = r, x.confirmed, NEW c \in ClausesOf(x)
        PROVE  ItemsFor(r, c) # {}
    BY <2>2 DEF RoundInv, RoundPart, ItemsOfConfirmed
  <2>. QED
    BY <2>1, <2>2
<1>2. CatalogInv /\ [Next]_vars => CatalogInv'
  BY CatalogStep
<1>3. CatalogInv /\ RoundInv /\ [Next]_vars => RoundInv'
  BY RoundStep
<1>. QED
  BY <1>1, <1>2, <1>3, CatalogInit, RoundInit, PTL DEF Spec

-----------------------------------------------------------------------------
(* The catalog as a part of the desk.                                      *)

\* The desk does with the catalog what StandardCatalog does, or nothing.
LEMMA DeskCatalog == DeskSpec => Spec
<1>1. DeskInit => Init
  BY DEF DeskInit
<1>2. [DeskNext]_deskVars => [Next]_vars
  BY DEF DeskNext, deskVars, accountVars, uploadVars, reportVars
<1>. QED
  BY <1>1, <1>2, PTL DEF DeskSpec, Spec

\* What is proved of the catalog holds of it as a part of the desk.
THEOREM DeskCatalogHolds ==
  ASSUME SerialStore
  PROVE  DeskSpec => [](OnePublishedRevision /\ StandardFollowsVersions /\ GateMeansReviewed)
  BY DeskCatalog, OnePublishedRevisionHolds, StandardFollowsVersionsHolds, GateMeansReviewedHolds,
     PTL

-----------------------------------------------------------------------------
(* Accounts.                                                               *)

SessionRow ==
  [user : Users, status : {"active", "revoked"}, expired : BOOLEAN,
   opened : Nat \ {0}, late : BOOLEAN]

\* What a request holds of its user and session.
AccountRequest(t) ==
  /\ Account!Serves(t, "login") => accountWork[t].user \in Users /\ accountWork[t].verified \in Nat \ {0}
  /\ Account!Serves(t, "admitted") =>
       accountWork[t].user \in Users /\ accountWork[t].session \in DOMAIN sessions

\* A change holds the current password, and has read every session that is
\* active except the late ones.
ChangeRequest(t) ==
  Account!Serves(t, "change") =>
    /\ accountWork[t].user \in Users
    /\ password[accountWork[t].user] = accountWork[t].verified
    /\ accountWork[t].verified # 0
    /\ \A i \in DOMAIN sessions :
         /\ sessions[i].user = accountWork[t].user
         /\ sessions[i].status = "active"
         => i \in accountWork[t].active \/ sessions[i].late

\* A user row is locked once.
LockedOnce ==
  \A t, u \in Threads :
    /\ Account!Serves(t, "change") /\ Account!Serves(u, "change")
    /\ accountWork[t].user = accountWork[u].user
    => t = u

AccountsInv ==
  /\ password \in [Users -> Nat]
  /\ sessions \in Seq(SessionRow)
  /\ DOMAIN accountWork = Threads
  /\ \A t \in Threads : AccountRequest(t) /\ ChangeRequest(t)
  /\ LockedOnce
  /\ ChangeEndsSessions

\* Rows of which nothing is changed but that some are revoked or expire.
OnlyRevoked ==
  /\ sessions' \in Seq(SessionRow)
  /\ DOMAIN sessions' = DOMAIN sessions
  /\ \A i \in DOMAIN sessions :
       /\ sessions'[i].user = sessions[i].user
       /\ sessions'[i].opened = sessions[i].opened
       /\ sessions'[i].late = sessions[i].late
       /\ sessions'[i].status = "active" => sessions[i].status = "active"

\* Requests that only end.
OnlyEnded ==
  /\ DOMAIN accountWork' = Threads
  /\ \A t \in Threads : accountWork'[t] \in {accountWork[t], None}

\* A row written at its place.
LEMMA SessionWritten ==
  ASSUME NEW S \in Seq(SessionRow), NEW i \in DOMAIN S, NEW row \in SessionRow,
         row.user = S[i].user, row.opened = S[i].opened, row.late = S[i].late,
         row.status = "active" => S[i].status = "active",
         sessions = S, sessions' = [S EXCEPT ![i] = row]
  PROVE  OnlyRevoked
<1>. DEFINE T == [S EXCEPT ![i] = row]
<1>1. i \in 1..Len(S)
  OBVIOUS
<1>2. /\ T \in Seq(SessionRow) /\ Len(T) = Len(S)
      /\ \A j \in 1..Len(S) : T[j] = IF j = i THEN row ELSE S[j]
  BY <1>1, ExceptSeq
<1>. HIDE DEF T
<1>3. DOMAIN T = DOMAIN S /\ \A j \in DOMAIN S : T[j] = IF j = i THEN row ELSE S[j]
  BY <1>2
<1>4. sessions' = T
  BY DEF T
<1>. QED
  BY <1>2, <1>3, <1>4 DEF OnlyRevoked

\* Requests that end and rows that are revoked keep the invariant, while the
\* passwords stay.
LEMMA EndsAndRevokes ==
  ASSUME AccountsInv, OnlyRevoked, OnlyEnded, password' = password
  PROVE  AccountsInv'
<1>1. ASSUME NEW t \in Threads, NEW op, Account!Serves(t, op)'
      PROVE  Account!Serves(t, op) /\ accountWork'[t] = accountWork[t]
  BY <1>1 DEF OnlyEnded, Account!Serves
<1>2. ASSUME NEW t \in Threads
      PROVE  AccountRequest(t)'
  BY <1>1 DEF AccountRequest, AccountsInv, OnlyRevoked
<1>3. ASSUME NEW t \in Threads
      PROVE  ChangeRequest(t)'
  BY <1>1 DEF ChangeRequest, AccountsInv, OnlyRevoked
<1>4. LockedOnce'
  BY <1>1 DEF LockedOnce, AccountsInv
<1>5. ChangeEndsSessions'
  BY DEF ChangeEndsSessions, Account!ChangeEndsSessions, Account!Rows, AccountsInv, OnlyRevoked
<1>. QED
  BY <1>2, <1>3, <1>4, <1>5 DEF AccountsInv, OnlyRevoked, OnlyEnded

\* A request begins, of a kind that holds no lock.
LEMMA TakenKeeps ==
  ASSUME AccountsInv, NEW t \in Threads, NEW request, Account!Take(t, request),
         request.op # "change",
         request.op = "login" => request.user \in Users /\ request.verified \in Nat \ {0},
         request.op = "admitted" => request.user \in Users /\ request.session \in DOMAIN sessions,
         password' = password, sessions' = sessions
  PROVE  AccountsInv'
<1>1. /\ DOMAIN accountWork' = Threads /\ accountWork'[t] = request
      /\ \A u \in Threads \ {t} : accountWork'[u] = accountWork[u]
  BY DEF AccountsInv, Account!Take
<1>2. ASSUME NEW u \in Threads, Account!Serves(u, "change")'
      PROVE  Account!Serves(u, "change") /\ accountWork'[u] = accountWork[u]
  BY <1>1, <1>2 DEF Account!Serves
<1>3. ASSUME NEW u \in Threads
      PROVE  AccountRequest(u)'
  <2>1. CASE u = t
    BY <1>1, <2>1 DEF AccountRequest, Account!Serves
  <2>2. CASE u # t
    BY <1>1, <2>2 DEF AccountRequest, Account!Serves, AccountsInv
  <2>. QED
    BY <2>1, <2>2
<1>4. ASSUME NEW u \in Threads
      PROVE  ChangeRequest(u)'
  BY <1>2 DEF ChangeRequest, AccountsInv
<1>5. LockedOnce'
  BY <1>2 DEF LockedOnce, AccountsInv
<1>6. ChangeEndsSessions'
  BY DEF ChangeEndsSessions, Account!ChangeEndsSessions, Account!Rows, AccountsInv
<1>. QED
  BY <1>1, <1>3, <1>4, <1>5, <1>6 DEF AccountsInv

\* The user row is locked, and the active sessions are read.
LEMMA LockKeeps ==
  ASSUME AccountsInv, NEW t \in Threads, NEW u \in Users, Account!LockUser(t, u)
  PROVE  AccountsInv'
<1>. DEFINE x == [op |-> "change", user |-> u, verified |-> password[u],
                  active |-> Account!ActiveSessions(u)]
<1>1. /\ DOMAIN accountWork' = Threads /\ accountWork'[t] = x
      /\ \A r \in Threads \ {t} : accountWork'[r] = accountWork[r]
      /\ password' = password /\ sessions' = sessions
      /\ \A r \in Threads : Account!Serves(r, "change") => accountWork[r].user # u
      /\ password[u] # 0
  BY DEF AccountsInv, Account!LockUser, Account!Locked, Account!Changing
<1>2. ASSUME NEW r \in Threads \ {t}
      PROVE  AccountRequest(r)' /\ ChangeRequest(r)'
  BY <1>1, <1>2 DEF AccountRequest, ChangeRequest, Account!Serves, AccountsInv
<1>3. AccountRequest(t)'
  BY <1>1 DEF AccountRequest, Account!Serves
<1>4. ChangeRequest(t)'
  BY <1>1 DEF ChangeRequest, Account!Serves, Account!ActiveSessions, Account!Rows
<1>5. LockedOnce'
  BY <1>1 DEF LockedOnce, Account!Serves, AccountsInv
<1>6. ChangeEndsSessions'
  BY <1>1 DEF ChangeEndsSessions, Account!ChangeEndsSessions, Account!Rows, AccountsInv
<1>7. \A r \in Threads : AccountRequest(r)' /\ ChangeRequest(r)'
  BY <1>2, <1>3, <1>4
<1>. QED
  BY <1>1, <1>5, <1>6, <1>7 DEF AccountsInv

\* A session is opened, late when a change is under way or over.
LEMMA OpenKeeps ==
  ASSUME AccountsInv, NEW t \in Threads, Account!OpenSession(t)
  PROVE  AccountsInv'
<1>. DEFINE x == accountWork[t]
            row == [user |-> x.user, status |-> "active", expired |-> FALSE,
                    opened |-> x.verified,
                    late |-> Account!Changing(x.user) \/ password[x.user] # x.verified]
            n == Len(sessions) + 1
<1>1. /\ sessions' = Append(sessions, row) /\ password' = password
      /\ accountWork' = [accountWork EXCEPT ![t] = None]
      /\ x.user \in Users /\ x.verified \in Nat \ {0}
  BY DEF AccountsInv, AccountRequest, Account!OpenSession, Account!Done
<1>2. row \in SessionRow
  BY <1>1 DEF SessionRow
<1>3. /\ row.user = x.user /\ row.opened = x.verified
      /\ Account!Changing(x.user) \/ password[x.user] # x.verified => row.late
  OBVIOUS
<1>. HIDE DEF row
<1>4. /\ sessions' \in Seq(SessionRow)
      /\ DOMAIN sessions' = DOMAIN sessions \cup {n}
      /\ sessions'[n] = row
      /\ \A i \in DOMAIN sessions : sessions'[i] = sessions[i]
  BY <1>1, <1>2, AppendProperties DEF AccountsInv
<1>. HIDE DEF n
<1>5. /\ DOMAIN accountWork' = Threads
      /\ \A u \in Threads : accountWork'[u] \in {accountWork[u], None}
  BY <1>1 DEF AccountsInv
<1>6. ASSUME NEW u \in Threads, NEW op, Account!Serves(u, op)'
      PROVE  Account!Serves(u, op) /\ accountWork'[u] = accountWork[u]
  BY <1>5, <1>6 DEF Account!Serves
<1>7. ASSUME NEW u \in Threads
      PROVE  AccountRequest(u)'
  BY <1>4, <1>6 DEF AccountRequest, AccountsInv
<1>8. ASSUME NEW u \in Threads
      PROVE  ChangeRequest(u)'
  <2>1. Account!Serves(u, "change")' /\ accountWork[u].user = x.user => row.late
    BY <1>3, <1>6 DEF Account!Changing
  <2>. QED
    BY <1>1, <1>3, <1>4, <1>6, <2>1 DEF ChangeRequest, AccountsInv
<1>9. LockedOnce'
  BY <1>6 DEF LockedOnce, AccountsInv
<1>10. ASSUME NEW i \in DOMAIN sessions', sessions'[i].status = "active",
              sessions'[i].opened < password'[sessions'[i].user]
       PROVE  sessions'[i].late
  <2>1. CASE i \in DOMAIN sessions
    BY <1>1, <1>4, <1>10, <2>1 DEF ChangeEndsSessions, Account!ChangeEndsSessions, Account!Rows,
       AccountsInv
  <2>2. CASE i = n
    <3>1. password[x.user] # x.verified
      BY <1>1, <1>3, <1>4, <1>10, <2>2 DEF AccountsInv
    <3>. QED
      BY <1>3, <1>4, <2>2, <3>1
  <2>. QED
    BY <1>4, <2>1, <2>2
<1>11. ChangeEndsSessions'
  BY <1>10 DEF ChangeEndsSessions, Account!ChangeEndsSessions, Account!Rows
<1>. QED
  BY <1>1, <1>4, <1>5, <1>7, <1>8, <1>9, <1>11 DEF AccountsInv

\* A change commits: nobody else holds the lock, and what it has not revoked is late.
LEMMA CommitChangeKeeps ==
  ASSUME AccountsInv, NEW t \in Threads, Account!CommitChange(t)
  PROVE  AccountsInv'
<1>. DEFINE u == accountWork[t].user
<1>1. /\ Account!Serves(t, "change")
      /\ u \in Users
      /\ password' = [password EXCEPT ![u] = password[u] + 1]
      /\ accountWork' = [accountWork EXCEPT ![t] = None]
  BY DEF AccountsInv, ChangeRequest, Account!CommitChange, Account!Done
<1>2. /\ password' \in [Users -> Nat] /\ \A v \in Users \ {u} : password'[v] = password[v]
      /\ password'[u] = password[u] + 1
  BY <1>1 DEF AccountsInv
<1>3. /\ OnlyRevoked
      /\ \A i \in DOMAIN sessions : sessions'[i].status = "active" => i \notin accountWork[t].active
  <2>1. sessions' = [i \in DOMAIN sessions |->
                       IF i \in accountWork[t].active THEN Account!Revoked(i) ELSE sessions[i]]
    BY DEF Account!CommitChange, Account!Rows
  <2>2. ASSUME NEW i \in DOMAIN sessions
        PROVE  /\ Account!Revoked(i) \in SessionRow
               /\ Account!Revoked(i).user = sessions[i].user
               /\ Account!Revoked(i).opened = sessions[i].opened
               /\ Account!Revoked(i).late = sessions[i].late
               /\ Account!Revoked(i).status = "revoked"
               /\ sessions[i] \in SessionRow
    <3>1. sessions[i] \in SessionRow
      BY DEF AccountsInv
    <3>. QED
      BY <3>1 DEF Account!Revoked, SessionRow
  <2>3. DOMAIN sessions = 1..Len(sessions) /\ Len(sessions) \in Nat
    BY DEF AccountsInv
  <2>4. sessions' \in [1..Len(sessions) -> SessionRow]
    BY <2>1, <2>2, <2>3
  <2>5. sessions' \in Seq(SessionRow)
    BY <2>3, <2>4, SeqDef
  <2>. QED
    BY <2>1, <2>2, <2>5 DEF OnlyRevoked
<1>4. /\ DOMAIN accountWork' = Threads /\ accountWork'[t] = None
      /\ \A r \in Threads \ {t} : accountWork'[r] = accountWork[r]
  BY <1>1 DEF AccountsInv
<1>5. ASSUME NEW r \in Threads, NEW op, Account!Serves(r, op)'
      PROVE  r # t /\ Account!Serves(r, op) /\ accountWork'[r] = accountWork[r]
  BY <1>4, <1>5 DEF Account!Serves
<1>6. ASSUME NEW r \in Threads
      PROVE  AccountRequest(r)'
  BY <1>3, <1>5 DEF AccountRequest, AccountsInv, OnlyRevoked
<1>7. ASSUME NEW r \in Threads
      PROVE  ChangeRequest(r)'
  <2>1. Account!Serves(r, "change")' => accountWork[r].user # u
    BY <1>1, <1>5 DEF LockedOnce, AccountsInv
  <2>. QED
    BY <1>2, <1>3, <1>5, <2>1 DEF ChangeRequest, AccountsInv, OnlyRevoked
<1>8. LockedOnce'
  BY <1>5 DEF LockedOnce, AccountsInv
<1>9. ASSUME NEW i \in DOMAIN sessions', sessions'[i].status = "active",
             sessions'[i].opened < password'[sessions'[i].user]
      PROVE  sessions'[i].late
  <2>1. CASE sessions[i].user = u
    BY <1>1, <1>3, <1>9, <2>1 DEF AccountsInv, ChangeRequest, OnlyRevoked
  <2>2. CASE sessions[i].user # u
    <3>1. sessions[i] \in SessionRow
      BY <1>3, <1>9 DEF AccountsInv, OnlyRevoked
    <3>2. sessions[i].user \in Users
      BY <3>1 DEF SessionRow
    <3>3. password'[sessions'[i].user] = password[sessions[i].user]
      BY <1>2, <1>3, <1>9, <2>2, <3>2 DEF OnlyRevoked
    <3>. QED
      BY <1>3, <1>9, <3>3 DEF AccountsInv, OnlyRevoked, ChangeEndsSessions,
         Account!ChangeEndsSessions, Account!Rows
  <2>. QED
    BY <2>1, <2>2
<1>10. ChangeEndsSessions'
  BY <1>9 DEF ChangeEndsSessions, Account!ChangeEndsSessions, Account!Rows
<1>. QED
  BY <1>2, <1>3, <1>4, <1>6, <1>7, <1>8, <1>10 DEF AccountsInv, OnlyRevoked

\* A user is created, who has no session.
LEMMA CreateUserKeeps ==
  ASSUME AccountsInv, NEW u \in Users, Account!CreateUser(u)
  PROVE  AccountsInv'
<1>1. /\ password' \in [Users -> Nat] /\ password[u] = 0
      /\ \A v \in Users \ {u} : password'[v] = password[v]
      /\ password'[u] = 1 /\ sessions' = sessions /\ accountWork' = accountWork
  BY DEF AccountsInv, Account!CreateUser
<1>2. ASSUME NEW t \in Threads
      PROVE  AccountRequest(t)'
  BY <1>1 DEF AccountRequest, Account!Serves, AccountsInv
<1>3. ASSUME NEW t \in Threads
      PROVE  ChangeRequest(t)'
  BY <1>1 DEF ChangeRequest, Account!Serves, AccountsInv
<1>4. LockedOnce'
  BY <1>1 DEF LockedOnce, Account!Serves, AccountsInv
<1>5. ASSUME NEW i \in DOMAIN sessions', sessions'[i].status = "active",
             sessions'[i].opened < password'[sessions'[i].user]
      PROVE  sessions'[i].late
  <2>1. sessions[i] \in SessionRow /\ i \in DOMAIN sessions
    BY <1>1 DEF AccountsInv
  <2>2. sessions[i].user \in Users /\ sessions[i].opened \in Nat /\ sessions[i].opened # 0
    BY <2>1 DEF SessionRow
  <2>3. sessions[i].user # u
    BY <1>1, <1>5, <2>2
  <2>. QED
    BY <1>1, <1>5, <2>1, <2>2, <2>3 DEF AccountsInv, ChangeEndsSessions,
       Account!ChangeEndsSessions, Account!Rows
<1>6. ChangeEndsSessions'
  BY <1>5 DEF ChangeEndsSessions, Account!ChangeEndsSessions, Account!Rows
<1>. QED
  BY <1>1, <1>2, <1>3, <1>4, <1>6 DEF AccountsInv

\* There is no session at the start.
LEMMA AccountsInit == Account!Init => AccountsInv
<1>. SUFFICES ASSUME Account!Init PROVE AccountsInv
  OBVIOUS
<1>1. /\ password \in [Users -> Nat] /\ sessions = << >> /\ DOMAIN accountWork = Threads
      /\ \A t \in Threads, op \in {"login", "admitted", "change"} : ~Account!Serves(t, op)
  BY DEF Account!Init, Account!Serves
<1>2. sessions \in Seq(SessionRow) /\ DOMAIN sessions = {}
  BY <1>1
<1>. QED
  BY <1>1, <1>2 DEF AccountsInv, AccountRequest, ChangeRequest, LockedOnce, ChangeEndsSessions,
     Account!ChangeEndsSessions, Account!Rows

\* Every step of the accounts keeps the invariant.
LEMMA AccountsStep == AccountsInv /\ Account!Next => AccountsInv'
<1>. SUFFICES ASSUME AccountsInv, Account!Next PROVE AccountsInv'
  OBVIOUS
<1>1. ASSUME NEW u \in Users, Account!CreateUser(u) PROVE AccountsInv'
  BY <1>1, CreateUserKeeps
<1>2. ASSUME NEW i \in DOMAIN sessions, Account!Expire(i) PROVE AccountsInv'
  <2>. DEFINE row == [sessions[i] EXCEPT !.expired = TRUE]
  <2>1. sessions \in Seq(SessionRow) /\ sessions[i] \in SessionRow
    BY DEF AccountsInv
  <2>2. /\ row \in SessionRow /\ row.user = sessions[i].user /\ row.late = sessions[i].late
        /\ row.opened = sessions[i].opened /\ row.status = sessions[i].status
    BY <2>1 DEF SessionRow
  <2>3. sessions' = [sessions EXCEPT ![i] = row] /\ password' = password
        /\ accountWork' = accountWork
    BY <1>2 DEF Account!Expire
  <2>. HIDE DEF row
  <2>4. OnlyRevoked
    BY <2>1, <2>2, <2>3, SessionWritten
  <2>5. OnlyEnded
    BY <2>3 DEF OnlyEnded, AccountsInv
  <2>. QED
    BY <2>3, <2>4, <2>5, EndsAndRevokes
<1>3. ASSUME NEW t \in Threads, NEW u \in Users, Account!Authenticate(t, u) PROVE AccountsInv'
  <2>. DEFINE request == [op |-> "login", user |-> u, verified |-> password[u]]
  <2>1. /\ Account!Take(t, request) /\ request.op = "login" /\ request.user = u
        /\ request.verified = password[u] /\ password[u] \in Nat \ {0}
        /\ password' = password /\ sessions' = sessions
    BY <1>3 DEF Account!Authenticate, AccountsInv
  <2>. HIDE DEF request
  <2>. QED
    BY <2>1, TakenKeeps
<1>4. ASSUME NEW t \in Threads, NEW i \in DOMAIN sessions, Account!Admit(t, i) PROVE AccountsInv'
  <2>. DEFINE request == [op |-> "admitted", session |-> i, user |-> sessions[i].user]
  <2>1. sessions[i] \in SessionRow
    BY DEF AccountsInv
  <2>2. /\ Account!Take(t, request) /\ request.op = "admitted" /\ request.session = i
        /\ request.user \in Users
        /\ password' = password /\ sessions' = sessions
    BY <1>4, <2>1 DEF Account!Admit, SessionRow
  <2>. HIDE DEF request
  <2>. QED
    BY <2>2, TakenKeeps
<1>5. ASSUME NEW t \in Threads, Account!OpenSession(t) PROVE AccountsInv'
  BY <1>5, OpenKeeps
<1>6. ASSUME NEW t \in Threads, Account!Logout(t) PROVE AccountsInv'
  <2>. DEFINE i == accountWork[t].session
              row == [sessions[i] EXCEPT !.status = "revoked"]
  <2>1. i \in DOMAIN sessions /\ sessions \in Seq(SessionRow) /\ sessions[i] \in SessionRow
    BY <1>6 DEF AccountsInv, AccountRequest, Account!Logout
  <2>2. /\ row \in SessionRow /\ row.user = sessions[i].user /\ row.late = sessions[i].late
        /\ row.opened = sessions[i].opened /\ row.status = "revoked"
    BY <2>1 DEF SessionRow
  <2>3. /\ sessions' = [sessions EXCEPT ![i] = row] /\ password' = password
        /\ accountWork' = [accountWork EXCEPT ![t] = None]
    BY <1>6 DEF Account!Logout, Account!Revoked, Account!Done
  <2>. HIDE DEF row, i
  <2>4. OnlyRevoked
    BY <2>1, <2>2, <2>3, SessionWritten
  <2>5. OnlyEnded
    BY <2>3 DEF OnlyEnded, AccountsInv
  <2>. QED
    BY <2>3, <2>4, <2>5, EndsAndRevokes
<1>7. ASSUME NEW t \in Threads, NEW u \in Users, Account!BeginReset(t, u) PROVE AccountsInv'
  BY <1>7, LockKeeps DEF Account!BeginReset
<1>8. ASSUME NEW t \in Threads, Account!BeginChange(t) PROVE AccountsInv'
  <2>1. accountWork[t].user \in Users
    BY <1>8 DEF Account!BeginChange, AccountsInv, AccountRequest
  <2>. QED
    BY <1>8, <2>1, LockKeeps DEF Account!BeginChange
<1>9. ASSUME NEW t \in Threads, Account!CommitChange(t) PROVE AccountsInv'
  BY <1>9, CommitChangeKeeps
<1>10. ASSUME NEW t \in Threads, Account!GiveUp(t) PROVE AccountsInv'
  <2>1. OnlyRevoked /\ OnlyEnded
    BY <1>10 DEF Account!GiveUp, Account!Done, OnlyRevoked, OnlyEnded, AccountsInv
  <2>. QED
    BY <1>10, <2>1, EndsAndRevokes DEF Account!GiveUp
<1>. QED
  BY <1>1, <1>2, <1>3, <1>4, <1>5, <1>6, <1>7, <1>8, <1>9, <1>10 DEF Account!Next, Account!Rows

\* The invariant holds whichever part of the desk moves.
LEMMA AccountsInvariant == DeskSpec => []AccountsInv
<1>1. DeskInit => AccountsInv
  BY AccountsInit DEF DeskInit
<1>2. AccountsInv /\ [DeskNext]_deskVars => AccountsInv'
  <2>. SUFFICES ASSUME AccountsInv, [DeskNext]_deskVars PROVE AccountsInv'
    OBVIOUS
  <2>1. CASE UNCHANGED accountVars
    <3>1. OnlyRevoked /\ OnlyEnded
      BY <2>1 DEF accountVars, OnlyRevoked, OnlyEnded, AccountsInv
    <3>. QED
      BY <2>1, <3>1, EndsAndRevokes DEF accountVars
  <2>2. CASE Account!Next
    BY <2>2, AccountsStep
  <2>. QED
    BY <2>1, <2>2 DEF DeskNext, deskVars
<1>. QED
  BY <1>1, <1>2, PTL DEF DeskSpec

\* A change or a reset of a password revokes every session of the user that is
\* active when it commits, except those whose login had verified the password
\* before and inserted its row during the change or after it: the sessions are
\* read under the lock of the user row, and a login takes no lock.
THEOREM ChangeEndsSessionsHolds == DeskSpec => []ChangeEndsSessions
<1>1. AccountsInv => ChangeEndsSessions
  BY DEF AccountsInv
<1>. QED
  BY <1>1, AccountsInvariant, PTL

\* Whichever change of a user commits, the password is still the one that its
\* request verified: the lock is held from the reading to the commit.
THEOREM ChangesInTurnHolds == DeskSpec => ChangesInTurn
<1>. DEFINE A == \A t \in Threads :
              LET u == accountWork[t].user IN
              Account!Serves(t, "change") /\ password'[u] # password[u]
                => password[u] = accountWork[t].verified
<1>1. AccountsInv /\ [DeskNext]_deskVars => [A]_(Account!vars)
  BY DEF AccountsInv, ChangeRequest
<1>2. ChangesInTurn <=> [][A]_(Account!vars)
  BY DEF ChangesInTurn, Account!ChangesInTurn
<1>. HIDE DEF A
<1>. QED
  BY <1>1, <1>2, AccountsInvariant, PTL DEF DeskSpec

-----------------------------------------------------------------------------
(* Uploads.                                                                *)

\* What the request of a thread is about.
Uploads(t) == Upload!Serves(t, "upload") \/ Upload!Serves(t, "adding")

Replaces(t) == Upload!Serves(t, "replace") \/ Upload!Serves(t, "replacing")

\* The keys that only t knows, and those whose objects it removes.
Fresh(t) ==
  IF Uploads(t) THEN Upload!KeysOf(uploadWork[t].put)
  ELSE IF Replaces(t) THEN {uploadWork[t].key} ELSE {}

Doomed(t) == IF Upload!Serves(t, "drop") THEN uploadWork[t].todo ELSE {}

UploadRequest(t) ==
  /\ Uploads(t) => uploadWork[t].put \in [Upload!Keys -> Contents \cup {None}]
  /\ Upload!Serves(t, "upload") =>
       /\ uploadWork[t] = [op |-> "upload", todo |-> uploadWork[t].todo, put |-> uploadWork[t].put]
       /\ uploadWork[t].todo \in Seq(Contents)
  /\ Upload!Serves(t, "drop") => uploadWork[t] = [op |-> "drop", todo |-> uploadWork[t].todo]
  /\ Replaces(t) => uploadWork[t].file \in Upload!Rows /\ uploadWork[t].content \in Contents
  /\ Upload!Serves(t, "deleting") => uploadWork[t].file \in Upload!Rows

\* The rows have keys of their own that are given out, with their objects.
RowsStored ==
  /\ files \in [Upload!Keys -> Upload!File \cup {None}]
  /\ DOMAIN objects = Upload!Keys
  /\ keys \in 0..MaxKeys
  /\ \A i \in Upload!Rows :
       /\ i \in 1..keys
       /\ files[i].key \in 1..keys
       /\ objects[files[i].key] # None
       /\ \A j \in Upload!Rows : files[j].key = files[i].key => j = i

\* A key that only t knows is given out and stored, and is of no row yet.
FreshStored(t) ==
  \A k \in Fresh(t) :
    /\ k \in 1..keys
    /\ objects[k] # None
    /\ files[k] = None
    /\ \A i \in Upload!Rows : files[i].key # k
    /\ \A u \in Threads : k \in Fresh(u) => u = t

\* An object that is removed is of no row, nor of one to come.
DoomedUnused(t) ==
  \A k \in Doomed(t) :
    /\ \A i \in Upload!Rows : files[i].key # k
    /\ \A u \in Threads : k \notin Fresh(u)
    /\ k \in 1..keys

\* The object that a replacement removes is of its own row, if of any.
OldIsOwn(t) ==
  Replaces(t) =>
    /\ uploadWork[t].old \in 1..keys
    /\ \A i \in Upload!Rows : files[i].key = uploadWork[t].old => i = uploadWork[t].file
    /\ \A u \in Threads : uploadWork[t].old \notin Fresh(u)

UploadsInv ==
  /\ DOMAIN uploadWork = Threads
  /\ RowsStored
  /\ \A t \in Threads : UploadRequest(t) /\ FreshStored(t) /\ DoomedUnused(t) /\ OldIsOwn(t)

\* A key that is given out is one of the keys there are.
LEMMA GivenOut == UploadsInv => 1..keys \subseteq Upload!Keys
  BY DeskAssumption DEF UploadsInv, RowsStored, Upload!Keys

\* A request that stays as it is.
LEMMA SameRequest ==
  ASSUME NEW t, uploadWork'[t] = uploadWork[t]
  PROVE  /\ Fresh(t)' = Fresh(t) /\ Doomed(t)' = Doomed(t)
         /\ Uploads(t)' = Uploads(t) /\ Replaces(t)' = Replaces(t)
         /\ \A op : Upload!Serves(t, op)' = Upload!Serves(t, op)
  BY DEF Fresh, Doomed, Uploads, Replaces, Upload!Serves, Upload!KeysOf

\* The thread t goes on, with no other keys than it had, while the rows keep
\* their keys.
LEMMA MovesKeep ==
  ASSUME UploadsInv, NEW t \in Threads,
         DOMAIN uploadWork' = Threads,
         \A u \in Threads \ {t} : uploadWork'[u] = uploadWork[u],
         objects' = objects, keys' = keys,
         files' \in [Upload!Keys -> Upload!File \cup {None}],
         Upload!Rows' = Upload!Rows,
         \A i \in Upload!Rows : files'[i].key = files[i].key,
         UploadRequest(t)',
         Fresh(t)' \subseteq Fresh(t),
         Doomed(t)' \subseteq Doomed(t) \cup Fresh(t),
         Doomed(t)' \cap Fresh(t)' = {},
         Replaces(t)' => Replaces(t) /\ uploadWork'[t].old = uploadWork[t].old
                                     /\ uploadWork'[t].file = uploadWork[t].file
  PROVE  UploadsInv'
<1>1. ASSUME NEW u \in Threads \ {t}
      PROVE  /\ Fresh(u)' = Fresh(u) /\ Doomed(u)' = Doomed(u) /\ Replaces(u)' = Replaces(u)
             /\ UploadRequest(u)'
  BY SameRequest DEF UploadsInv, UploadRequest
<1>2. \A u \in Threads : Fresh(u)' \subseteq Fresh(u)
  BY <1>1
<1>3. RowsStored'
  BY DEF RowsStored, UploadsInv
<1>4. ASSUME NEW u \in Threads
      PROVE  FreshStored(u)'
  <2>. SUFFICES ASSUME NEW k \in Fresh(u)'
                PROVE  /\ k \in 1..keys
                       /\ objects[k] # None
                       /\ files'[k] = None
                       /\ \A i \in Upload!Rows : files[i].key # k
                       /\ \A v \in Threads : k \in Fresh(v)' => v = u
    BY DEF FreshStored
  <2>1. k \in Fresh(u)
    BY <1>2
  <2>2. /\ k \in 1..keys /\ objects[k] # None /\ files[k] = None
        /\ \A i \in Upload!Rows : files[i].key # k
        /\ \A v \in Threads : k \in Fresh(v) => v = u
    BY <2>1 DEF UploadsInv, FreshStored
  <2>3. k \in Upload!Keys
    BY <2>2, GivenOut
  <2>4. files'[k] = None
    BY <2>2, <2>3 DEF Upload!Rows
  <2>. QED
    BY <1>2, <2>2, <2>4
<1>5. ASSUME NEW u \in Threads
      PROVE  DoomedUnused(u)'
  <2>. SUFFICES ASSUME NEW k \in Doomed(u)'
                PROVE  /\ \A i \in Upload!Rows : files[i].key # k
                       /\ \A v \in Threads : k \notin Fresh(v)'
                       /\ k \in 1..keys
    BY DEF DoomedUnused
  <2>1. CASE k \in Doomed(u)
    BY <1>2, <2>1 DEF UploadsInv, DoomedUnused
  <2>2. CASE k \notin Doomed(u)
    <3>1. u = t /\ k \in Fresh(t) /\ k \notin Fresh(t)'
      BY <1>1, <2>2
    <3>2. /\ \A i \in Upload!Rows : files[i].key # k
          /\ \A v \in Threads : k \in Fresh(v) => v = t
          /\ k \in 1..keys
      BY <3>1 DEF UploadsInv, FreshStored
    <3>. QED
      BY <1>2, <3>1, <3>2
  <2>. QED
    BY <2>1, <2>2
<1>6. ASSUME NEW u \in Threads
      PROVE  OldIsOwn(u)'
  <2>1. Replaces(u)' => Replaces(u) /\ uploadWork'[u].old = uploadWork[u].old
                                    /\ uploadWork'[u].file = uploadWork[u].file
    BY <1>1
  <2>. QED
    BY <1>2, <2>1 DEF OldIsOwn, UploadsInv
<1>7. \A u \in Threads : UploadRequest(u)'
  BY <1>1
<1>. QED
  BY <1>3, <1>4, <1>5, <1>6, <1>7 DEF UploadsInv

\* An object is stored under a key that nobody else knows.
LEMMA PutKeeps ==
  ASSUME UploadsInv, NEW t \in Threads, NEW x \in Contents, Upload!Put(x),
         DOMAIN uploadWork' = Threads,
         \A u \in Threads \ {t} : uploadWork'[u] = uploadWork[u],
         files' = files,
         UploadRequest(t)',
         Fresh(t)' \subseteq Fresh(t) \cup {keys + 1},
         Doomed(t)' = {},
         Replaces(t)' => uploadWork'[t].file \in Upload!Rows
                         /\ uploadWork'[t].old = files[uploadWork'[t].file].key
  PROVE  UploadsInv'
<1>1. ASSUME NEW u \in Threads \ {t}
      PROVE  /\ Fresh(u)' = Fresh(u) /\ Doomed(u)' = Doomed(u) /\ Replaces(u)' = Replaces(u)
             /\ UploadRequest(u)'
  BY SameRequest DEF UploadsInv, UploadRequest, Upload!Rows
<1>2. /\ keys \in Nat /\ keys' = keys + 1 /\ keys' \in 0..MaxKeys
      /\ DOMAIN objects' = Upload!Keys
      /\ objects'[keys + 1] = x
      /\ \A k \in Upload!Keys \ {keys + 1} : objects'[k] = objects[k]
      /\ 1..keys \subseteq Upload!Keys /\ keys + 1 \in Upload!Keys /\ keys + 1 \notin 1..keys
  BY DeskAssumption DEF UploadsInv, RowsStored, Upload!Put, Upload!Keys
<1>3. objects'[keys + 1] # None
  BY <1>2, DeskAssumption
<1>4. 1..keys \subseteq 1..keys' /\ keys + 1 \in 1..keys'
  BY <1>2
<1>5. Upload!Rows' = Upload!Rows
  BY DEF Upload!Rows
<1>6. \A i \in Upload!Rows : files[i].key \in 1..keys /\ objects[files[i].key] # None
  BY DEF UploadsInv, RowsStored
<1>7. RowsStored'
  <2>1. \A i \in Upload!Rows : objects'[files[i].key] # None
    BY <1>2, <1>6
  <2>. QED
    BY <1>2, <1>4, <1>5, <2>1 DEF RowsStored, UploadsInv
<1>8. files[keys + 1] = None
  BY <1>2 DEF UploadsInv, RowsStored, Upload!Rows
<1>9. ASSUME NEW u \in Threads, NEW k \in Fresh(u)
      PROVE  k \in 1..keys /\ k # keys + 1
  BY <1>2, <1>9 DEF UploadsInv, FreshStored
<1>10. \A u \in Threads : Fresh(u)' \subseteq Fresh(u) \cup (IF u = t THEN {keys + 1} ELSE {})
  BY <1>1
<1>11. ASSUME NEW u \in Threads, NEW k \in Fresh(u)'
       PROVE  /\ k \in 1..keys' /\ objects'[k] # None /\ files[k] = None
              /\ \A i \in Upload!Rows : files[i].key # k
              /\ \A v \in Threads : k \in Fresh(v)' => v = u
  <2>1. CASE k = keys + 1
    <3>1. u = t /\ \A v \in Threads : k \in Fresh(v)' => v = t
      BY <1>9, <1>10, <1>11, <2>1
    <3>. QED
      BY <1>2, <1>3, <1>4, <1>6, <1>8, <2>1, <3>1
  <2>2. CASE k # keys + 1
    <3>1. k \in Fresh(u) /\ \A v \in Threads : k \in Fresh(v)' => k \in Fresh(v)
      BY <1>10, <1>11, <2>2
    <3>2. /\ k \in 1..keys /\ objects[k] # None /\ files[k] = None
          /\ \A i \in Upload!Rows : files[i].key # k
          /\ \A v \in Threads : k \in Fresh(v) => v = u
      BY <3>1 DEF UploadsInv, FreshStored
    <3>. QED
      BY <1>2, <1>4, <2>2, <3>1, <3>2
  <2>. QED
    BY <2>1, <2>2
<1>12. ASSUME NEW u \in Threads
       PROVE  FreshStored(u)'
  BY <1>5, <1>11 DEF FreshStored
<1>13. ASSUME NEW u \in Threads
       PROVE  DoomedUnused(u)'
  <2>. SUFFICES ASSUME NEW k \in Doomed(u)'
                PROVE  /\ \A i \in Upload!Rows : files[i].key # k
                       /\ \A v \in Threads : k \notin Fresh(v)'
                       /\ k \in 1..keys'
    BY <1>5 DEF DoomedUnused
  <2>1. k \in Doomed(u)
    BY <1>1
  <2>2. /\ \A i \in Upload!Rows : files[i].key # k
        /\ \A v \in Threads : k \notin Fresh(v)
        /\ k \in 1..keys
    BY <2>1 DEF UploadsInv, DoomedUnused
  <2>. QED
    BY <1>2, <1>4, <1>10, <2>2
<1>14. ASSUME NEW u \in Threads \ {t}
       PROVE  OldIsOwn(u)'
  <2>. SUFFICES ASSUME Replaces(u)'
                PROVE  /\ uploadWork[u].old \in 1..keys'
                       /\ \A i \in Upload!Rows :
                            files[i].key = uploadWork[u].old => i = uploadWork[u].file
                       /\ \A v \in Threads : uploadWork[u].old \notin Fresh(v)'
    BY <1>5 DEF OldIsOwn
  <2>1. /\ uploadWork[u].old \in 1..keys
        /\ \A i \in Upload!Rows : files[i].key = uploadWork[u].old => i = uploadWork[u].file
        /\ \A v \in Threads : uploadWork[u].old \notin Fresh(v)
    BY <1>1 DEF UploadsInv, OldIsOwn
  <2>. QED
    BY <1>2, <1>4, <1>10, <2>1
<1>15. OldIsOwn(t)'
  <2>. SUFFICES ASSUME Replaces(t)'
                PROVE  /\ uploadWork'[t].old \in 1..keys'
                       /\ \A i \in Upload!Rows :
                            files[i].key = uploadWork'[t].old => i = uploadWork'[t].file
                       /\ \A v \in Threads : uploadWork'[t].old \notin Fresh(v)'
    BY <1>5 DEF OldIsOwn
  <2>. DEFINE i == uploadWork'[t].file
  <2>1. i \in Upload!Rows /\ uploadWork'[t].old = files[i].key
    OBVIOUS
  <2>. HIDE DEF i
  <2>2. /\ files[i].key \in 1..keys
        /\ \A j \in Upload!Rows : files[j].key = files[i].key => j = i
    BY <2>1 DEF UploadsInv, RowsStored
  <2>3. \A v \in Threads : files[i].key \notin Fresh(v)'
    BY <1>11, <2>1
  <2>. QED
    BY <1>4, <2>1, <2>2, <2>3 DEF i
<1>16. \A u \in Threads : UploadRequest(u)' /\ OldIsOwn(u)'
  BY <1>1, <1>14, <1>15
<1>. QED
  BY <1>7, <1>12, <1>13, <1>16 DEF UploadsInv

\* An object of no row, nor of one to come, is removed.
LEMMA RemoveKeeps ==
  ASSUME UploadsInv, NEW t \in Threads, NEW k \in Upload!Keys, Upload!RemoveObject(t, k)
  PROVE  UploadsInv'
<1>1. /\ k \in Doomed(t)
      /\ objects' = [objects EXCEPT ![k] = None]
      /\ uploadWork' = [uploadWork EXCEPT ![t].todo = uploadWork[t].todo \ {k}]
      /\ files' = files /\ keys' = keys
      /\ Upload!Serves(t, "drop")
  BY DEF Upload!RemoveObject, Doomed
<1>2. /\ \A i \in Upload!Rows : files[i].key # k
      /\ \A u \in Threads : k \notin Fresh(u)
  BY <1>1 DEF UploadsInv, DoomedUnused
<1>3. /\ DOMAIN uploadWork' = Threads
      /\ \A u \in Threads \ {t} : uploadWork'[u] = uploadWork[u]
      /\ uploadWork'[t] = [op |-> "drop", todo |-> uploadWork[t].todo \ {k}]
  <2>1. uploadWork[t] = [op |-> "drop", todo |-> uploadWork[t].todo]
    BY <1>1 DEF UploadsInv, UploadRequest
  <2>2. [uploadWork[t] EXCEPT !.todo = uploadWork[t].todo \ {k}]
          = [op |-> "drop", todo |-> uploadWork[t].todo \ {k}]
    BY <2>1
  <2>. QED
    BY <1>1, <2>2 DEF UploadsInv
<1>4. ASSUME NEW u \in Threads
      PROVE  /\ Fresh(u)' = Fresh(u) /\ Doomed(u)' \subseteq Doomed(u)
             /\ Replaces(u)' = Replaces(u) /\ UploadRequest(u)'
             /\ Replaces(u)' => uploadWork'[u] = uploadWork[u]
  <2>1. CASE u = t
    BY <1>1, <1>3, <2>1 DEF Fresh, Doomed, Uploads, Replaces, Upload!Serves, UploadRequest
  <2>2. CASE u # t
    BY <1>1, <1>3, <2>2, SameRequest DEF UploadsInv, UploadRequest, Upload!Rows
  <2>. QED
    BY <2>1, <2>2
<1>5. Upload!Rows' = Upload!Rows
  BY <1>1 DEF Upload!Rows
<1>6. \A j \in Upload!Keys \ {k} : objects'[j] = objects[j]
  BY <1>1 DEF UploadsInv, RowsStored
<1>7. RowsStored'
  <2>1. \A i \in Upload!Rows : files[i].key \in Upload!Keys
    BY GivenOut DEF UploadsInv, RowsStored
  <2>2. \A i \in Upload!Rows : objects'[files[i].key] # None
    BY <1>2, <1>6, <2>1 DEF UploadsInv, RowsStored
  <2>. QED
    BY <1>1, <1>5, <2>2 DEF RowsStored, UploadsInv
<1>8. ASSUME NEW u \in Threads
      PROVE  FreshStored(u)'
  <2>1. \A j \in Fresh(u) : j \in Upload!Keys /\ j # k
    BY <1>2, GivenOut DEF UploadsInv, FreshStored
  <2>2. \A j \in Fresh(u) : objects'[j] # None
    BY <1>6, <2>1 DEF UploadsInv, FreshStored
  <2>. QED
    BY <1>1, <1>4, <1>5, <2>2 DEF UploadsInv, FreshStored
<1>9. ASSUME NEW u \in Threads
      PROVE  DoomedUnused(u)' /\ OldIsOwn(u)'
  <2>1. \A v \in Threads : Fresh(v)' = Fresh(v)
    BY <1>4
  <2>. QED
    BY <1>1, <1>4, <1>5, <2>1 DEF UploadsInv, DoomedUnused, OldIsOwn
<1>. QED
  BY <1>3, <1>4, <1>7, <1>8, <1>9 DEF UploadsInv

\* Keys that only t knew become rows of their own, and the others are dropped.
LEMMA AddKeeps ==
  ASSUME UploadsInv, NEW t \in Threads, Upload!CommitAdd(t)
  PROVE  UploadsInv'
<1>. DEFINE put == uploadWork[t].put
            A == Upload!Added(t)
            Row(i) == [content |-> put[i], key |-> i, status |-> "uploaded"]
<1>1. /\ Upload!Serves(t, "adding") /\ Uploads(t) /\ ~Replaces(t)
      /\ Fresh(t) = Upload!KeysOf(put) /\ Doomed(t) = {}
      /\ put \in [Upload!Keys -> Contents \cup {None}]
  BY DEF Upload!CommitAdd, Fresh, Doomed, Uploads, Replaces, Upload!Serves, UploadsInv,
     UploadRequest
<1>2. A \subseteq Fresh(t)
  BY <1>1 DEF Upload!Added, Upload!Inserted
<1>3. PICK D : /\ D \subseteq Fresh(t)
               /\ uploadWork' = [uploadWork EXCEPT ![t] = [op |-> "drop", todo |-> D]]
               /\ \/ files' = files
                  \/ /\ files' = [i \in Upload!Keys |-> IF i \in A THEN Row(i) ELSE files[i]]
                     /\ D \cap A = {}
  BY <1>1 DEF Upload!CommitAdd, Upload!Drop, Upload!Unreferenced
<1>4. /\ DOMAIN uploadWork' = Threads
      /\ \A u \in Threads \ {t} : uploadWork'[u] = uploadWork[u]
      /\ uploadWork'[t] = [op |-> "drop", todo |-> D]
      /\ objects' = objects /\ keys' = keys
  BY <1>3 DEF UploadsInv, Upload!CommitAdd
<1>5. /\ Fresh(t)' = {} /\ Doomed(t)' \subseteq D /\ ~Replaces(t)' /\ UploadRequest(t)'
  BY <1>4 DEF Fresh, Doomed, Uploads, Replaces, Upload!Serves, UploadRequest
<1>6. CASE files' = files
  <2>1. Upload!Rows' = Upload!Rows
    BY <1>6 DEF Upload!Rows
  <2>. QED
    BY <1>3, <1>4, <1>5, <1>6, <2>1, MovesKeep DEF UploadsInv, RowsStored
<1>7. CASE /\ files' = [i \in Upload!Keys |-> IF i \in A THEN Row(i) ELSE files[i]]
           /\ D \cap A = {}
  <2>. HIDE DEF A
  <2>1. \A i \in A : i \in 1..keys /\ i \in Upload!Keys /\ objects[i] # None /\ files[i] = None
                     /\ \A j \in Upload!Rows : files[j].key # i
    BY <1>2, GivenOut DEF UploadsInv, FreshStored
  <2>2. \A i \in A : Row(i) \in Upload!File
    BY <1>1, <1>2, <2>1 DEF Upload!File, Upload!KeysOf
  <2>3. /\ \A i \in A : files'[i] = Row(i) /\ files'[i].key = i /\ files'[i] # None
        /\ \A i \in Upload!Keys \ A : files'[i] = files[i]
        /\ files' \in [Upload!Keys -> Upload!File \cup {None}]
    BY <1>7, <2>1, <2>2, DeskAssumption DEF UploadsInv, RowsStored
  <2>. HIDE DEF Row
  <2>4. Upload!Rows' = Upload!Rows \cup A /\ Upload!Rows \cap A = {}
    BY <2>1, <2>3 DEF Upload!Rows
  <2>5. \A i \in Upload!Rows : i \in Upload!Keys /\ files'[i] = files[i]
    BY <2>3, <2>4 DEF Upload!Rows
  <2>6. ASSUME NEW i \in Upload!Rows'
        PROVE  /\ i \in 1..keys
               /\ files'[i].key \in 1..keys
               /\ objects[files'[i].key] # None
               /\ \A j \in Upload!Rows' : files'[j].key = files'[i].key => j = i
    <3>1. CASE i \in A
      BY <2>1, <2>3, <2>4, <2>5, <3>1
    <3>2. CASE i \in Upload!Rows
      <4>1. /\ i \in 1..keys /\ files[i].key \in 1..keys /\ objects[files[i].key] # None
            /\ \A j \in Upload!Rows : files[j].key = files[i].key => j = i
        BY <3>2 DEF UploadsInv, RowsStored
      <4>. QED
        BY <2>1, <2>3, <2>4, <2>5, <3>2, <4>1
    <3>. QED
      BY <2>4, <3>1, <3>2
  <2>7. RowsStored'
    BY <1>4, <2>3, <2>6 DEF RowsStored, UploadsInv
  <2>8. ASSUME NEW u \in Threads \ {t}
        PROVE  /\ Fresh(u)' = Fresh(u) /\ Doomed(u)' = Doomed(u) /\ Replaces(u)' = Replaces(u)
               /\ UploadRequest(u)'
    BY <1>4, <2>4, SameRequest DEF UploadsInv, UploadRequest
  <2>9. \A u \in Threads : Fresh(u)' \subseteq Fresh(u)
    BY <1>5, <2>8
  <2>10. \A u \in Threads \ {t} : Fresh(u) \cap A = {}
    BY <1>2 DEF UploadsInv, FreshStored
  <2>11. ASSUME NEW u \in Threads
         PROVE  FreshStored(u)'
    <3>. SUFFICES ASSUME NEW k \in Fresh(u)'
                  PROVE  /\ k \in 1..keys /\ objects[k] # None /\ files'[k] = None
                         /\ \A i \in Upload!Rows' : files'[i].key # k
                         /\ \A v \in Threads : k \in Fresh(v)' => v = u
      BY <1>4 DEF FreshStored
    <3>1. u # t /\ k \in Fresh(u) /\ k \notin A
      BY <1>5, <2>8, <2>10
    <3>2. /\ k \in 1..keys /\ objects[k] # None /\ files[k] = None
          /\ \A i \in Upload!Rows : files[i].key # k
          /\ \A v \in Threads : k \in Fresh(v) => v = u
      BY <3>1 DEF UploadsInv, FreshStored
    <3>3. k \in Upload!Keys
      BY <3>2, GivenOut
    <3>. QED
      BY <2>3, <2>4, <2>5, <2>9, <3>1, <3>2, <3>3
  <2>12. ASSUME NEW u \in Threads
         PROVE  DoomedUnused(u)'
    <3>. SUFFICES ASSUME NEW k \in Doomed(u)'
                  PROVE  /\ \A i \in Upload!Rows' : files'[i].key # k
                         /\ \A v \in Threads : k \notin Fresh(v)'
                         /\ k \in 1..keys
      BY <1>4 DEF DoomedUnused
    <3>1. CASE u = t
      <4>1. k \in Fresh(t) /\ k \notin A
        BY <1>3, <1>5, <1>7, <3>1
      <4>2. /\ \A i \in Upload!Rows : files[i].key # k
            /\ \A v \in Threads : k \in Fresh(v) => v = t
            /\ k \in 1..keys
        BY <4>1 DEF UploadsInv, FreshStored
      <4>. QED
        BY <1>5, <2>3, <2>4, <2>5, <2>9, <4>1, <4>2
    <3>2. CASE u # t
      <4>1. /\ \A i \in Upload!Rows : files[i].key # k
            /\ \A v \in Threads : k \notin Fresh(v)
            /\ k \in 1..keys
        BY <2>8, <3>2 DEF UploadsInv, DoomedUnused
      <4>. QED
        BY <1>2, <2>3, <2>4, <2>5, <2>9, <4>1
    <3>. QED
      BY <3>1, <3>2
  <2>13. ASSUME NEW u \in Threads
         PROVE  OldIsOwn(u)'
    <3>. SUFFICES ASSUME Replaces(u)'
                  PROVE  /\ uploadWork'[u].old \in 1..keys
                         /\ \A i \in Upload!Rows' :
                              files'[i].key = uploadWork'[u].old => i = uploadWork'[u].file
                         /\ \A v \in Threads : uploadWork'[u].old \notin Fresh(v)'
      BY <1>4 DEF OldIsOwn
    <3>1. u # t /\ uploadWork'[u] = uploadWork[u]
      BY <1>4, <1>5
    <3>2. /\ uploadWork[u].old \in 1..keys
          /\ \A i \in Upload!Rows : files[i].key = uploadWork[u].old => i = uploadWork[u].file
          /\ \A v \in Threads : uploadWork[u].old \notin Fresh(v)
      BY <2>8, <3>1 DEF UploadsInv, OldIsOwn
    <3>. QED
      BY <1>2, <2>3, <2>4, <2>5, <2>9, <3>1, <3>2
  <2>14. \A u \in Threads : UploadRequest(u)'
    BY <1>5, <2>8
  <2>. QED
    BY <1>4, <2>7, <2>11, <2>12, <2>13, <2>14 DEF UploadsInv
<1>. QED
  BY <1>3, <1>6, <1>7

\* The row gets the key that only t knew, and the one that it had is dropped,
\* which is of no row then.
LEMMA ReplaceKeeps ==
  ASSUME UploadsInv, NEW t \in Threads, Upload!Serves(t, "replacing"),
         files' = [files EXCEPT ![uploadWork[t].file] =
                     Upload!Written(files[uploadWork[t].file], uploadWork[t])],
         Upload!Drop(t, {uploadWork[t].old}), objects' = objects, keys' = keys
  PROVE  UploadsInv'
<1>. DEFINE x == uploadWork[t]
            W == Upload!Written(files[x.file], x)
<1>. PICK i, n, o : i = x.file /\ n = x.key /\ o = x.old
  OBVIOUS
<1>1. /\ Replaces(t) /\ Fresh(t) = {n} /\ i \in Upload!Rows /\ x.content \in Contents
      /\ i \in Upload!Keys /\ files[i] \in Upload!File
  BY DEF Fresh, Uploads, Replaces, Upload!Serves, UploadsInv, UploadRequest, RowsStored, Upload!Rows
<1>2. /\ n \in 1..keys /\ n \in Upload!Keys /\ objects[n] # None /\ files[n] = None
      /\ \A j \in Upload!Rows : files[j].key # n
      /\ \A u \in Threads : n \in Fresh(u) => u = t
  BY <1>1, GivenOut DEF UploadsInv, FreshStored
<1>3. /\ o \in 1..keys
      /\ \A j \in Upload!Rows : files[j].key = o => j = i
      /\ \A u \in Threads : o \notin Fresh(u)
  BY <1>1 DEF UploadsInv, OldIsOwn
<1>4. W \in Upload!File /\ W.key = n
  BY <1>1, <1>2 DEF Upload!Written, Upload!File
<1>5. /\ files' \in [Upload!Keys -> Upload!File \cup {None}]
      /\ files'[i] = W /\ W # None
      /\ \A j \in Upload!Keys \ {i} : files'[j] = files[j]
  BY <1>1, <1>4, DeskAssumption DEF UploadsInv, RowsStored
<1>. HIDE DEF W
<1>6. Upload!Rows' = Upload!Rows
  BY <1>1, <1>5 DEF Upload!Rows
<1>7. \A j \in Upload!Rows \ {i} : j \in Upload!Keys /\ files'[j] = files[j]
  BY <1>5 DEF Upload!Rows
<1>8. /\ DOMAIN uploadWork' = Threads
      /\ \A u \in Threads \ {t} : uploadWork'[u] = uploadWork[u]
      /\ uploadWork'[t] = [op |-> "drop", todo |-> {o}]
  BY DEF UploadsInv, Upload!Drop
<1>9. Fresh(t)' = {} /\ Doomed(t)' \subseteq {o} /\ ~Replaces(t)' /\ UploadRequest(t)'
  BY <1>8 DEF Fresh, Doomed, Uploads, Replaces, Upload!Serves, UploadRequest
<1>10. ASSUME NEW u \in Threads \ {t}
       PROVE  /\ Fresh(u)' = Fresh(u) /\ Doomed(u)' = Doomed(u) /\ Replaces(u)' = Replaces(u)
              /\ UploadRequest(u)'
  BY <1>6, <1>8, SameRequest DEF UploadsInv, UploadRequest
<1>11. \A u \in Threads : Fresh(u)' \subseteq Fresh(u)
  BY <1>9, <1>10
<1>12. ASSUME NEW k \in Upload!Rows
       PROVE  /\ k \in 1..keys
              /\ files'[k].key \in 1..keys
              /\ objects[files'[k].key] # None
              /\ \A j \in Upload!Rows : files'[j].key = files'[k].key => j = k
  <2>1. /\ k \in 1..keys /\ files[k].key \in 1..keys /\ objects[files[k].key] # None
        /\ \A j \in Upload!Rows : files[j].key = files[k].key => j = k
    BY DEF UploadsInv, RowsStored
  <2>2. CASE k = i
    BY <1>2, <1>4, <1>5, <1>7, <2>1, <2>2
  <2>3. CASE k # i
    BY <1>2, <1>4, <1>5, <1>7, <2>1, <2>3
  <2>. QED
    BY <2>2, <2>3
<1>13. RowsStored'
  BY <1>5, <1>6, <1>12 DEF RowsStored, UploadsInv
<1>14. ASSUME NEW u \in Threads
       PROVE  FreshStored(u)'
  <2>. SUFFICES ASSUME NEW k \in Fresh(u)'
                PROVE  /\ k \in 1..keys /\ objects[k] # None /\ files'[k] = None
                       /\ \A j \in Upload!Rows : files'[j].key # k
                       /\ \A v \in Threads : k \in Fresh(v)' => v = u
    BY <1>6 DEF FreshStored
  <2>1. u # t /\ k \in Fresh(u) /\ k # n
    BY <1>2, <1>9, <1>10
  <2>2. /\ k \in 1..keys /\ objects[k] # None /\ files[k] = None
        /\ \A j \in Upload!Rows : files[j].key # k
        /\ \A v \in Threads : k \in Fresh(v) => v = u
    BY <2>1 DEF UploadsInv, FreshStored
  <2>3. k \in Upload!Keys /\ k # i
    BY <1>1, <2>2, GivenOut DEF Upload!Rows
  <2>. QED
    BY <1>4, <1>5, <1>7, <1>11, <2>1, <2>2, <2>3
<1>15. ASSUME NEW u \in Threads
       PROVE  DoomedUnused(u)'
  <2>. SUFFICES ASSUME NEW k \in Doomed(u)'
                PROVE  /\ \A j \in Upload!Rows : files'[j].key # k
                       /\ \A v \in Threads : k \notin Fresh(v)'
                       /\ k \in 1..keys
    BY <1>6 DEF DoomedUnused
  <2>1. CASE u = t
    BY <1>1, <1>3, <1>4, <1>5, <1>7, <1>9, <1>11, <2>1
  <2>2. CASE u # t
    <3>1. /\ \A j \in Upload!Rows : files[j].key # k
          /\ \A v \in Threads : k \notin Fresh(v)
          /\ k \in 1..keys
      BY <1>10, <2>2 DEF UploadsInv, DoomedUnused
    <3>. QED
      BY <1>1, <1>4, <1>5, <1>7, <1>11, <3>1
  <2>. QED
    BY <2>1, <2>2
<1>16. ASSUME NEW u \in Threads
       PROVE  OldIsOwn(u)'
  <2>. SUFFICES ASSUME Replaces(u)'
                PROVE  /\ uploadWork'[u].old \in 1..keys
                       /\ \A j \in Upload!Rows :
                            files'[j].key = uploadWork'[u].old => j = uploadWork'[u].file
                       /\ \A v \in Threads : uploadWork'[u].old \notin Fresh(v)'
    BY <1>6 DEF OldIsOwn
  <2>1. u # t /\ uploadWork'[u] = uploadWork[u]
    BY <1>8, <1>9
  <2>2. /\ uploadWork[u].old \in 1..keys
        /\ \A j \in Upload!Rows : files[j].key = uploadWork[u].old => j = uploadWork[u].file
        /\ \A v \in Threads : uploadWork[u].old \notin Fresh(v)
    BY <1>10, <2>1 DEF UploadsInv, OldIsOwn
  <2>. QED
    BY <1>1, <1>4, <1>5, <1>7, <1>11, <2>1, <2>2
<1>17. \A u \in Threads : UploadRequest(u)'
  BY <1>9, <1>10
<1>. QED
  BY <1>8, <1>13, <1>14, <1>15, <1>16, <1>17 DEF UploadsInv

\* A request that ends, or that only removes objects that it alone knew.
LEMMA DropKeeps ==
  ASSUME UploadsInv, NEW t \in Threads, NEW D \in SUBSET (Doomed(t) \cup Fresh(t)),
         Upload!Drop(t, D) \/ Upload!Done(t),
         objects' = objects, keys' = keys,
         files' \in [Upload!Keys -> Upload!File \cup {None}],
         Upload!Rows' = Upload!Rows,
         \A i \in Upload!Rows : files'[i].key = files[i].key
  PROVE  UploadsInv'
<1>1. /\ DOMAIN uploadWork' = Threads
      /\ \A u \in Threads \ {t} : uploadWork'[u] = uploadWork[u]
      /\ uploadWork'[t] = [op |-> "drop", todo |-> D] \/ uploadWork'[t] = None
  BY DEF UploadsInv, Upload!Drop, Upload!Done
<1>2. Fresh(t)' = {} /\ Doomed(t)' \subseteq D /\ ~Replaces(t)' /\ UploadRequest(t)'
  BY <1>1 DEF Fresh, Doomed, Uploads, Replaces, Upload!Serves, UploadRequest
<1>. QED
  BY <1>1, <1>2, MovesKeep

\* There is no file at the start.
LEMMA UploadsInit == Upload!Init => UploadsInv
<1>. SUFFICES ASSUME Upload!Init PROVE UploadsInv
  OBVIOUS
<1>1. /\ Upload!Rows = {} /\ files \in [Upload!Keys -> Upload!File \cup {None}]
      /\ DOMAIN objects = Upload!Keys /\ keys \in 0..MaxKeys /\ DOMAIN uploadWork = Threads
  BY DeskAssumption DEF Upload!Init, Upload!Nothing, Upload!Rows
<1>2. ASSUME NEW t \in Threads
      PROVE  /\ Fresh(t) = {} /\ Doomed(t) = {} /\ ~Replaces(t) /\ UploadRequest(t)
  BY DEF Upload!Init, Fresh, Doomed, Uploads, Replaces, Upload!Serves, UploadRequest
<1>. QED
  BY <1>1, <1>2 DEF UploadsInv, RowsStored, FreshStored, DoomedUnused, OldIsOwn

\* What is left to store written.
LEMMA TodoWritten ==
  ASSUME NEW x, NEW todo, x = [op |-> "upload", todo |-> x.todo, put |-> x.put]
  PROVE  [x EXCEPT !.todo = todo] = [op |-> "upload", todo |-> todo, put |-> x.put]
  OBVIOUS

\* Every step of the uploads keeps the invariant.
LEMMA UploadsStep == UploadsInv /\ Upload!Next => UploadsInv'
<1>. SUFFICES ASSUME UploadsInv, Upload!Next PROVE UploadsInv'
  OBVIOUS
<1>0. /\ files \in [Upload!Keys -> Upload!File \cup {None}] /\ DOMAIN uploadWork = Threads
      /\ \A i \in Upload!Rows : i \in Upload!Keys /\ files[i] \in Upload!File
  BY DEF UploadsInv, RowsStored, Upload!Rows
<1>1. ASSUME NEW i \in Upload!Rows, NEW s \in {"parsed", "deleted"},
             files' = [files EXCEPT ![i].status = s]
      PROVE  /\ files' \in [Upload!Keys -> Upload!File \cup {None}]
             /\ Upload!Rows' = Upload!Rows
             /\ \A j \in Upload!Rows : files'[j].key = files[j].key
  <2>. DEFINE row == [files[i] EXCEPT !.status = s]
  <2>1. row \in Upload!File /\ row.key = files[i].key
    BY <1>0 DEF Upload!File
  <2>. HIDE DEF row
  <2>2. files' = [files EXCEPT ![i] = row]
    BY <1>1 DEF row
  <2>. QED
    BY <1>0, <2>1, <2>2, DeskAssumption DEF Upload!Rows
<1>2. ASSUME files' = files
      PROVE  /\ files' \in [Upload!Keys -> Upload!File \cup {None}]
             /\ Upload!Rows' = Upload!Rows
             /\ \A j \in Upload!Rows : files'[j].key = files[j].key
  BY <1>0, <1>2 DEF Upload!Rows
<1>3. ASSUME NEW i \in Upload!Rows, Upload!Parse(i) PROVE UploadsInv'
  <2>1. /\ files' = [files EXCEPT ![i].status = "parsed"]
        /\ objects' = objects /\ keys' = keys /\ uploadWork' = uploadWork
    BY <1>3 DEF Upload!Parse
  <2>2. /\ files' \in [Upload!Keys -> Upload!File \cup {None}]
        /\ Upload!Rows' = Upload!Rows
        /\ \A j \in Upload!Rows : files'[j].key = files[j].key
    BY <1>1, <2>1
  <2>3. CASE Threads = {}
    BY <1>0, <2>1, <2>2, <2>3 DEF UploadsInv, RowsStored
  <2>4. ASSUME NEW t \in Threads PROVE UploadsInv'
    <3>1. /\ Fresh(t)' = Fresh(t) /\ Doomed(t)' = Doomed(t) /\ Replaces(t)' = Replaces(t)
          /\ UploadRequest(t)'
      BY <2>1, <2>2, SameRequest DEF UploadsInv, UploadRequest
    <3>2. Doomed(t) \cap Fresh(t) = {}
      BY DEF UploadsInv, DoomedUnused
    <3>. QED
      BY <1>0, <2>1, <2>2, <3>1, <3>2, MovesKeep
  <2>. QED
    BY <2>3, <2>4
<1>4. ASSUME NEW t \in Threads, NEW contents \in Upload!Uploaded, Upload!BeginUpload(t, contents)
      PROVE  UploadsInv'
  <2>1. /\ DOMAIN uploadWork' = Threads
        /\ \A u \in Threads \ {t} : uploadWork'[u] = uploadWork[u]
        /\ uploadWork'[t] = [op |-> "upload", todo |-> contents, put |-> Upload!Nothing]
        /\ files' = files /\ objects' = objects /\ keys' = keys
    BY <1>0, <1>4 DEF Upload!BeginUpload
  <2>2. /\ Upload!KeysOf(Upload!Nothing) = {}
        /\ Upload!Nothing \in [Upload!Keys -> Contents \cup {None}]
    BY DEF Upload!KeysOf, Upload!Nothing
  <2>3. contents \in Seq(Contents)
    <3>1. PICK n \in 1..MaxUpload : contents \in [1..n -> Contents]
      BY DEF Upload!Uploaded
    <3>2. n \in Nat
      BY <3>1
    <3>. QED
      BY <3>1, <3>2, SeqDef
  <2>4. /\ Fresh(t)' = {} /\ Doomed(t)' = {} /\ ~Replaces(t)'
        /\ UploadRequest(t)'
    BY <2>1, <2>2, <2>3 DEF Fresh, Doomed, Uploads, Replaces, Upload!Serves, UploadRequest,
       Upload!KeysOf
  <2>. QED
    BY <1>2, <2>1, <2>4, MovesKeep
<1>5. ASSUME NEW t \in Threads, Upload!PutObject(t) PROVE UploadsInv'
  <2>. DEFINE x == uploadWork[t]
              content == Head(x.todo)
              put == [x.put EXCEPT ![keys + 1] = content]
  <2>1. /\ Upload!Serves(t, "upload") /\ Uploads(t) /\ x.todo # << >>
        /\ x = [op |-> "upload", todo |-> x.todo, put |-> x.put]
        /\ x.todo \in Seq(Contents) /\ x.put \in [Upload!Keys -> Contents \cup {None}]
    BY <1>5 DEF Upload!PutObject, Uploads, UploadsInv, UploadRequest
  <2>2. content \in Contents /\ Tail(x.todo) \in Seq(Contents)
    BY <2>1
  <2>3. /\ uploadWork' = [uploadWork EXCEPT ![t] =
                            [x EXCEPT !.todo = Tail(x.todo), !.put = put]]
        /\ Upload!Put(content) /\ files' = files
    BY <1>5 DEF Upload!PutObject
  <2>4. [x EXCEPT !.todo = Tail(x.todo), !.put = put]
          = [op |-> "upload", todo |-> Tail(x.todo), put |-> put]
    <3>1. PICK y, p, r : y = x /\ p = put /\ r = Tail(x.todo)
      OBVIOUS
    <3>2. y = [op |-> "upload", todo |-> y.todo, put |-> y.put]
      BY <2>1, <3>1
    <3>. DEFINE z == [op |-> "upload", todo |-> r, put |-> y.put]
    <3>3. [y EXCEPT !.todo = r, !.put = p] = [z EXCEPT !.put = p]
      BY <3>2, TodoWritten
    <3>4. [z EXCEPT !.put = p] = [op |-> "upload", todo |-> r, put |-> p]
      OBVIOUS
    <3>. QED
      BY <3>1, <3>3, <3>4
  <2>5. put \in [Upload!Keys -> Contents \cup {None}]
    BY <2>1, <2>2
  <2>6. Upload!KeysOf(put) \subseteq Upload!KeysOf(x.put) \cup {keys + 1}
    BY <2>1 DEF Upload!KeysOf
  <2>. HIDE DEF put
  <2>7. /\ DOMAIN uploadWork' = Threads
        /\ \A u \in Threads \ {t} : uploadWork'[u] = uploadWork[u]
        /\ uploadWork'[t] = [op |-> "upload", todo |-> Tail(x.todo), put |-> put]
    BY <1>0, <2>3, <2>4
  <2>8. /\ Fresh(t) = Upload!KeysOf(x.put)
        /\ Fresh(t)' \subseteq Upload!KeysOf(put) /\ Doomed(t)' = {} /\ ~Replaces(t)'
        /\ UploadRequest(t)'
    BY <2>1, <2>2, <2>5, <2>7 DEF Fresh, Doomed, Uploads, Replaces, Upload!Serves, UploadRequest,
       Upload!KeysOf
  <2>. QED
    BY <2>2, <2>3, <2>6, <2>7, <2>8, PutKeeps
<1>6. ASSUME NEW t \in Threads, Upload!RefuseContent(t) PROVE UploadsInv'
  <2>1. Fresh(t) = Upload!KeysOf(uploadWork[t].put)
    BY <1>6 DEF Upload!RefuseContent, Fresh, Uploads
  <2>. QED
    BY <1>2, <1>6, <2>1, DropKeeps DEF Upload!RefuseContent
<1>7. ASSUME NEW t \in Threads, Upload!BeginAdd(t) PROVE UploadsInv'
  <2>. DEFINE known == {files[i].content : i \in Upload!Rows}
  <2>1. /\ DOMAIN uploadWork' = Threads
        /\ \A u \in Threads \ {t} : uploadWork'[u] = uploadWork[u]
        /\ uploadWork'[t] = [op |-> "adding", put |-> uploadWork[t].put, known |-> known]
        /\ files' = files /\ objects' = objects /\ keys' = keys
    BY <1>0, <1>7 DEF Upload!BeginAdd
  <2>. HIDE DEF known
  <2>2. /\ Upload!Serves(t, "upload") /\ Uploads(t)
        /\ uploadWork[t].put \in [Upload!Keys -> Contents \cup {None}]
    BY <1>7 DEF Upload!BeginAdd, Uploads, UploadsInv, UploadRequest
  <2>3. /\ Fresh(t) = Upload!KeysOf(uploadWork[t].put)
        /\ Fresh(t)' \subseteq Upload!KeysOf(uploadWork[t].put) /\ Doomed(t)' = {} /\ ~Replaces(t)'
        /\ UploadRequest(t)'
    BY <2>1, <2>2 DEF Fresh, Doomed, Uploads, Replaces, Upload!Serves, UploadRequest, Upload!KeysOf
  <2>. QED
    BY <1>2, <2>1, <2>3, MovesKeep
<1>8. ASSUME NEW t \in Threads, Upload!CommitAdd(t) PROVE UploadsInv'
  BY <1>8, AddKeeps
<1>9. ASSUME NEW t \in Threads, NEW k \in Upload!Keys, Upload!RemoveObject(t, k) PROVE UploadsInv'
  BY <1>9, RemoveKeeps
<1>10. ASSUME NEW t \in Threads, Upload!Respond(t) \/ Upload!Crash(t) PROVE UploadsInv'
  <2>1. /\ Upload!Done(t) /\ files' = files /\ objects' = objects /\ keys' = keys
    BY <1>10 DEF Upload!Respond, Upload!Crash
  <2>2. {} \in SUBSET (Doomed(t) \cup Fresh(t))
    OBVIOUS
  <2>. QED
    BY <1>2, <2>1, <2>2, DropKeeps
<1>11. ASSUME NEW t \in Threads, NEW i \in Upload!Rows, NEW content \in Contents,
              Upload!BeginReplace(t, i, content)
       PROVE  UploadsInv'
  <2>1. /\ DOMAIN uploadWork' = Threads
        /\ \A u \in Threads \ {t} : uploadWork'[u] = uploadWork[u]
        /\ uploadWork'[t] = [op |-> "replace", file |-> i, old |-> files[i].key,
                             content |-> content, key |-> keys + 1]
        /\ files' = files /\ Upload!Put(content)
    BY <1>0, <1>11 DEF Upload!BeginReplace
  <2>2. /\ Fresh(t)' \subseteq {keys + 1} /\ Doomed(t)' = {}
        /\ uploadWork'[t].file = i /\ uploadWork'[t].old = files[i].key
        /\ UploadRequest(t)'
    BY <1>2, <2>1 DEF Fresh, Doomed, Uploads, Replaces, Upload!Serves, UploadRequest
  <2>. QED
    BY <2>1, <2>2, PutKeeps
<1>12. ASSUME NEW t \in Threads, Upload!ReadReplaced(t) PROVE UploadsInv'
  <2>. DEFINE x == uploadWork[t]
  <2>1. /\ Replaces(t) /\ Fresh(t) = {x.key}
        /\ x.file \in Upload!Rows /\ x.content \in Contents
        /\ files' = files /\ objects' = objects /\ keys' = keys
    BY <1>12 DEF Upload!ReadReplaced, Replaces, Fresh, Uploads, Upload!Serves, UploadsInv,
       UploadRequest
  <2>2. CASE Upload!Drop(t, {x.key})
    BY <1>2, <2>1, <2>2, DropKeeps
  <2>3. CASE uploadWork' = [uploadWork EXCEPT ![t] =
               [op |-> "replacing", file |-> x.file, old |-> x.old, content |-> x.content,
                key |-> x.key, read |-> files[x.file]]]
    <3>1. /\ DOMAIN uploadWork' = Threads
          /\ \A u \in Threads \ {t} : uploadWork'[u] = uploadWork[u]
          /\ uploadWork'[t] = [op |-> "replacing", file |-> x.file, old |-> x.old,
                               content |-> x.content, key |-> x.key, read |-> files[x.file]]
      BY <1>0, <2>3
    <3>2. /\ Fresh(t)' \subseteq {x.key} /\ Doomed(t)' = {}
          /\ uploadWork'[t].file = x.file /\ uploadWork'[t].old = x.old
          /\ UploadRequest(t)'
      BY <1>2, <2>1, <3>1 DEF Fresh, Doomed, Uploads, Replaces, Upload!Serves, UploadRequest
    <3>. QED
      BY <1>2, <2>1, <3>1, <3>2, MovesKeep
  <2>. QED
    BY <1>12, <2>2, <2>3 DEF Upload!ReadReplaced
<1>13. ASSUME NEW t \in Threads, Upload!CommitReplace(t) PROVE UploadsInv'
  <2>1. objects' = objects /\ keys' = keys /\ Upload!Serves(t, "replacing")
    BY <1>13 DEF Upload!CommitReplace
  <2>2. CASE Upload!Done(t) /\ files' = files
    <3>1. {} \in SUBSET (Doomed(t) \cup Fresh(t))
      OBVIOUS
    <3>. QED
      BY <1>2, <2>1, <2>2, <3>1, DropKeeps
  <2>3. CASE /\ files' = [files EXCEPT ![uploadWork[t].file] =
                            Upload!Written(files[uploadWork[t].file], uploadWork[t])]
             /\ Upload!Drop(t, {uploadWork[t].old})
    BY <2>1, <2>3, ReplaceKeeps
  <2>. QED
    BY <1>13, <2>2, <2>3 DEF Upload!CommitReplace, Upload!Replaced
<1>14. ASSUME NEW t \in Threads, NEW i \in Upload!Rows, Upload!BeginDelete(t, i) PROVE UploadsInv'
  <2>1. /\ DOMAIN uploadWork' = Threads
        /\ \A u \in Threads \ {t} : uploadWork'[u] = uploadWork[u]
        /\ uploadWork'[t] = [op |-> "deleting", file |-> i]
        /\ files' = files /\ objects' = objects /\ keys' = keys
    BY <1>0, <1>14 DEF Upload!BeginDelete
  <2>2. Fresh(t)' = {} /\ Doomed(t)' = {} /\ ~Replaces(t)' /\ UploadRequest(t)'
    BY <1>2, <2>1 DEF Fresh, Doomed, Uploads, Replaces, Upload!Serves, UploadRequest
  <2>. QED
    BY <1>2, <2>1, <2>2, MovesKeep
<1>15. ASSUME NEW t \in Threads, Upload!CommitDelete(t) PROVE UploadsInv'
  <2>. DEFINE i == uploadWork[t].file
  <2>1. /\ i \in Upload!Rows
        /\ files' = [files EXCEPT ![i].status = "deleted"]
        /\ objects' = objects /\ keys' = keys /\ Upload!Done(t)
    BY <1>15 DEF Upload!CommitDelete, UploadsInv, UploadRequest
  <2>. HIDE DEF i
  <2>2. /\ files' \in [Upload!Keys -> Upload!File \cup {None}]
        /\ Upload!Rows' = Upload!Rows
        /\ \A j \in Upload!Rows : files'[j].key = files[j].key
    BY <1>1, <2>1
  <2>3. {} \in SUBSET (Doomed(t) \cup Fresh(t))
    OBVIOUS
  <2>. QED
    BY <2>1, <2>2, <2>3, DropKeeps
<1>. QED
  BY <1>3, <1>4, <1>5, <1>6, <1>7, <1>8, <1>9, <1>10, <1>11, <1>12, <1>13, <1>14, <1>15
     DEF Upload!Next

\* The invariant holds whichever part of the desk moves.
LEMMA UploadsInvariant == DeskSpec => []UploadsInv
<1>1. DeskInit => UploadsInv
  BY UploadsInit DEF DeskInit
<1>2. UploadsInv /\ [DeskNext]_deskVars => UploadsInv'
  <2>. SUFFICES ASSUME UploadsInv, [DeskNext]_deskVars PROVE UploadsInv'
    OBVIOUS
  <2>1. CASE UNCHANGED uploadVars
    <3>1. /\ files' = files /\ objects' = objects /\ keys' = keys /\ uploadWork' = uploadWork
          /\ Upload!Rows' = Upload!Rows
      BY <2>1 DEF uploadVars, Upload!Rows
    <3>2. ASSUME NEW t \in Threads
          PROVE  /\ Fresh(t)' = Fresh(t) /\ Doomed(t)' = Doomed(t) /\ Replaces(t)' = Replaces(t)
                 /\ UploadRequest(t)'
      BY <3>1, SameRequest DEF UploadsInv, UploadRequest
    <3>. QED
      BY <3>1, <3>2 DEF UploadsInv, RowsStored, FreshStored, DoomedUnused, OldIsOwn
  <2>2. CASE Upload!Next
    BY <2>2, UploadsStep
  <2>. QED
    BY <2>1, <2>2 DEF DeskNext, deskVars
<1>. QED
  BY <1>1, <1>2, PTL DEF DeskSpec

\* Whatever uploads, replacements, deletions and failures overlap, a row of a
\* task's file names an object that is in the storage: an object is stored before
\* its row is written, and is removed only by the one who knows that no row has it.
THEOREM StoredFilesExistHolds == DeskSpec => []StoredFilesExist
<1>1. UploadsInv => StoredFilesExist
  BY DEF UploadsInv, RowsStored, StoredFilesExist, Upload!StoredFilesExist
<1>. QED
  BY <1>1, UploadsInvariant, PTL

-----------------------------------------------------------------------------
(* Reports.                                                                *)

AsPublished(p) == [p EXCEPT !.status = "published"]

\* A thread is to store the file of the kind for the report.
Pending(t, p, kind) ==
  /\ Reporting!Serves(t, "word") \/ (kind = "pdf" /\ Reporting!Serves(t, "pdf"))
  /\ reportWork[t].report = p

\* What a request knows of its report: a publication knows it as a draft, or as
\* it is since another one published it.
ReportRequest(t) ==
  /\ Reporting!Serves(t, "report") =>
       /\ reportWork[t].task \in Reporting!Numbers
       /\ reportWork[t].round \in 1..MaxTaskRounds
       /\ reportWork[t].version \in 1..MaxReports
  /\ Reporting!Serves(t, "publish") =>
       /\ reportWork[t].report \in Reporting!Report
       /\ reportWork[t].report \in reports \/ AsPublished(reportWork[t].report) \in reports
  /\ Reporting!Serves(t, "word") \/ Reporting!Serves(t, "pdf") =>
       reportWork[t].report \in reports /\ reportWork[t].report.status = "published"

\* A report is known by its task and version.
ReportsApart ==
  \A p, q \in reports : p.task = q.task /\ p.version = q.version => p = q

\* Without a fault each file of a published report is its own, or is to be
\* stored by a thread that publishes it.
FilesComing ==
  reportFaults = 0 =>
    \A p \in reports, kind \in {"word", "pdf"} :
      p.status = "published" =>
        \/ reportFiles[Reporting!File(p, kind)] = p.round
        \/ \E t \in Threads : Pending(t, p, kind)

ReportsInv ==
  /\ DOMAIN reportWork = Threads
  /\ DOMAIN reportFiles = Reporting!Files
  /\ reports \subseteq Reporting!Report
  /\ reportFaults \in Nat
  /\ ReportsApart
  /\ \A t \in Threads : ReportRequest(t)
  /\ FilesComing

\* A report published is the report but for its status.
LEMMA PublishedReport ==
  ASSUME NEW p \in Reporting!Report
  PROVE  /\ AsPublished(p) \in Reporting!Report /\ AsPublished(p).status = "published"
         /\ AsPublished(p).task = p.task /\ AsPublished(p).version = p.version
         /\ AsPublished(p).round = p.round
         /\ p.status = "published" => AsPublished(p) = p
  BY DEF AsPublished, Reporting!Report

\* Two reports that are alike but for their status are the same when published.
LEMMA PublishedAlike ==
  ASSUME NEW p \in Reporting!Report, NEW q \in Reporting!Report,
         p.task = q.task, p.version = q.version, p.round = q.round, p.status = q.status
  PROVE  p = q
  BY DEF Reporting!Report

\* A report's file is one of the files there are.
LEMMA FileOfReport ==
  ASSUME NEW p \in Reporting!Report, NEW kind \in {"word", "pdf"}
  PROVE  Reporting!File(p, kind) \in Reporting!Files
  BY DEF Reporting!File, Reporting!Files, Reporting!Report

\* The request of a thread that does nothing.
LEMMA SameReportRequest ==
  ASSUME NEW t, reportWork'[t] = reportWork[t]
  PROVE  /\ \A op : Reporting!Serves(t, op)' = Reporting!Serves(t, op)
         /\ \A p, kind : Pending(t, p, kind)' = Pending(t, p, kind)
  BY DEF Reporting!Serves, Pending

\* Steps that write no report and no file, of a thread that is to store none
\* unless it fails.
LEMMA QuietKeeps ==
  ASSUME ReportsInv, NEW t \in Threads,
         reports' = reports, reportFiles' = reportFiles, reportFaults' \in Nat,
         DOMAIN reportWork' = Threads,
         \A u \in Threads \ {t} : reportWork'[u] = reportWork[u],
         ReportRequest(t)',
         \/ reportFaults' # 0
         \/ /\ reportFaults' = reportFaults
            /\ ~Reporting!Serves(t, "word") /\ ~Reporting!Serves(t, "pdf")
  PROVE  ReportsInv'
<1>1. ASSUME NEW u \in Threads \ {t}
      PROVE  ReportRequest(u)'
  BY SameReportRequest DEF ReportsInv, ReportRequest
<1>2. \A u \in Threads : ReportRequest(u)'
  BY <1>1
<1>3. ReportsApart'
  BY DEF ReportsApart, ReportsInv
<1>4. FilesComing'
  <2>. SUFFICES ASSUME reportFaults' = 0, NEW p \in reports, NEW kind \in {"word", "pdf"},
                       p.status = "published",
                       reportFiles[Reporting!File(p, kind)] # p.round
                PROVE  \E u \in Threads : Pending(u, p, kind)'
    BY DEF FilesComing
  <2>1. PICK u \in Threads : Pending(u, p, kind)
    BY DEF ReportsInv, FilesComing
  <2>2. u # t
    BY <2>1 DEF Pending
  <2>. QED
    BY <2>1, <2>2, SameReportRequest
<1>. QED
  BY <1>2, <1>3, <1>4 DEF ReportsInv

\* A report is added, as a draft.
LEMMA AddReportKeeps ==
  ASSUME ReportsInv, NEW t \in Threads, Reporting!CommitReport(t),
         ~Reporting!Taken(reportWork[t])
  PROVE  ReportsInv'
<1>. DEFINE x == reportWork[t]
            new == [task |-> x.task, round |-> x.round, version |-> x.version,
                    status |-> "draft"]
<1>1. /\ Reporting!Serves(t, "report")
      /\ reports' = reports \cup {new}
      /\ reportFiles' = reportFiles /\ reportFaults' = reportFaults
      /\ DOMAIN reportWork' = Threads
      /\ \A u \in Threads \ {t} : reportWork'[u] = reportWork[u]
      /\ reportWork'[t] = None
  BY DEF Reporting!CommitReport, Reporting!Insert, ReportsInv
<1>2. /\ new \in Reporting!Report /\ new.status = "draft"
      /\ new.task = x.task /\ new.version = x.version
  BY <1>1 DEF ReportsInv, ReportRequest, Reporting!Report
<1>3. \A p \in reports : ~(p.task = x.task /\ p.version = x.version)
  BY DEF Reporting!Taken
<1>. HIDE DEF new
<1>4. ReportsApart'
  BY <1>1, <1>2, <1>3 DEF ReportsInv, ReportsApart
<1>5. ASSUME NEW u \in Threads
      PROVE  ReportRequest(u)'
  <2>1. CASE u = t
    BY <1>1, <2>1 DEF ReportRequest, Reporting!Serves
  <2>2. CASE u # t
    BY <1>1, <2>2, SameReportRequest DEF ReportsInv, ReportRequest
  <2>. QED
    BY <2>1, <2>2
<1>6. FilesComing'
  <2>. SUFFICES ASSUME reportFaults' = 0, NEW p \in reports', NEW kind \in {"word", "pdf"},
                       p.status = "published",
                       reportFiles[Reporting!File(p, kind)] # p.round
                PROVE  \E u \in Threads : Pending(u, p, kind)'
    BY <1>1 DEF FilesComing
  <2>1. p \in reports
    BY <1>1, <1>2
  <2>2. PICK u \in Threads : Pending(u, p, kind)
    BY <1>1, <2>1 DEF ReportsInv, FilesComing
  <2>3. u # t
    BY <1>1, <2>2 DEF Pending, Reporting!Serves
  <2>. QED
    BY <1>1, <2>2, <2>3, SameReportRequest
<1>. QED
  BY <1>1, <1>2, <1>4, <1>5, <1>6 DEF ReportsInv

\* A report is published, and its files are to be stored.
LEMMA PublishReportKeeps ==
  ASSUME ReportsInv, NEW t \in Threads, Reporting!CommitPublish(t)
  PROVE  ReportsInv'
<1>. PICK p, q : p = reportWork[t].report /\ q = AsPublished(p)
  OBVIOUS
<1>1. /\ Reporting!Serves(t, "publish")
      /\ reports' = (reports \ {p}) \cup {q}
      /\ reportFiles' = reportFiles /\ reportFaults' = reportFaults
      /\ DOMAIN reportWork' = Threads
      /\ \A u \in Threads \ {t} : reportWork'[u] = reportWork[u]
      /\ reportWork'[t] = [op |-> "word", report |-> q]
  BY DEF Reporting!CommitPublish, ReportsInv, AsPublished
<1>2. p \in Reporting!Report /\ (p \in reports \/ q \in reports)
  BY <1>1 DEF ReportsInv, ReportRequest
<1>3. /\ q \in Reporting!Report /\ q.status = "published"
      /\ q.task = p.task /\ q.version = p.version /\ q.round = p.round
      /\ p.status = "published" => q = p
  BY <1>2, PublishedReport
<1>4. \A r \in reports : r.task = q.task /\ r.version = q.version => r = p \/ r = q
  BY <1>2, <1>3 DEF ReportsInv, ReportsApart
<1>5. ReportsApart'
  BY <1>1, <1>4 DEF ReportsInv, ReportsApart
<1>6. /\ reports' \subseteq Reporting!Report /\ q \in reports'
      /\ \A r \in reports : r \in reports' \/ r = p
      /\ \A r \in reports : r.status = "published" => r \in reports'
  BY <1>1, <1>3 DEF ReportsInv
<1>7. ASSUME NEW u \in Threads
      PROVE  ReportRequest(u)'
  <2>1. CASE u = t
    BY <1>1, <1>3, <1>6, <2>1 DEF ReportRequest, Reporting!Serves
  <2>2. CASE u # t
    <3>1. ASSUME Reporting!Serves(u, "publish")
          PROVE  /\ reportWork[u].report \in Reporting!Report
                 /\ reportWork[u].report \in reports' \/ AsPublished(reportWork[u].report) \in reports'
      <4>. PICK r, s : r = reportWork[u].report /\ s = AsPublished(r)
        OBVIOUS
      <4>1. r \in Reporting!Report /\ (r \in reports \/ s \in reports)
        BY <3>1 DEF ReportsInv, ReportRequest
      <4>2. s.status = "published"
        BY <4>1, PublishedReport
      <4>. QED
        BY <1>6, <4>1, <4>2
    <3>2. reportWork'[u] = reportWork[u]
      BY <1>1, <2>2
    <3>. QED
      BY <1>6, <3>1, <3>2, SameReportRequest DEF ReportsInv, ReportRequest
  <2>. QED
    BY <2>1, <2>2
<1>8. FilesComing'
  <2>. SUFFICES ASSUME reportFaults' = 0, NEW r \in reports', NEW kind \in {"word", "pdf"},
                       r.status = "published",
                       reportFiles[Reporting!File(r, kind)] # r.round
                PROVE  \E u \in Threads : Pending(u, r, kind)'
    BY <1>1 DEF FilesComing
  <2>1. CASE r = q
    <3>1. Pending(t, q, kind)'
      BY <1>1, <1>3, DeskAssumption DEF Pending, Reporting!Serves
    <3>. QED
      BY <2>1, <3>1
  <2>2. CASE r # q
    <3>1. r \in reports
      BY <1>1, <2>2
    <3>2. PICK u \in Threads : Pending(u, r, kind)
      BY <1>1, <3>1 DEF ReportsInv, FilesComing
    <3>3. u # t
      BY <1>1, <3>2 DEF Pending, Reporting!Serves
    <3>. QED
      BY <1>1, <3>2, <3>3, SameReportRequest
  <2>. QED
    BY <2>1, <2>2
<1>. QED
  BY <1>1, <1>5, <1>6, <1>7, <1>8 DEF ReportsInv

\* A file of a report is stored; other reports have other files.
LEMMA StoreFileKeeps ==
  ASSUME ReportsInv, NEW t \in Threads, NEW k \in {"word", "pdf"},
         Reporting!Serves(t, k), NEW p, p = reportWork[t].report,
         reportFiles' = [reportFiles EXCEPT ![Reporting!File(p, k)] = p.round],
         reports' = reports, reportFaults' = reportFaults,
         DOMAIN reportWork' = Threads,
         \A u \in Threads \ {t} : reportWork'[u] = reportWork[u],
         reportWork'[t] = IF k = "word" THEN [op |-> "pdf", report |-> p] ELSE None
  PROVE  ReportsInv'
<1>1. p \in reports /\ p \in Reporting!Report /\ p.status = "published"
  BY DEF ReportsInv, ReportRequest
<1>2. /\ reportFiles'[Reporting!File(p, k)] = p.round
      /\ DOMAIN reportFiles' = Reporting!Files
      /\ \A f \in Reporting!Files \ {Reporting!File(p, k)} : reportFiles'[f] = reportFiles[f]
  BY <1>1, FileOfReport DEF ReportsInv
<1>3. ASSUME NEW u \in Threads
      PROVE  ReportRequest(u)'
  <2>1. CASE u = t
    BY <1>1, <2>1 DEF ReportRequest, Reporting!Serves
  <2>2. CASE u # t
    BY <2>2, SameReportRequest DEF ReportsInv, ReportRequest
  <2>. QED
    BY <2>1, <2>2
<1>4. FilesComing'
  <2>. SUFFICES ASSUME reportFaults' = 0, NEW r \in reports, NEW kind \in {"word", "pdf"},
                       r.status = "published",
                       reportFiles'[Reporting!File(r, kind)] # r.round
                PROVE  \E u \in Threads : Pending(u, r, kind)'
    BY DEF FilesComing
  <2>1. CASE Reporting!File(r, kind) = Reporting!File(p, k)
    <3>1. r = p
      BY <1>1, <2>1 DEF Reporting!File, ReportsInv, ReportsApart
    <3>. QED
      BY <1>2, <2>1, <3>1
  <2>2. CASE Reporting!File(r, kind) # Reporting!File(p, k)
    <3>1. reportFiles[Reporting!File(r, kind)] # r.round
      BY <1>2, <2>2, FileOfReport DEF ReportsInv
    <3>2. PICK u \in Threads : Pending(u, r, kind)
      BY <3>1 DEF ReportsInv, FilesComing
    <3>3. CASE u # t
      BY <3>2, <3>3, SameReportRequest
    <3>4. CASE u = t
      <4>1. r = p
        BY <3>2, <3>4 DEF Pending
      <4>2. kind # k
        BY <2>2, <4>1
      <4>3. k = "word" /\ kind = "pdf"
        BY <3>2, <3>4, <4>2 DEF Pending, Reporting!Serves
      <4>4. Pending(t, p, "pdf")'
        BY <1>1, <4>3, DeskAssumption DEF Pending, Reporting!Serves
      <4>. QED
        BY <4>1, <4>3, <4>4
    <3>. QED
      BY <3>3, <3>4
  <2>. QED
    BY <2>1, <2>2
<1>5. ReportsApart'
  BY DEF ReportsInv, ReportsApart
<1>. QED
  BY <1>2, <1>3, <1>4, <1>5 DEF ReportsInv

\* There is no report at the start.
LEMMA ReportsInit == Reporting!Init => ReportsInv
<1>. SUFFICES ASSUME Reporting!Init PROVE ReportsInv
  OBVIOUS
<1>1. \A t \in Threads : ReportRequest(t)
  BY DEF Reporting!Init, ReportRequest, Reporting!Serves
<1>. QED
  BY <1>1 DEF Reporting!Init, ReportsInv, ReportsApart, FilesComing

\* Every step of the tasks and reports keeps the invariant.
LEMMA ReportsStep == ReportsInv /\ Reporting!Next => ReportsInv'
<1>. SUFFICES ASSUME ReportsInv, Reporting!Next PROVE ReportsInv'
  OBVIOUS
<1>1. PICK t \in Threads :
        \/ Reporting!BeginTask(t) \/ Reporting!CommitTask(t) \/ Reporting!CommitRound(t)
        \/ Reporting!CommitReport(t) \/ Reporting!CommitPublish(t) \/ Reporting!PutWord(t)
        \/ Reporting!PutPdf(t) \/ Reporting!Fail(t)
        \/ \E p \in reports : Reporting!BeginPublish(t, p)
        \/ \E n \in Reporting!Numbers :
             \/ Reporting!BeginRound(t, n)
             \/ \E r \in 1..MaxTaskRounds : Reporting!BeginReport(t, n, r)
  BY DEF Reporting!Next
<1>2. ASSUME NEW request, Reporting!Begin(t, request), request.op # "word", request.op # "pdf",
             request.op = "report" =>
               /\ request.task \in Reporting!Numbers
               /\ request.round \in 1..MaxTaskRounds
               /\ request.version \in 1..MaxReports,
             request.op = "publish" => request.report \in reports
      PROVE  ReportsInv'
  <2>1. /\ reports' = reports /\ reportFiles' = reportFiles /\ reportFaults' = reportFaults
        /\ DOMAIN reportWork' = Threads /\ reportWork'[t] = request
        /\ \A u \in Threads \ {t} : reportWork'[u] = reportWork[u]
        /\ \A op : ~Reporting!Serves(t, op)
    BY <1>2 DEF Reporting!Begin, Reporting!rows, ReportsInv, Reporting!Serves
  <2>2. ReportRequest(t)'
    BY <1>2, <2>1 DEF ReportRequest, Reporting!Serves, ReportsInv
  <2>. QED
    BY <2>1, <2>2, QuietKeeps DEF ReportsInv
<1>3. ASSUME reports' = reports, reportFiles' = reportFiles, reportFaults' \in Nat,
             reportWork' = [reportWork EXCEPT ![t] = None],
             \/ reportFaults' # 0
             \/ /\ reportFaults' = reportFaults
                /\ ~Reporting!Serves(t, "word") /\ ~Reporting!Serves(t, "pdf")
      PROVE  ReportsInv'
  <2>1. /\ DOMAIN reportWork' = Threads /\ reportWork'[t] = None
        /\ \A u \in Threads \ {t} : reportWork'[u] = reportWork[u]
    BY <1>3 DEF ReportsInv
  <2>2. ReportRequest(t)'
    BY <2>1 DEF ReportRequest, Reporting!Serves
  <2>. QED
    BY <1>3, <2>1, <2>2, QuietKeeps
<1>4. CASE Reporting!BeginTask(t)
  BY <1>2, <1>4 DEF Reporting!BeginTask
<1>5. CASE \E n \in Reporting!Numbers : Reporting!BeginRound(t, n)
  BY <1>2, <1>5 DEF Reporting!BeginRound
<1>6. CASE \E n \in Reporting!Numbers, r \in 1..MaxTaskRounds : Reporting!BeginReport(t, n, r)
  <2>1. PICK n \in Reporting!Numbers, r \in 1..MaxTaskRounds : Reporting!BeginReport(t, n, r)
    BY <1>6
  <2>. DEFINE request == [op |-> "report", task |-> n, round |-> r,
                          version |-> Reporting!NextVersion(n, r)]
  <2>2. /\ Reporting!Begin(t, request) /\ request.op = "report" /\ request.task = n
        /\ request.round = r /\ request.version \in 1..MaxReports
    BY <2>1 DEF Reporting!BeginReport
  <2>. HIDE DEF request
  <2>. QED
    BY <1>2, <2>2
<1>7. CASE \E p \in reports : Reporting!BeginPublish(t, p)
  BY <1>2, <1>7 DEF Reporting!BeginPublish
<1>8. CASE Reporting!CommitTask(t) \/ Reporting!CommitRound(t)
  BY <1>3, <1>8 DEF Reporting!CommitTask, Reporting!CommitRound, Reporting!Insert,
     Reporting!Serves, ReportsInv
<1>9. CASE Reporting!CommitReport(t)
  <2>1. CASE Reporting!Taken(reportWork[t])
    BY <1>3, <1>9, <2>1 DEF Reporting!CommitReport, Reporting!Insert, Reporting!Serves, ReportsInv
  <2>2. CASE ~Reporting!Taken(reportWork[t])
    BY <1>9, <2>2, AddReportKeeps
  <2>. QED
    BY <2>1, <2>2
<1>10. CASE Reporting!CommitPublish(t)
  BY <1>10, PublishReportKeeps
<1>11. CASE Reporting!PutWord(t)
  <2>. PICK p : p = reportWork[t].report
    OBVIOUS
  <2>1. /\ Reporting!Serves(t, "word")
        /\ reportFiles' = [reportFiles EXCEPT ![Reporting!File(p, "word")] = p.round]
        /\ reports' = reports /\ reportFaults' = reportFaults
        /\ DOMAIN reportWork' = Threads
        /\ \A u \in Threads \ {t} : reportWork'[u] = reportWork[u]
        /\ reportWork'[t] = [op |-> "pdf", report |-> p]
    BY <1>11 DEF Reporting!PutWord, Reporting!rows, ReportsInv
  <2>. PICK k \in {"word", "pdf"} : k = "word"
    OBVIOUS
  <2>. QED
    BY <2>1, StoreFileKeeps
<1>12. CASE Reporting!PutPdf(t)
  <2>. PICK p : p = reportWork[t].report
    OBVIOUS
  <2>1. /\ Reporting!Serves(t, "pdf")
        /\ reportFiles' = [reportFiles EXCEPT ![Reporting!File(p, "pdf")] = p.round]
        /\ reports' = reports /\ reportFaults' = reportFaults
        /\ DOMAIN reportWork' = Threads
        /\ \A u \in Threads \ {t} : reportWork'[u] = reportWork[u]
        /\ reportWork'[t] = None
    BY <1>12 DEF Reporting!PutPdf, Reporting!rows, ReportsInv
  <2>. PICK k \in {"word", "pdf"} : k = "pdf"
    OBVIOUS
  <2>. QED
    BY <2>1, StoreFileKeeps
<1>13. CASE Reporting!Fail(t)
  <2>1. reportFaults' \in Nat /\ reportFaults' # 0
    BY <1>13 DEF Reporting!Fail, ReportsInv
  <2>. QED
    BY <1>3, <1>13, <2>1 DEF Reporting!Fail, Reporting!rows
<1>. QED
  BY <1>1, <1>4, <1>5, <1>6, <1>7, <1>8, <1>9, <1>10, <1>11, <1>12, <1>13

\* The part that numbers tasks has no reports.
NoReports ==
  /\ reports = {} /\ DOMAIN reportWork = Threads
  /\ \A t \in Threads : ~Reporting!Serves(t, "report") /\ ~Reporting!Serves(t, "publish")

LEMMA NumbersActions ==
  ASSUME NoReports, Numbering!Next
  PROVE  \E t \in Threads :
           \/ Numbering!BeginTask(t) \/ Numbering!CommitTask(t) \/ Numbering!CommitRound(t)
           \/ Numbering!PutWord(t) \/ Numbering!PutPdf(t) \/ Numbering!Fail(t)
           \/ \E n \in Numbering!Numbers : Numbering!BeginRound(t, n)
<1>1. \A u \in Threads : ~Numbering!CommitReport(u) /\ ~Numbering!CommitPublish(u)
  BY DEF Numbering!CommitReport, Numbering!CommitPublish, Numbering!Serves, NoReports,
     Reporting!Serves
<1>2. \A u \in Threads, n \in Numbering!Numbers, r \in 1..1 : ~Numbering!BeginReport(u, n, r)
  BY DEF Numbering!BeginReport
<1>. QED
  BY <1>1, <1>2 DEF Numbering!Next, NoReports

LEMMA NumbersStep == NoReports /\ Numbering!Next => NoReports'
<1>. SUFFICES ASSUME NoReports, Numbering!Next PROVE NoReports'
  OBVIOUS
<1>1. PICK t \in Threads :
        \/ Numbering!BeginTask(t) \/ Numbering!CommitTask(t) \/ Numbering!CommitRound(t)
        \/ Numbering!PutWord(t) \/ Numbering!PutPdf(t) \/ Numbering!Fail(t)
        \/ \E n \in Numbering!Numbers : Numbering!BeginRound(t, n)
  BY NumbersActions
<1>2. /\ reports' = reports
      /\ \/ reportWork' = [reportWork EXCEPT ![t] = None]
         \/ \E x : /\ reportWork' = [reportWork EXCEPT ![t] = x]
                   /\ x.op # "report" /\ x.op # "publish"
  BY <1>1 DEF Numbering!BeginTask, Numbering!CommitTask, Numbering!CommitRound, Numbering!PutWord,
     Numbering!PutPdf, Numbering!Fail, Numbering!BeginRound, Numbering!Begin, Numbering!Insert,
     Numbering!rows
<1>. QED
  BY <1>2 DEF NoReports, Reporting!Serves

\* What holds of the reports depends on the part of the desk that moves.
ReportingInv == IF part = "numbers" THEN NoReports ELSE ReportsInv

LEMMA ReportingInvariant == DeskSpec => []ReportingInv
<1>1. DeskInit => ReportingInv
  <2>. SUFFICES ASSUME DeskInit PROVE ReportingInv
    OBVIOUS
  <2>1. Numbering!Init => NoReports
    BY DEF Numbering!Init, NoReports, Reporting!Serves
  <2>. QED
    BY <2>1, ReportsInit DEF DeskInit, ReportingInv
<1>2. ReportingInv /\ [DeskNext]_deskVars => ReportingInv'
  <2>. SUFFICES ASSUME ReportingInv, [DeskNext]_deskVars PROVE ReportingInv'
    OBVIOUS
  <2>1. part' = part
    BY DEF DeskNext, deskVars
  <2>2. CASE UNCHANGED reportVars
    <3>1. UNCHANGED <<reports, reportFiles, reportWork, reportFaults>>
      BY <2>2 DEF reportVars
    <3>2. ReportsInv => ReportsInv'
      BY <3>1 DEF ReportsInv, ReportsApart, ReportRequest, FilesComing, Pending, Reporting!Serves
    <3>3. NoReports => NoReports'
      BY <3>1 DEF NoReports, Reporting!Serves
    <3>. QED
      BY <2>1, <3>2, <3>3 DEF ReportingInv
  <2>3. CASE part = "numbers" /\ Numbering!Next
    BY <2>1, <2>3, NumbersStep DEF ReportingInv
  <2>4. CASE part = "reports" /\ Reporting!Next
    BY <2>1, <2>4, ReportsStep DEF ReportingInv
  <2>. QED
    BY <2>2, <2>3, <2>4 DEF DeskNext, deskVars
<1>. QED
  BY <1>1, <1>2, PTL DEF DeskSpec

\* Without a fault, the files of a published report that nobody is publishing are
\* there and are its own: a report is known by the name that its files have,
\* and who publishes it stores them after it is published.
THEOREM PublishedFilesOwnHolds == DeskSpec => []PublishedFilesOwn
<1>1. ReportingInv => PublishedFilesOwn
  <2>. SUFFICES ASSUME ReportingInv, NEW p \in reports, p.status = "published", reportFaults = 0,
                       \A t \in Threads : ~Reporting!Publishing(t, p),
                       NEW kind \in {"word", "pdf"}
                PROVE  reportFiles[Reporting!File(p, kind)] = p.round
    BY DEF PublishedFilesOwn, Reporting!PublishedFilesOwn
  <2>1. ReportsInv
    BY DEF ReportingInv, NoReports
  <2>2. ASSUME NEW t \in Threads, Pending(t, p, kind) PROVE FALSE
    BY <2>2 DEF Pending, Reporting!Publishing
  <2>. QED
    BY <2>1, <2>2 DEF ReportsInv, FilesComing
<1>. QED
  BY <1>1, ReportingInvariant, PTL

-----------------------------------------------------------------------------
(* Written numbers.                                                        *)

Power == Numbering!Power

\* Every set of naturals has a least element.
LEMMA Least ==
  ASSUME NEW S \in SUBSET Nat, S # {}
  PROVE  \E n \in S : \A m \in S : n <= m
<1>1. PICK n \in S : \A m \in S : <<m, n>> \notin OpToRel(<, Nat)
  BY NatLessThanWellFounded, WFMin
<1>2. \A m \in S : ~(m < n)
  BY <1>1 DEF OpToRel
<1>. QED
  BY <1>2

\* Induction: else there is a least natural that is not in S.
LEMMA Induction ==
  ASSUME NEW S, 0 \in S, \A n \in Nat : n \in S => n + 1 \in S
  PROVE  Nat \subseteq S
<1>. DEFINE T == Nat \ S
<1>. SUFFICES ASSUME T # {} PROVE FALSE
  OBVIOUS
<1>1. PICK n \in T : \A m \in T : n <= m
  BY Least
<1>2. n - 1 \in Nat /\ n - 1 \notin T
  BY <1>1
<1>. QED
  BY <1>2

\* The values of Power up to n.
Begins(g, n) == g[0] = 1 /\ \A k \in 1..n : g[k] = Base * g[k - 1]

LEMMA PowersBegin == \A n \in Nat : \E g \in [Nat -> Nat] : Begins(g, n)
<1>. DEFINE S == {n \in Nat : \E g \in [Nat -> Nat] : Begins(g, n)}
<1>1. 0 \in S
  <2>1. Begins([k \in Nat |-> 1], 0)
    BY DEF Begins
  <2>. QED
    BY <2>1
<1>2. ASSUME NEW n \in Nat, n \in S PROVE n + 1 \in S
  <2>1. PICK g \in [Nat -> Nat] : Begins(g, n)
    BY <1>2
  <2>. DEFINE h == [g EXCEPT ![n + 1] = Base * g[n]]
  <2>2. h \in [Nat -> Nat]
    BY DeskAssumption
  <2>3. h[0] = 1 /\ h[n + 1] = Base * g[n] /\ \A k \in 0..n : h[k] = g[k]
    BY <2>1 DEF Begins
  <2>4. Begins(h, n + 1)
    <3>. HIDE DEF h
    <3>. SUFFICES ASSUME NEW k \in 1..(n + 1) PROVE h[k] = Base * h[k - 1]
      BY <2>3 DEF Begins
    <3>1. k \in 1..n => g[k] = Base * g[k - 1]
      BY <2>1 DEF Begins
    <3>2. k = n + 1 => h[k] = Base * h[k - 1]
      BY <2>3
    <3>. QED
      BY <2>3, <3>1, <3>2
  <2>. HIDE DEF h
  <2>. QED
    BY <2>2, <2>4
<1>. HIDE DEF S
<1>3. Nat \subseteq S
  BY <1>1, <1>2, Induction
<1>. QED
  BY <1>3 DEF S

LEMMA BeginningsAgree ==
  ASSUME NEW g, NEW h, NEW n \in Nat, Begins(g, n), Begins(h, n)
  PROVE  \A k \in 0..n : g[k] = h[k]
<1>. DEFINE S == {k \in Nat : k <= n => g[k] = h[k]}
<1>1. 0 \in S
  BY DEF Begins
<1>2. ASSUME NEW k \in Nat, k \in S PROVE k + 1 \in S
  BY <1>2 DEF Begins
<1>. HIDE DEF S
<1>3. Nat \subseteq S
  BY <1>1, <1>2, Induction
<1>. QED
  BY <1>3 DEF S

\* The recursive function is the one that its equation describes.
LEMMA PowerDef ==
  /\ Power \in [Nat -> Nat]
  /\ Power[0] = 1
  /\ \A k \in Nat : Power[k + 1] = Base * Power[k]
<1>. DEFINE upto(n) == CHOOSE g \in [Nat -> Nat] : Begins(g, n)
            f == [n \in Nat |-> upto(n)[n]]
<1>1. ASSUME NEW n \in Nat PROVE upto(n) \in [Nat -> Nat] /\ Begins(upto(n), n)
  BY PowersBegin
<1>. HIDE DEF upto
<1>2. f \in [Nat -> Nat] /\ f[0] = 1
  BY <1>1 DEF Begins
<1>3. ASSUME NEW n \in Nat PROVE f[n + 1] = Base * f[n]
  <2>1. Begins(upto(n + 1), n)
    BY <1>1 DEF Begins
  <2>2. upto(n + 1)[n] = upto(n)[n]
    BY <1>1, <2>1, BeginningsAgree
  <2>3. upto(n + 1)[n + 1] = Base * upto(n + 1)[n]
    <3>1. n + 1 \in 1..(n + 1) /\ (n + 1) - 1 = n /\ Begins(upto(n + 1), n + 1)
      BY <1>1
    <3>. QED
      BY <3>1 DEF Begins
  <2>. QED
    BY <2>2, <2>3
<1>4. f = [k \in Nat |-> IF k = 0 THEN 1 ELSE Base * f[k - 1]]
  <2>. SUFFICES ASSUME NEW k \in Nat PROVE f[k] = IF k = 0 THEN 1 ELSE Base * f[k - 1]
    BY <1>2
  <2>1. CASE k = 0
    BY <1>2, <2>1
  <2>2. CASE k # 0
    <3>1. k - 1 \in Nat /\ (k - 1) + 1 = k
      BY <2>2
    <3>. QED
      BY <1>3, <3>1, <2>2
  <2>. QED
    BY <2>1, <2>2
<1>. HIDE DEF f
<1>5. Power = [k \in Nat |-> IF k = 0 THEN 1 ELSE Base * Power[k - 1]]
  BY <1>4 DEF Power, Numbering!Power
<1>. DEFINE S == {k \in Nat : Power[k] = f[k]}
<1>6. Power[0] = 1 /\ \A k \in Nat : Power[k + 1] = Base * Power[k]
  <2>1. Power[0] = 1
    BY <1>5
  <2>2. ASSUME NEW k \in Nat PROVE Power[k + 1] = Base * Power[k]
    <3>1. k + 1 \in Nat /\ k + 1 # 0 /\ (k + 1) - 1 = k
      OBVIOUS
    <3>. QED
      BY <1>5, <3>1
  <2>. QED
    BY <2>1, <2>2
<1>7. 0 \in S /\ \A k \in Nat : k \in S => k + 1 \in S
  BY <1>2, <1>3, <1>6
<1>. HIDE DEF S
<1>8. Nat \subseteq S
  BY <1>7, Induction
<1>9. Power \in [Nat -> Nat]
  <2>1. DOMAIN Power = Nat /\ \A k \in Nat : Power[k] \in Nat
    BY <1>2, <1>5, <1>8 DEF S
  <2>. QED
    BY <1>5, <2>1
<1>. QED
  BY <1>6, <1>9

LEMMA PowersPositive ==
  /\ \A k \in Nat : Power[k] > 0
  /\ \A i, j \in Nat : i <= j => Power[i] <= Power[j]
<1>1. ASSUME NEW k \in Nat, Power[k] > 0 PROVE Power[k + 1] > 0 /\ Power[k] <= Power[k + 1]
  <2>1. \A p \in Nat : p > 0 => Base * p > 0 /\ p <= Base * p
    BY DeskAssumption
  <2>. QED
    BY <1>1, <2>1, PowerDef
<1>. DEFINE S == {k \in Nat : Power[k] > 0}
<1>2. Nat \subseteq S
  <2>1. 0 \in S /\ \A k \in Nat : k \in S => k + 1 \in S
    BY <1>1, PowerDef
  <2>. HIDE DEF S
  <2>. QED
    BY <2>1, Induction
<1>3. ASSUME NEW i \in Nat PROVE \A j \in Nat : i <= j => Power[i] <= Power[j]
  <2>. DEFINE T == {j \in Nat : i <= j => Power[i] <= Power[j]}
  <2>1. 0 \in T
    BY PowerDef
  <2>2. ASSUME NEW j \in Nat, j \in T PROVE j + 1 \in T
    <3>1. Power[j] <= Power[j + 1] /\ Power[j] \in Nat /\ Power[j + 1] \in Nat /\ Power[i] \in Nat
      BY <1>1, <1>2, PowerDef
    <3>. QED
      BY <2>2, <3>1
  <2>. HIDE DEF T
  <2>3. Nat \subseteq T
    BY <2>1, <2>2, Induction
  <2>. QED
    BY <2>3 DEF T
<1>. QED
  BY <1>2, <1>3

LEMMA Quotient ==
  ASSUME NEW n \in Nat, NEW m \in Nat \ {0}, NEW c \in Nat, m * c <= n, n < m * (c + 1)
  PROVE  n \div m = c
<1>. DEFINE q == n \div m
<1>1. q \in Nat /\ m * q <= n /\ n < m * (q + 1)
  OBVIOUS
<1>. HIDE DEF q
<1>2. ASSUME q < c PROVE FALSE
  <2>. DEFINE d == c - q - 1
  <2>1. d \in Nat /\ c = q + 1 + d
    BY <1>1, <1>2
  <2>. HIDE DEF d
  <2>2. m * c = m * (q + 1) + m * d
    BY <1>1, <2>1
  <2>3. m * d \in Nat /\ m * c \in Nat /\ m * (q + 1) \in Nat
    BY <1>1, <2>1
  <2>. QED
    BY <1>1, <2>2, <2>3
<1>3. ASSUME c < q PROVE FALSE
  <2>. DEFINE d == q - c - 1
  <2>1. d \in Nat /\ q = c + 1 + d
    BY <1>1, <1>3
  <2>. HIDE DEF d
  <2>2. m * q = m * (c + 1) + m * d
    BY <1>1, <2>1
  <2>3. m * d \in Nat /\ m * q \in Nat /\ m * (c + 1) \in Nat
    BY <1>1, <2>1
  <2>. QED
    BY <1>1, <2>2, <2>3
<1>. QED
  BY <1>1, <1>2, <1>3 DEF q

\* A number in base Base, one digit longer.
LEMMA LastDigit ==
  ASSUME NEW n \in Nat, NEW p \in Nat \ {0}
  PROVE  n \div p = Base * (n \div (Base * p)) + ((n \div p) % Base)
<1>. DEFINE q == n \div p
            c == q \div Base
            d == q % Base
<1>1. q \in Nat /\ p * q <= n /\ n < p * (q + 1)
  OBVIOUS
<1>2. c \in Nat /\ d \in 0..(Base - 1) /\ q = Base * c + d
  <2>. HIDE DEF q
  <2>. QED
    BY <1>1, DeskAssumption
<1>. HIDE DEF q, c, d
<1>3. (Base * p) * c <= n
  <2>1. p * q = (Base * p) * c + p * d
    BY <1>1, <1>2, DeskAssumption
  <2>2. p * d >= 0
    BY <1>2
  <2>. QED
    BY <1>1, <1>2, <2>1, <2>2, DeskAssumption
<1>4. n < (Base * p) * (c + 1)
  <2>. DEFINE e == Base - 1 - d
  <2>1. e \in Nat /\ q + 1 + e = Base * (c + 1)
    BY <1>2, DeskAssumption
  <2>. HIDE DEF e
  <2>2. (Base * p) * (c + 1) = p * (q + 1) + p * e
    <3>1. (Base * p) * (c + 1) = p * (Base * (c + 1))
      BY <1>2, DeskAssumption
    <3>2. p * ((q + 1) + e) = p * (q + 1) + p * e
      BY <1>1, <2>1
    <3>. QED
      BY <2>1, <3>1, <3>2
  <2>3. p * e >= 0 /\ p * e \in Int /\ p * (q + 1) \in Int /\ (Base * p) * (c + 1) \in Int
    BY <1>1, <1>2, <2>1, DeskAssumption
  <2>. QED
    BY <1>1, <2>2, <2>3
<1>5. n \div (Base * p) = c
  <2>1. Base * p \in Nat \ {0}
    BY DeskAssumption
  <2>. QED
    BY <1>2, <1>3, <1>4, <2>1, Quotient
<1>. QED
  BY <1>2, <1>5 DEF q, c, d

LEMMA PowerType == \A k \in Nat : Power[k] \in Nat \ {0}
<1>. SUFFICES ASSUME NEW k \in Nat PROVE Power[k] \in Nat /\ Power[k] > 0
  OBVIOUS
<1>. QED
  BY PowerDef, PowersPositive

\* The i-th of Width digits.
Digit(n, i) == (n \div Power[Width - i]) % Base

\* Texts of one length, of natural digits.
Texts == [1..Width -> Nat]

\* A number that fits is written with Width digits.
LEMMA TextOf ==
  ASSUME NEW n \in Nat, n < Power[Width]
  PROVE  Numbering!Text(n) = [i \in 1..Width |-> Digit(n, i)]
<1>. DEFINE fits(k) == n < Numbering!Power[k] /\ (k = Width \/ n >= Numbering!Power[k - 1])
            length == CHOOSE k \in Width..(Width + n) : fits(k)
<1>1. Width \in Width..(Width + n) /\ fits(Width)
  BY DeskAssumption DEF Power
<1>2. ASSUME NEW k \in Width..(Width + n), fits(k) PROVE k = Width
  <2>. SUFFICES ASSUME k # Width PROVE FALSE
    OBVIOUS
  <2>1. k - 1 \in Nat /\ Width <= k - 1 /\ Width \in Nat
    BY DeskAssumption
  <2>2. Power[Width] <= Power[k - 1] /\ Power[k - 1] \in Nat /\ Power[Width] \in Nat
    BY <2>1, PowersPositive, PowerDef
  <2>. QED
    BY <1>2, <2>2 DEF Power
<1>3. length = Width
  BY <1>1, <1>2
<1>4. Numbering!Text(n) = [i \in 1..length |-> (n \div Numbering!Power[length - i]) % Base]
  BY DEF Numbering!Text
<1>. HIDE DEF length
<1>. QED
  BY <1>3, <1>4 DEF Digit, Power

LEMMA TextIn ==
  ASSUME NEW n \in Nat, n < Power[Width]
  PROVE  Numbering!Text(n) \in Texts
<1>1. ASSUME NEW i \in 1..Width PROVE Digit(n, i) \in Nat
  <2>1. Width - i \in Nat /\ Power[Width - i] \in Nat \ {0}
    BY PowerType, DeskAssumption
  <2>2. n \div Power[Width - i] \in Nat
    BY <2>1
  <2>. QED
    BY <2>2, DeskAssumption DEF Digit
<1>. QED
  BY <1>1, TextOf DEF Texts

\* While the numbers fit, their order as text is their order: the first digits
\* in which they differ are in that order.
LEMMA TextsOrdered ==
  ASSUME NEW m \in Nat, NEW n \in Nat, m < n, n < Power[Width]
  PROVE  Numbering!Before(Numbering!Text(m), Numbering!Text(n))
<1>. DEFINE Lead(k, i) == k \div Power[Width - i]
            D == {i \in 0..Width : Lead(m, i) # Lead(n, i)}
<1>1. \A i \in 0..Width : Width - i \in Nat /\ Power[Width - i] \in Nat \ {0}
  BY PowerType, DeskAssumption
<1>2. ASSUME NEW k \in Nat, NEW i \in 0..Width PROVE Lead(k, i) \in Nat
  BY <1>1
<1>3. m < Power[Width] /\ Power[Width] \in Nat /\ Width \in Nat
  BY PowerDef, DeskAssumption
<1>4. Lead(m, Width) = m /\ Lead(n, Width) = n
  <2>1. Width - Width = 0 /\ Power[0] = 1
    BY PowerDef, DeskAssumption
  <2>2. \A k \in Nat : k \div 1 = k
    OBVIOUS
  <2>. QED
    BY <2>1, <2>2
<1>5. Lead(m, 0) = 0 /\ Lead(n, 0) = 0
  <2>1. Width - 0 = Width /\ Power[Width] \in Nat \ {0}
    BY <1>1, <1>3
  <2>2. ASSUME NEW k \in Nat, k < Power[Width] PROVE k \div Power[Width] = 0
    <3>1. Power[Width] * 0 <= k /\ k < Power[Width] * (0 + 1)
      BY <2>1, <2>2
    <3>. QED
      BY <2>1, <3>1, Quotient
  <2>. QED
    BY <1>3, <2>1, <2>2
<1>6. ASSUME NEW k \in Nat, NEW i \in 1..Width
      PROVE  Lead(k, i) = Base * Lead(k, i - 1) + Digit(k, i)
  <2>1. i - 1 \in 0..Width /\ Width - (i - 1) = (Width - i) + 1
    BY <1>3
  <2>2. Power[Width - (i - 1)] = Base * Power[Width - i]
    BY <1>1, <2>1, PowerDef
  <2>. QED
    BY <1>1, <2>2, LastDigit DEF Digit
<1>7. \A i \in 0..Width : Lead(m, i) <= Lead(n, i)
  <2>. SUFFICES ASSUME NEW i \in 0..Width, Lead(n, i) < Lead(m, i) PROVE FALSE
    BY <1>2
  <2>. DEFINE p == Power[Width - i]
              a == Lead(m, i)
              b == Lead(n, i)
  <2>1. p \in Nat \ {0} /\ a \in Nat /\ b \in Nat /\ b < a
    BY <1>1, <1>2
  <2>2. p * a <= m /\ n < p * (b + 1)
    BY <1>1
  <2>. HIDE DEF p, a, b
  <2>3. p * (b + 1) <= p * a
    <3>. DEFINE d == a - b - 1
    <3>1. d \in Nat /\ a = (b + 1) + d
      BY <2>1
    <3>. HIDE DEF d
    <3>2. p * a = p * (b + 1) + p * d /\ p * d \in Nat /\ p * (b + 1) \in Nat
      BY <2>1, <3>1
    <3>. QED
      BY <3>2
  <2>4. p * a \in Nat /\ p * (b + 1) \in Nat
    BY <2>1
  <2>. QED
    BY <2>2, <2>3, <2>4
<1>. HIDE DEF Lead
<1>8. D # {} /\ D \in SUBSET Nat
  <2>1. Width \in D
    BY <1>3, <1>4
  <2>. QED
    BY <1>3, <2>1
<1>9. PICK i \in D : \A j \in D : i <= j
  BY <1>8, Least
<1>10. i \in 1..Width /\ i - 1 \in 0..Width /\ Lead(m, i - 1) = Lead(n, i - 1)
  <2>1. i # 0
    BY <1>5
  <2>2. i \in 1..Width /\ i - 1 \in 0..Width /\ i - 1 < i
    BY <1>3, <2>1
  <2>3. i - 1 \notin D
    BY <1>9, <2>2
  <2>. QED
    BY <2>2, <2>3
<1>11. Digit(m, i) < Digit(n, i)
  <2>1. Lead(m, i) < Lead(n, i) /\ Lead(m, i) \in Nat /\ Lead(n, i) \in Nat /\ Lead(n, i - 1) \in Nat
    BY <1>2, <1>7, <1>10
  <2>2. /\ Lead(m, i) = Base * Lead(n, i - 1) + Digit(m, i)
        /\ Lead(n, i) = Base * Lead(n, i - 1) + Digit(n, i)
    BY <1>6, <1>10
  <2>3. Digit(m, i) \in Nat /\ Digit(n, i) \in Nat
    BY <1>3, <1>10, TextIn, TextOf DEF Texts
  <2>4. Base * Lead(n, i - 1) \in Nat
    BY <2>1, DeskAssumption
  <2>. QED
    BY <2>1, <2>2, <2>3, <2>4
<1>12. ASSUME NEW j \in 1..(i - 1) PROVE Digit(m, j) = Digit(n, j)
  <2>1. /\ j \in 1..Width /\ j \in 0..Width /\ j - 1 \in 0..Width
        /\ j < i /\ j - 1 < i
    BY <1>3, <1>10
  <2>2. Lead(m, j) = Lead(n, j) /\ Lead(m, j - 1) = Lead(n, j - 1)
    BY <1>9, <2>1
  <2>3. /\ Lead(n, j) = Base * Lead(n, j - 1) + Digit(m, j)
        /\ Lead(n, j) = Base * Lead(n, j - 1) + Digit(n, j)
    BY <1>6, <2>1, <2>2
  <2>4. Digit(m, j) \in Nat /\ Digit(n, j) \in Nat
    BY <1>3, <2>1, TextIn, TextOf DEF Texts
  <2>5. Base * Lead(n, j - 1) \in Nat
    BY <1>2, <2>1, DeskAssumption
  <2>. QED
    BY <2>3, <2>4, <2>5
<1>. DEFINE s == Numbering!Text(m)
            t == Numbering!Text(n)
<1>13. /\ s = [j \in 1..Width |-> Digit(m, j)] /\ t = [j \in 1..Width |-> Digit(n, j)]
       /\ Len(s) = Width /\ Len(t) = Width
  BY <1>3, TextOf
<1>. HIDE DEF s, t
<1>14. s[i] < t[i] /\ \A j \in 1..(i - 1) : j <= Len(s) /\ s[j] = t[j]
  <2>1. \A j \in 1..(i - 1) : j \in 1..Width
    BY <1>3, <1>10
  <2>2. \A j \in 1..Width : s[j] = Digit(m, j) /\ t[j] = Digit(n, j)
    BY <1>13
  <2>3. \A j \in 1..(i - 1) : s[j] = t[j] /\ j <= Len(s)
    BY <1>12, <1>13, <2>1, <2>2, DeskAssumption
  <2>. QED
    BY <1>10, <1>11, <2>2, <2>3
<1>15. Numbering!Before(s, t)
  BY <1>10, <1>13, <1>14 DEF Numbering!Before
<1>. QED
  BY <1>15 DEF s, t

\* Two texts are not before each other.
LEMMA OneOrder ==
  ASSUME NEW s \in Texts, NEW t \in Texts
  PROVE  ~(Numbering!Before(s, t) /\ Numbering!Before(t, s))
<1>. SUFFICES ASSUME Numbering!Before(s, t), Numbering!Before(t, s) PROVE FALSE
  OBVIOUS
<1>1. Len(s) = Width /\ Len(t) = Width
  BY DeskAssumption DEF Texts
<1>2. PICK i \in 1..Width : s[i] < t[i] /\ \A j \in 1..(i - 1) : s[j] = t[j]
  BY <1>1, DeskAssumption DEF Numbering!Before
<1>3. PICK k \in 1..Width : t[k] < s[k] /\ \A j \in 1..(k - 1) : t[j] = s[j]
  BY <1>1, DeskAssumption DEF Numbering!Before
<1>4. \A j \in 1..Width : s[j] \in Nat /\ t[j] \in Nat
  BY DEF Texts
<1>. QED
  BY <1>2, <1>3, <1>4, DeskAssumption

-----------------------------------------------------------------------------
(* The numbers of tasks.                                                   *)

AllTaken == \A n \in 1..(Power[Width] - 1) : n \in Numbering!Tasks

\* The tasks have the numbers up to k, and one that is being created gets the next.
InSequence(k) ==
  /\ k < Power[Width]
  /\ Numbering!Tasks = 1..k
  /\ "task" \notin refused
  /\ \A t \in Threads :
       Numbering!Serves(t, "task") =>
         reportWork[t].number = k + 1 /\ k + 1 \in Numbering!Numbers

\* The advisory lock lets one task be created at a time.  Rounds of a task are
\* not begun here: a task comes with its first.
NumbersInv ==
  /\ NoReports
  /\ taskRounds \in [Numbering!Numbers -> Nat]
  /\ \A t \in Threads : ~Numbering!Serves(t, "round")
  /\ \A t, u \in Threads : Numbering!Serves(t, "task") /\ Numbering!Serves(u, "task") => t = u
  /\ AllTaken \/ \E k \in Nat : InSequence(k)

LEMMA NextInSequence ==
  ASSUME NEW k \in Nat, InSequence(k)
  PROVE  Numbering!NextNumber = k + 1
<1>1. k < Power[Width] /\ Numbering!Tasks = 1..k /\ Power[Width] \in Nat
  BY PowerDef, DeskAssumption DEF InSequence
<1>2. CASE k = 0
  BY <1>1, <1>2 DEF Numbering!NextNumber
<1>3. CASE k # 0
  <2>. DEFINE Last(n) == \A m \in Numbering!Tasks \ {n} :
                           Numbering!Before(Numbering!Text(m), Numbering!Text(n))
  <2>1. k \in Numbering!Tasks /\ Last(k)
    <3>1. ASSUME NEW m \in Numbering!Tasks \ {k}
          PROVE  Numbering!Before(Numbering!Text(m), Numbering!Text(k))
      BY <1>1, TextsOrdered
    <3>. QED
      BY <1>1, <1>3, <3>1
  <2>2. ASSUME NEW n \in Numbering!Tasks, Last(n) PROVE n = k
    <3>. SUFFICES ASSUME n # k PROVE FALSE
      OBVIOUS
    <3>1. /\ Numbering!Before(Numbering!Text(k), Numbering!Text(n))
          /\ Numbering!Before(Numbering!Text(n), Numbering!Text(k))
      BY <2>1, <2>2
    <3>2. Numbering!Text(k) \in Texts /\ Numbering!Text(n) \in Texts
      BY <1>1, TextIn
    <3>. QED
      BY <3>1, <3>2, OneOrder
  <2>. DEFINE last == CHOOSE n \in Numbering!Tasks : Last(n)
  <2>3. last = k
    <3>. HIDE DEF Last
    <3>. QED
      BY <2>1, <2>2
  <2>4. Numbering!NextNumber = 1 + last
    <3>1. Numbering!Tasks # {}
      BY <1>1, <1>3
    <3>. QED
      BY <3>1, Zenon DEF Numbering!NextNumber
  <2>. HIDE DEF last
  <2>. QED
    BY <2>3, <2>4
<1>. QED
  BY <1>2, <1>3

LEMMA NumbersInit == Numbering!Init => NumbersInv
<1>. SUFFICES ASSUME Numbering!Init PROVE NumbersInv
  OBVIOUS
<1>1. NoReports /\ \A t \in Threads, op \in {"round", "task"} : ~Numbering!Serves(t, op)
  BY DEF Numbering!Init, NoReports, Reporting!Serves, Numbering!Serves
<1>2. Numbering!Tasks = {} /\ taskRounds \in [Numbering!Numbers -> Nat]
  BY DEF Numbering!Init, Numbering!Tasks
<1>3. InSequence(0)
  BY <1>1, <1>2, PowerType, DeskAssumption DEF InSequence, Numbering!Init
<1>. QED
  BY <1>1, <1>2, <1>3 DEF NumbersInv

\* A request that is not about to create a task.
LEMMA TasksStay ==
  ASSUME NumbersInv, NoReports', NEW t \in Threads, NEW x,
         reportWork' = [reportWork EXCEPT ![t] = x],
         x = None \/ (x.op # "task" /\ x.op # "round"),
         taskRounds' = taskRounds, refused' = refused
  PROVE  NumbersInv'
<1>1. \A u \in Threads, op \in {"task", "round"} :
        Numbering!Serves(u, op)' => Numbering!Serves(u, op) /\ reportWork'[u] = reportWork[u]
  BY DEF NumbersInv, NoReports, Numbering!Serves
<1>2. Numbering!Tasks' = Numbering!Tasks
  BY DEF Numbering!Tasks
<1>3. AllTaken => AllTaken'
  BY <1>2 DEF AllTaken
<1>4. ASSUME NEW k \in Nat, InSequence(k) PROVE InSequence(k)'
  BY <1>1, <1>2, <1>4 DEF InSequence
<1>. QED
  BY <1>1, <1>3, <1>4 DEF NumbersInv

LEMMA BeginTaskNumbers ==
  ASSUME NumbersInv, NoReports', NEW t \in Threads, Numbering!BeginTask(t)
  PROVE  NumbersInv'
<1>. DEFINE x == [op |-> "task", number |-> Numbering!NextNumber]
<1>1. /\ \A u \in Threads : ~Numbering!Serves(u, "task")
      /\ reportWork' = [reportWork EXCEPT ![t] = x]
      /\ Numbering!NextNumber <= MaxNumbers
      /\ taskRounds' = taskRounds /\ refused' = refused
  BY DEF Numbering!BeginTask, Numbering!Turn, Numbering!Begin, Numbering!rows
<1>2. /\ x.op = "task" /\ x.number = Numbering!NextNumber
      /\ \A u \in Threads : reportWork'[u] = IF u = t THEN x ELSE reportWork[u]
  BY <1>1 DEF NumbersInv, NoReports
<1>. HIDE DEF x
<1>3. /\ \A u \in Threads : ~Numbering!Serves(u, "round")'
      /\ \A u \in Threads : Numbering!Serves(u, "task")' => u = t
  BY <1>1, <1>2 DEF NumbersInv, Numbering!Serves
<1>4. Numbering!Tasks' = Numbering!Tasks
  BY <1>1 DEF Numbering!Tasks
<1>5. AllTaken => AllTaken'
  BY <1>4 DEF AllTaken
<1>6. ASSUME NEW k \in Nat, InSequence(k) PROVE InSequence(k)'
  <2>1. Numbering!NextNumber = k + 1
    BY <1>6, NextInSequence
  <2>2. k + 1 \in Numbering!Numbers
    BY <1>1, <2>1, DeskAssumption DEF Numbering!Numbers
  <2>. QED
    BY <1>1, <1>2, <1>3, <1>4, <1>6, <2>1, <2>2 DEF InSequence
<1>. QED
  BY <1>1, <1>3, <1>5, <1>6 DEF NumbersInv

LEMMA CommitTaskNumbers ==
  ASSUME NumbersInv, NoReports', NEW t \in Threads, Numbering!CommitTask(t)
  PROVE  NumbersInv'
<1>. DEFINE n == reportWork[t].number
<1>1. /\ Numbering!Serves(t, "task")
      /\ taskRounds' = IF n \in Numbering!Tasks THEN taskRounds ELSE [taskRounds EXCEPT ![n] = 1]
      /\ reportWork' = [reportWork EXCEPT ![t] = None]
      /\ refused' = refused \cup (IF n \in Numbering!Tasks THEN {reportWork[t].op} ELSE {})
  BY DEF Numbering!CommitTask, Numbering!Insert
<1>2. \A u \in Threads, op \in {"task", "round"} : ~Numbering!Serves(u, op)'
  <2>1. \A u \in Threads : reportWork'[u] = IF u = t THEN None ELSE reportWork[u]
    BY <1>1 DEF NumbersInv, NoReports
  <2>. QED
    BY <1>1, <2>1 DEF NumbersInv, Numbering!Serves
<1>. HIDE DEF n
<1>3. /\ taskRounds' \in [Numbering!Numbers -> Nat]
      /\ Numbering!Tasks' =
           Numbering!Tasks \cup (IF n \in Numbering!Numbers THEN {n} ELSE {})
  <2>1. CASE n \in Numbering!Tasks
    BY <1>1, <2>1 DEF NumbersInv, Numbering!Tasks
  <2>2. CASE n \notin Numbering!Tasks
    <3>1. taskRounds' = [taskRounds EXCEPT ![n] = 1] /\ taskRounds \in [Numbering!Numbers -> Nat]
      BY <1>1, <2>2 DEF NumbersInv
    <3>2. \A m \in Numbering!Numbers : taskRounds'[m] = IF m = n THEN 1 ELSE taskRounds[m]
      BY <3>1
    <3>3. \A m : m \in Numbering!Tasks'
                  <=> m \in Numbering!Tasks \/ (m = n /\ n \in Numbering!Numbers)
      BY <3>2 DEF Numbering!Tasks
    <3>. QED
      BY <3>1, <3>3
  <2>. QED
    BY <2>1, <2>2
<1>4. AllTaken => AllTaken'
  BY <1>3 DEF AllTaken
<1>5. ASSUME NEW k \in Nat, InSequence(k) PROVE AllTaken' \/ InSequence(k + 1)'
  <2>1. /\ k < Power[Width] /\ Numbering!Tasks = 1..k /\ "task" \notin refused
        /\ n = k + 1 /\ k + 1 \in Numbering!Numbers /\ Power[Width] \in Nat
    BY <1>1, <1>5, PowerDef, DeskAssumption DEF InSequence, n
  <2>2. Numbering!Tasks' = 1..(k + 1) /\ refused' = refused
    BY <1>1, <1>3, <2>1
  <2>3. CASE k + 1 < Power[Width]
    BY <1>2, <2>1, <2>2, <2>3 DEF InSequence
  <2>4. CASE ~(k + 1 < Power[Width])
    BY <2>1, <2>2, <2>4 DEF AllTaken
  <2>. QED
    BY <2>3, <2>4
<1>6. AllTaken' \/ \E k \in Nat : InSequence(k)'
  <2>1. CASE AllTaken
    BY <1>4, <2>1
  <2>2. ASSUME NEW k \in Nat, InSequence(k) PROVE AllTaken' \/ \E j \in Nat : InSequence(j)'
    <3>1. k + 1 \in Nat
      OBVIOUS
    <3>. QED
      BY <1>5, <2>2, <3>1
  <2>. QED
    BY <2>1, <2>2 DEF NumbersInv
<1>. QED
  BY <1>2, <1>3, <1>6 DEF NumbersInv

LEMMA NumbersKept ==
  ASSUME NumbersInv, Numbering!Next
  PROVE  NumbersInv'
<1>1. NoReports /\ NoReports'
  BY NumbersStep DEF NumbersInv
<1>2. PICK t \in Threads :
        \/ Numbering!BeginTask(t) \/ Numbering!CommitTask(t) \/ Numbering!CommitRound(t)
        \/ Numbering!PutWord(t) \/ Numbering!PutPdf(t) \/ Numbering!Fail(t)
        \/ \E n \in Numbering!Numbers : Numbering!BeginRound(t, n)
  BY <1>1, NumbersActions
<1>3. CASE Numbering!BeginTask(t)
  BY <1>1, <1>3, BeginTaskNumbers
<1>4. CASE Numbering!CommitTask(t)
  BY <1>1, <1>4, CommitTaskNumbers
<1>5. CASE Numbering!CommitRound(t)
  BY <1>5 DEF Numbering!CommitRound, NumbersInv
<1>6. CASE Numbering!PutWord(t) \/ Numbering!PutPdf(t) \/ Numbering!Fail(t)
  <2>1. PICK x : /\ reportWork' = [reportWork EXCEPT ![t] = x]
                 /\ x = None \/ (x.op # "task" /\ x.op # "round")
                 /\ taskRounds' = taskRounds /\ refused' = refused
    BY <1>6 DEF Numbering!PutWord, Numbering!PutPdf, Numbering!Fail, Numbering!rows
  <2>. QED
    BY <1>1, <2>1, TasksStay
<1>7. ASSUME NEW n \in Numbering!Numbers, Numbering!BeginRound(t, n) PROVE NumbersInv'
  <2>1. taskRounds[n] \in Nat /\ taskRounds[n] > 0 /\ taskRounds[n] < 1
    BY <1>7 DEF Numbering!BeginRound, Numbering!Tasks, NumbersInv
  <2>. QED
    BY <2>1
<1>. QED
  BY <1>2, <1>3, <1>4, <1>5, <1>6, <1>7

NumberingInv == part = "numbers" => NumbersInv

LEMMA NumberingInvariant == DeskSpec => []NumberingInv
<1>1. DeskInit => NumberingInv
  BY NumbersInit DEF DeskInit, NumberingInv
<1>2. NumberingInv /\ [DeskNext]_deskVars => NumberingInv'
  <2>. SUFFICES ASSUME NumberingInv, [DeskNext]_deskVars PROVE NumberingInv'
    OBVIOUS
  <2>1. part' = part
    BY DEF DeskNext, deskVars
  <2>2. CASE UNCHANGED reportVars
    <3>1. UNCHANGED <<taskRounds, reports, reportWork, refused>>
      BY <2>2 DEF reportVars
    <3>2. \A k : InSequence(k) => InSequence(k)'
      BY <3>1 DEF InSequence, Numbering!Tasks, Numbering!Serves
    <3>3. NumbersInv => NumbersInv'
      BY <3>1, <3>2 DEF NumbersInv, NoReports, AllTaken, Numbering!Tasks, Numbering!Serves,
         Reporting!Serves
    <3>. QED
      BY <2>1, <3>3 DEF NumberingInv
  <2>3. CASE part = "numbers" /\ Numbering!Next
    BY <2>1, <2>3, NumbersKept DEF NumberingInv
  <2>4. CASE part = "reports"
    BY <2>1, <2>4 DEF NumberingInv
  <2>. QED
    BY <2>2, <2>3, <2>4 DEF DeskNext, deskVars
<1>. QED
  BY <1>1, <1>2, PTL DEF DeskSpec

\* No creation of a task is refused while a number of Width digits is free: as
\* long as one is, the order of the numbers as text is the order of the numbers,
\* so the advisory lock has every task numbered by the one after the last.
THEOREM NumberedUntilFullHolds == DeskSpec => []NumberedUntilFull
<1>1. NumberingInv => NumberedUntilFull
  <2>. SUFFICES ASSUME NumbersInv, "task" \in refused PROVE AllTaken
    BY DEF NumberingInv, NumberedUntilFull, Numbering!NumberedUntilFull, AllTaken, Power
  <2>. QED
    BY DEF NumbersInv, InSequence
<1>. QED
  BY <1>1, NumberingInvariant, PTL

-----------------------------------------------------------------------------
(* The types of the accounts, the uploads and the reports.                 *)

\* The bounds on passwords and sessions.
AccountBounds ==
  /\ \A u \in Users : password[u] \in 0..MaxPasswords
  /\ Len(sessions) <= MaxSessions
  /\ \A i \in DOMAIN sessions : sessions[i].opened \in 1..MaxPasswords
  /\ \A t \in Threads :
       /\ Account!Serves(t, "login") => accountWork[t].verified \in 1..MaxPasswords
       /\ Account!Serves(t, "change") => accountWork[t].verified \in 1..(MaxPasswords - 1)

\* Requests that end or begin as they should, while passwords and rows stay in bounds.
LEMMA RequestsInBounds ==
  ASSUME AccountsInv, AccountBounds, NEW t \in Threads, NEW x,
         accountWork' = [accountWork EXCEPT ![t] = x],
         \/ x = None
         \/ x.op = "admitted"
         \/ x.op = "login" /\ x.verified \in 1..MaxPasswords
         \/ x.op = "change" /\ x.verified \in 1..(MaxPasswords - 1),
         \A u \in Users : password'[u] \in 0..MaxPasswords,
         Len(sessions') <= MaxSessions,
         \A i \in DOMAIN sessions' : sessions'[i].opened \in 1..MaxPasswords
  PROVE  AccountBounds'
<1>1. \A u \in Threads : accountWork'[u] = IF u = t THEN x ELSE accountWork[u]
  BY DEF AccountsInv
<1>. QED
  BY <1>1 DEF AccountBounds, Account!Serves

\* What expires or is revoked is still opened with the password it was opened with.
LEMMA RowsInBounds ==
  ASSUME AccountsInv, AccountBounds,
         NEW i, NEW status, NEW expired,
         \/ sessions' = [sessions EXCEPT ![i].expired = expired]
         \/ sessions' = [sessions EXCEPT ![i] = [sessions[i] EXCEPT !.status = status]]
         \/ sessions' = sessions
  PROVE  /\ Len(sessions') <= MaxSessions
         /\ \A j \in DOMAIN sessions' : sessions'[j].opened \in 1..MaxPasswords
<1>1. /\ sessions \in Seq(SessionRow) /\ Len(sessions) <= MaxSessions
      /\ \A j \in DOMAIN sessions : sessions[j] \in SessionRow
  BY DEF AccountsInv, AccountBounds
<1>2. /\ DOMAIN sessions' = DOMAIN sessions
      /\ \A j \in DOMAIN sessions : sessions'[j].opened = sessions[j].opened
  BY <1>1 DEF SessionRow
<1>3. Len(sessions') = Len(sessions)
  BY <1>1
<1>. QED
  BY <1>1, <1>2, <1>3 DEF AccountBounds

LEMMA AccountsInBounds ==
  AccountsInv /\ AccountBounds /\ Account!Next => AccountBounds'
<1>. SUFFICES ASSUME AccountsInv, AccountBounds, Account!Next PROVE AccountBounds'
  OBVIOUS
<1>1. /\ password \in [Users -> Nat] /\ DOMAIN accountWork = Threads
      /\ sessions \in Seq(SessionRow)
      /\ \A u \in Users : password[u] \in 0..MaxPasswords
      /\ \A i \in DOMAIN sessions : sessions[i].opened \in 1..MaxPasswords
      /\ Len(sessions) <= MaxSessions
  BY DEF AccountsInv, AccountBounds
<1>2. ASSUME NEW u \in Users, Account!CreateUser(u) PROVE AccountBounds'
  <2>1. \A w \in Users : password'[w] \in 0..MaxPasswords
    BY <1>1, <1>2, DeskAssumption DEF Account!CreateUser
  <2>. QED
    BY <1>2, <2>1 DEF AccountBounds, Account!CreateUser, Account!Serves
<1>3. ASSUME NEW i \in DOMAIN sessions, Account!Expire(i) PROVE AccountBounds'
  <2>1. /\ Len(sessions') <= MaxSessions
        /\ \A j \in DOMAIN sessions' : sessions'[j].opened \in 1..MaxPasswords
    BY <1>3, RowsInBounds DEF Account!Expire
  <2>. QED
    BY <1>3, <2>1 DEF AccountBounds, Account!Expire, Account!Serves
<1>4. ASSUME NEW t \in Threads, NEW u \in Users, Account!Authenticate(t, u) PROVE AccountBounds'
  <2>. DEFINE x == [op |-> "login", user |-> u, verified |-> password[u]]
  <2>1. /\ accountWork' = [accountWork EXCEPT ![t] = x]
        /\ x.op = "login" /\ x.verified \in 1..MaxPasswords
        /\ password' = password /\ sessions' = sessions
    BY <1>1, <1>4 DEF Account!Authenticate, Account!Take
  <2>. HIDE DEF x
  <2>. QED
    BY <1>1, <2>1, RequestsInBounds
<1>5. ASSUME NEW t \in Threads, NEW i \in DOMAIN sessions, Account!Admit(t, i) PROVE AccountBounds'
  <2>. DEFINE x == [op |-> "admitted", session |-> i, user |-> sessions[i].user]
  <2>1. /\ accountWork' = [accountWork EXCEPT ![t] = x]
        /\ x.op = "admitted"
        /\ password' = password /\ sessions' = sessions
    BY <1>5 DEF Account!Admit, Account!Take
  <2>. HIDE DEF x
  <2>. QED
    BY <1>1, <2>1, RequestsInBounds
<1>6. ASSUME NEW t \in Threads, Account!OpenSession(t) PROVE AccountBounds'
  <2>. PICK row : /\ row.opened = accountWork[t].verified
                  /\ sessions' = Append(sessions, row)
    BY <1>6 DEF Account!OpenSession
  <2>1. /\ Account!Serves(t, "login") /\ Len(sessions) < MaxSessions
        /\ accountWork' = [accountWork EXCEPT ![t] = None] /\ password' = password
    BY <1>6 DEF Account!OpenSession, Account!Done
  <2>2. row.opened \in 1..MaxPasswords
    BY <2>1 DEF AccountBounds
  <2>3. /\ Len(sessions') <= MaxSessions
        /\ \A j \in DOMAIN sessions' : sessions'[j].opened \in 1..MaxPasswords
    BY <1>1, <2>1, <2>2, DeskAssumption
  <2>. QED
    BY <1>1, <2>1, <2>3, RequestsInBounds
<1>7. ASSUME NEW t \in Threads, Account!Logout(t) PROVE AccountBounds'
  <2>1. /\ Len(sessions') <= MaxSessions
        /\ \A j \in DOMAIN sessions' : sessions'[j].opened \in 1..MaxPasswords
    BY <1>7, RowsInBounds DEF Account!Logout, Account!Revoked
  <2>. QED
    BY <1>1, <1>7, <2>1, RequestsInBounds DEF Account!Logout, Account!Done
<1>8. ASSUME NEW t \in Threads, NEW u \in Users, Account!LockUser(t, u) PROVE AccountBounds'
  <2>. DEFINE x == [op |-> "change", user |-> u, verified |-> password[u],
                    active |-> Account!ActiveSessions(u)]
  <2>1. /\ accountWork' = [accountWork EXCEPT ![t] = x]
        /\ x.op = "change" /\ x.verified \in 1..(MaxPasswords - 1)
        /\ password' = password /\ sessions' = sessions
    BY <1>8 DEF Account!LockUser
  <2>. HIDE DEF x
  <2>. QED
    BY <1>1, <2>1, RequestsInBounds
<1>9. ASSUME NEW t \in Threads, Account!BeginChange(t) PROVE AccountBounds'
  <2>1. accountWork[t].user \in Users
    BY <1>9 DEF Account!BeginChange, AccountsInv, AccountRequest
  <2>. QED
    BY <1>8, <1>9, <2>1 DEF Account!BeginChange
<1>10. ASSUME NEW t \in Threads, Account!CommitChange(t) PROVE AccountBounds'
  <2>. PICK u : u = accountWork[t].user
    OBVIOUS
  <2>1. /\ u \in Users /\ password[u] \in 1..(MaxPasswords - 1)
        /\ password' = [password EXCEPT ![u] = @ + 1]
        /\ accountWork' = [accountWork EXCEPT ![t] = None]
    BY <1>10 DEF Account!CommitChange, Account!Done, AccountsInv, ChangeRequest, AccountBounds
  <2>2. \A w \in Users : password'[w] \in 0..MaxPasswords
    BY <1>1, <2>1, DeskAssumption
  <2>3. /\ DOMAIN sessions' = DOMAIN sessions
        /\ \A j \in DOMAIN sessions : sessions'[j].opened = sessions[j].opened
    <3>1. /\ sessions' = [i \in DOMAIN sessions |->
                           IF i \in accountWork[t].active THEN Account!Revoked(i) ELSE sessions[i]]
          /\ \A i \in DOMAIN sessions : sessions[i] \in SessionRow
      BY <1>1, <1>10 DEF Account!CommitChange, Account!Rows
    <3>. QED
      BY <3>1 DEF Account!Revoked, SessionRow
  <2>4. Len(sessions') = Len(sessions)
    BY <1>1, <2>3, AccountsStep DEF AccountsInv
  <2>. QED
    BY <1>1, <2>1, <2>2, <2>3, <2>4, RequestsInBounds
<1>11. ASSUME NEW t \in Threads, Account!GiveUp(t) PROVE AccountBounds'
  BY <1>1, <1>11, RequestsInBounds DEF Account!GiveUp, Account!Done
<1>. QED
  BY <1>2, <1>3, <1>4, <1>5, <1>6, <1>7, <1>8, <1>9, <1>10, <1>11
     DEF Account!Next, Account!Rows, Account!BeginReset

\* The sessions of the invariant are those of the type.
LEMMA AccountTypes ==
  AccountsInv /\ AccountBounds => Account!TypeOK
<1>. SUFFICES ASSUME AccountsInv, AccountBounds PROVE Account!TypeOK
  OBVIOUS
<1>1. \A i \in DOMAIN sessions : sessions[i] \in Account!Session
  <2>. SUFFICES ASSUME NEW i \in DOMAIN sessions PROVE sessions[i] \in Account!Session
    OBVIOUS
  <2>1. sessions[i] \in SessionRow /\ sessions[i].opened \in 1..MaxPasswords
    BY DEF AccountsInv, AccountBounds
  <2>. QED
    BY <2>1 DEF SessionRow, Account!Session
<1>2. sessions \in Seq(Account!Session)
  BY <1>1 DEF AccountsInv
<1>. QED
  BY <1>2 DEF AccountsInv, AccountBounds, Account!TypeOK

\* Passwords and sessions keep their types.
LEMMA AccountTypesHold == DeskSpec => []Account!TypeOK
<1>1. DeskInit => AccountBounds
  BY DeskAssumption DEF DeskInit, Account!Init, AccountBounds, Account!Serves
<1>2. AccountsInv /\ AccountBounds /\ [DeskNext]_deskVars => AccountBounds'
  <2>1. UNCHANGED accountVars => (AccountBounds => AccountBounds')
    BY DEF accountVars, AccountBounds, Account!Serves
  <2>. QED
    BY <2>1, AccountsInBounds DEF DeskNext, deskVars
<1>. QED
  BY <1>1, <1>2, AccountsInvariant, AccountTypes, PTL DEF DeskSpec

\* An object is a content or nothing.
UploadContents ==
  /\ objects \in [Upload!Keys -> Contents \cup {None}]
  /\ uploadFaults \in 0..MaxFaults

LEMMA ObjectsAreContents ==
  UploadsInv /\ UploadContents /\ Upload!Next => UploadContents'
<1>. SUFFICES ASSUME UploadsInv, UploadContents, Upload!Next PROVE UploadContents'
  OBVIOUS
<1>1. ASSUME NEW content \in Contents, Upload!Put(content), uploadFaults' = uploadFaults
      PROVE  UploadContents'
  BY <1>1 DEF UploadContents, Upload!Put
<1>2. ASSUME objects' = objects, uploadFaults' = uploadFaults PROVE UploadContents'
  BY <1>2 DEF UploadContents
<1>3. ASSUME NEW t \in Threads, Upload!PutObject(t) PROVE UploadContents'
  <2>1. Head(uploadWork[t].todo) \in Contents
    BY <1>3 DEF Upload!PutObject, UploadsInv, UploadRequest
  <2>. QED
    BY <1>1, <1>3, <2>1 DEF Upload!PutObject
<1>4. ASSUME NEW t \in Threads, NEW k \in Upload!Keys, Upload!RemoveObject(t, k)
      PROVE  UploadContents'
  BY <1>4 DEF UploadContents, Upload!RemoveObject
<1>5. ASSUME NEW t \in Threads, NEW i \in Upload!Rows, NEW content \in Contents,
             Upload!BeginReplace(t, i, content)
      PROVE  UploadContents'
  BY <1>1, <1>5 DEF Upload!BeginReplace
<1>6. ASSUME NEW t \in Threads, Upload!Crash(t) PROVE UploadContents'
  BY <1>6, DeskAssumption DEF UploadContents, Upload!Crash
<1>7. ASSUME NEW t \in Threads,
             \/ \E contents \in Upload!Uploaded : Upload!BeginUpload(t, contents)
             \/ Upload!RefuseContent(t) \/ Upload!BeginAdd(t) \/ Upload!CommitAdd(t)
             \/ Upload!Respond(t) \/ Upload!ReadReplaced(t) \/ Upload!CommitReplace(t)
             \/ \E i \in Upload!Rows : Upload!BeginDelete(t, i)
             \/ Upload!CommitDelete(t)
      PROVE  UploadContents'
  BY <1>2, <1>7 DEF Upload!BeginUpload, Upload!RefuseContent, Upload!BeginAdd, Upload!CommitAdd,
     Upload!Respond, Upload!ReadReplaced, Upload!CommitReplace, Upload!BeginDelete,
     Upload!CommitDelete
<1>8. ASSUME NEW i \in Upload!Rows, Upload!Parse(i) PROVE UploadContents'
  BY <1>2, <1>8 DEF Upload!Parse
<1>. QED
  BY <1>3, <1>4, <1>5, <1>6, <1>7, <1>8 DEF Upload!Next

LEMMA UploadTypes == DeskSpec => []Upload!TypeOK
<1>1. DeskInit => UploadContents
  BY DeskAssumption DEF DeskInit, Upload!Init, Upload!Nothing, UploadContents
<1>2. UploadsInv /\ UploadContents /\ [DeskNext]_deskVars => UploadContents'
  <2>1. UNCHANGED uploadVars => (UploadContents => UploadContents')
    BY DEF uploadVars, UploadContents
  <2>. QED
    BY <2>1, ObjectsAreContents DEF DeskNext, deskVars
<1>3. UploadsInv /\ UploadContents => Upload!TypeOK
  BY DEF UploadsInv, RowsStored, UploadContents, Upload!TypeOK
<1>. QED
  BY <1>1, <1>2, <1>3, UploadsInvariant, PTL DEF DeskSpec

\* The rounds of the tasks, the refusals and the files of reports on rounds.
ReportBounds ==
  /\ taskRounds \in [Reporting!Numbers -> 0..MaxTaskRounds]
  /\ reportFiles \in [Reporting!Files -> 0..MaxTaskRounds]
  /\ refused \subseteq {"task", "round", "report"}
  /\ reportFaults \in 0..MaxFaults
  /\ \A t \in Threads :
       Reporting!Serves(t, "round") => reportWork[t].round \in 1..MaxTaskRounds

LEMMA ReportsInBounds ==
  ReportsInv /\ ReportBounds /\ Reporting!Next => ReportBounds'
<1>. SUFFICES ASSUME ReportsInv, ReportBounds, Reporting!Next PROVE ReportBounds'
  OBVIOUS
<1>1. PICK t \in Threads :
        \/ Reporting!BeginTask(t) \/ Reporting!CommitTask(t) \/ Reporting!CommitRound(t)
        \/ Reporting!CommitReport(t) \/ Reporting!CommitPublish(t) \/ Reporting!PutWord(t)
        \/ Reporting!PutPdf(t) \/ Reporting!Fail(t)
        \/ \E p \in reports : Reporting!BeginPublish(t, p)
        \/ \E n \in Reporting!Numbers :
             \/ Reporting!BeginRound(t, n)
             \/ \E r \in 1..MaxTaskRounds : Reporting!BeginReport(t, n, r)
  BY DEF Reporting!Next
<1>2. ASSUME NEW x, reportWork' = [reportWork EXCEPT ![t] = x],
             x = None \/ x.op # "round" \/ x.round \in 1..MaxTaskRounds
      PROVE  \A u \in Threads :
               Reporting!Serves(u, "round")' => (reportWork[u].round)' \in 1..MaxTaskRounds
  BY <1>2 DEF ReportsInv, ReportBounds, Reporting!Serves
<1>3. ASSUME NEW x, Reporting!Begin(t, x), x.op # "round" \/ x.round \in 1..MaxTaskRounds
      PROVE  ReportBounds'
  BY <1>2, <1>3 DEF Reporting!Begin, Reporting!rows, ReportBounds
<1>4. CASE \E n \in Reporting!Numbers : Reporting!BeginRound(t, n)
  <2>. PICK n \in Reporting!Numbers : Reporting!BeginRound(t, n)
    BY <1>4
  <2>. DEFINE x == [op |-> "round", task |-> n, round |-> taskRounds[n] + 1]
  <2>1. Reporting!Begin(t, x) /\ x.round = taskRounds[n] + 1 /\ taskRounds[n] < MaxTaskRounds
    BY DEF Reporting!BeginRound
  <2>2. x.round \in 1..MaxTaskRounds
    BY <2>1, DeskAssumption DEF ReportBounds
  <2>. HIDE DEF x
  <2>. QED
    BY <1>3, <2>1, <2>2
<1>5. CASE Reporting!BeginTask(t)
  BY <1>3, <1>5 DEF Reporting!BeginTask
<1>6. CASE \E n \in Reporting!Numbers, r \in 1..MaxTaskRounds : Reporting!BeginReport(t, n, r)
  BY <1>3, <1>6 DEF Reporting!BeginReport
<1>7. CASE \E p \in reports : Reporting!BeginPublish(t, p)
  BY <1>3, <1>7 DEF Reporting!BeginPublish
<1>8. ASSUME reportWork' = [reportWork EXCEPT ![t] = None],
             taskRounds' \in [Reporting!Numbers -> 0..MaxTaskRounds],
             reportFiles' \in [Reporting!Files -> 0..MaxTaskRounds],
             refused' \subseteq {"task", "round", "report"},
             reportFaults' \in 0..MaxFaults
      PROVE  ReportBounds'
  BY <1>2, <1>8 DEF ReportBounds
<1>9. CASE Reporting!CommitTask(t)
  <2>. PICK n : n = reportWork[t].number
    OBVIOUS
  <2>0. 1 \in 0..MaxTaskRounds
    BY DeskAssumption
  <2>1. taskRounds' \in [Reporting!Numbers -> 0..MaxTaskRounds]
    <3>1. taskRounds' = taskRounds \/ taskRounds' = [taskRounds EXCEPT ![n] = 1]
      BY <1>9 DEF Reporting!CommitTask
    <3>. QED
      BY <2>0, <3>1 DEF ReportBounds
  <2>. QED
    BY <1>8, <1>9, <2>1 DEF Reporting!CommitTask, Reporting!Insert, Reporting!Serves, ReportBounds
<1>10. CASE Reporting!CommitRound(t)
  <2>. PICK n, r : n = reportWork[t].task /\ r = reportWork[t].round
    OBVIOUS
  <2>0. r \in 0..MaxTaskRounds
    BY <1>10 DEF Reporting!CommitRound, ReportBounds
  <2>1. taskRounds' \in [Reporting!Numbers -> 0..MaxTaskRounds]
    <3>1. taskRounds' = taskRounds \/ taskRounds' = [taskRounds EXCEPT ![n] = r]
      BY <1>10 DEF Reporting!CommitRound
    <3>. QED
      BY <2>0, <3>1 DEF ReportBounds
  <2>. QED
    BY <1>8, <1>10, <2>1 DEF Reporting!CommitRound, Reporting!Insert, Reporting!Serves, ReportBounds
<1>11. CASE Reporting!CommitReport(t)
  BY <1>8, <1>11 DEF Reporting!CommitReport, Reporting!Insert, Reporting!Serves, ReportBounds
<1>12. CASE Reporting!CommitPublish(t)
  BY <1>2, <1>12 DEF Reporting!CommitPublish, ReportBounds
<1>13. ASSUME NEW p \in Reporting!Report, NEW kind \in {"word", "pdf"},
              reportFiles' = [reportFiles EXCEPT ![Reporting!File(p, kind)] = p.round]
       PROVE  reportFiles' \in [Reporting!Files -> 0..MaxTaskRounds]
  <2>1. p.round \in 0..MaxTaskRounds
    BY DEF Reporting!Report
  <2>. QED
    BY <1>13, <2>1 DEF ReportBounds
<1>14. CASE Reporting!PutWord(t)
  <2>. PICK p : p = reportWork[t].report
    OBVIOUS
  <2>1. /\ p \in Reporting!Report
        /\ reportFiles' = [reportFiles EXCEPT ![Reporting!File(p, "word")] = p.round]
        /\ reportWork' = [reportWork EXCEPT ![t] = [op |-> "pdf", report |-> p]]
        /\ taskRounds' = taskRounds /\ refused' = refused /\ reportFaults' = reportFaults
    BY <1>14 DEF Reporting!PutWord, Reporting!rows, ReportsInv, ReportRequest
  <2>2. reportFiles' \in [Reporting!Files -> 0..MaxTaskRounds]
    BY <1>13, <2>1
  <2>. QED
    BY <1>2, <2>1, <2>2 DEF ReportBounds
<1>15. CASE Reporting!PutPdf(t)
  <2>. PICK p : p = reportWork[t].report
    OBVIOUS
  <2>1. /\ p \in Reporting!Report
        /\ reportFiles' = [reportFiles EXCEPT ![Reporting!File(p, "pdf")] = p.round]
        /\ reportWork' = [reportWork EXCEPT ![t] = None]
        /\ taskRounds' = taskRounds /\ refused' = refused /\ reportFaults' = reportFaults
    BY <1>15 DEF Reporting!PutPdf, Reporting!rows, ReportsInv, ReportRequest
  <2>2. reportFiles' \in [Reporting!Files -> 0..MaxTaskRounds]
    BY <1>13, <2>1
  <2>. QED
    BY <1>8, <2>1, <2>2 DEF ReportBounds
<1>16. CASE Reporting!Fail(t)
  <2>1. reportFaults' \in 0..MaxFaults
    BY <1>16, DeskAssumption DEF Reporting!Fail, ReportBounds
  <2>. QED
    BY <1>8, <1>16, <2>1 DEF Reporting!Fail, Reporting!rows, ReportBounds
<1>. QED
  BY <1>1, <1>4, <1>5, <1>6, <1>7, <1>9, <1>10, <1>11, <1>12, <1>14, <1>15, <1>16

\* Where tasks are numbered there are no reports, and no round but the first.
NumberBounds ==
  /\ taskRounds \in [Numbering!Numbers -> 0..1]
  /\ refused \subseteq {"task", "round", "report"}
  /\ reportFiles \in [Numbering!Files -> 0..1]
  /\ reportFaults \in 0..MaxFaults
  /\ \A t \in Threads : ~Numbering!Serves(t, "word") /\ ~Numbering!Serves(t, "pdf")

LEMMA NumbersInBounds ==
  NumbersInv /\ NumberBounds /\ Numbering!Next => NumberBounds'
<1>. SUFFICES ASSUME NumbersInv, NumberBounds, Numbering!Next PROVE NumberBounds'
  OBVIOUS
<1>1. PICK t \in Threads :
        \/ Numbering!BeginTask(t) \/ Numbering!CommitTask(t) \/ Numbering!CommitRound(t)
        \/ Numbering!PutWord(t) \/ Numbering!PutPdf(t) \/ Numbering!Fail(t)
        \/ \E n \in Numbering!Numbers : Numbering!BeginRound(t, n)
  BY NumbersActions DEF NumbersInv
<1>2. ASSUME NEW x, reportWork' = [reportWork EXCEPT ![t] = x],
             x = None \/ x.op \notin {"word", "pdf"}
      PROVE  \A u \in Threads : ~Numbering!Serves(u, "word")' /\ ~Numbering!Serves(u, "pdf")'
  BY <1>2 DEF NumbersInv, NoReports, NumberBounds, Numbering!Serves
<1>3. ASSUME NEW x, Numbering!Begin(t, x), x.op \notin {"word", "pdf"} PROVE NumberBounds'
  <2>1. /\ reportWork' = [reportWork EXCEPT ![t] = x] /\ taskRounds' = taskRounds
        /\ refused' = refused /\ reportFiles' = reportFiles /\ reportFaults' = reportFaults
    BY <1>3 DEF Numbering!Begin, Numbering!rows
  <2>. QED
    BY <1>2, <1>3, <2>1 DEF NumberBounds
<1>8. CASE Numbering!BeginTask(t)
  BY <1>3, <1>8 DEF Numbering!BeginTask
<1>9. CASE \E n \in Numbering!Numbers : Numbering!BeginRound(t, n)
  BY <1>3, <1>9 DEF Numbering!BeginRound
<1>4. CASE Numbering!CommitTask(t)
  <2>. PICK n : n = reportWork[t].number
    OBVIOUS
  <2>1. taskRounds' = taskRounds \/ taskRounds' = [taskRounds EXCEPT ![n] = 1]
    BY <1>4 DEF Numbering!CommitTask
  <2>2. taskRounds' \in [Numbering!Numbers -> 0..1]
    BY <2>1 DEF NumberBounds
  <2>3. /\ reportWork' = [reportWork EXCEPT ![t] = None]
        /\ reportFiles' = reportFiles /\ reportFaults' = reportFaults
        /\ refused' \subseteq {"task", "round", "report"}
    BY <1>4 DEF Numbering!CommitTask, Numbering!Insert, Numbering!Serves, NumberBounds
  <2>4. \A u \in Threads : ~Numbering!Serves(u, "word")' /\ ~Numbering!Serves(u, "pdf")'
    BY <1>2, <2>3
  <2>. QED
    BY <2>2, <2>3, <2>4 DEF NumberBounds
<1>5. CASE Numbering!CommitRound(t)
  BY <1>5 DEF Numbering!CommitRound, NumbersInv
<1>6. CASE Numbering!PutWord(t) \/ Numbering!PutPdf(t)
  BY <1>6 DEF Numbering!PutWord, Numbering!PutPdf, NumberBounds
<1>7. CASE Numbering!Fail(t)
  <2>1. /\ reportWork' = [reportWork EXCEPT ![t] = None] /\ taskRounds' = taskRounds
        /\ refused' = refused /\ reportFiles' = reportFiles
        /\ reportFaults' = reportFaults + 1 /\ reportFaults < MaxFaults
    BY <1>7 DEF Numbering!Fail, Numbering!rows
  <2>2. reportFaults' \in 0..MaxFaults
    BY <2>1, DeskAssumption DEF NumberBounds
  <2>3. \A u \in Threads : ~Numbering!Serves(u, "word")' /\ ~Numbering!Serves(u, "pdf")'
    BY <1>2, <2>1
  <2>. QED
    BY <2>1, <2>2, <2>3 DEF NumberBounds
<1>. QED
  BY <1>1, <1>4, <1>5, <1>6, <1>7, <1>8, <1>9

LEMMA ReportTypes ==
  DeskSpec => [](IF part = "numbers" THEN Numbering!TypeOK ELSE Reporting!TypeOK)
<1>. DEFINE Bounds == IF part = "numbers" THEN NumberBounds ELSE ReportBounds
<1>1. DeskInit => Bounds
  BY DeskAssumption DEF DeskInit, Numbering!Init, Reporting!Init, NumberBounds, ReportBounds,
     Numbering!Serves, Reporting!Serves
<1>2. ReportingInv /\ NumberingInv /\ Bounds /\ [DeskNext]_deskVars => Bounds'
  <2>. SUFFICES ASSUME ReportingInv, NumberingInv, Bounds, [DeskNext]_deskVars PROVE Bounds'
    OBVIOUS
  <2>1. part' = part
    BY DEF DeskNext, deskVars
  <2>2. CASE UNCHANGED reportVars
    BY <2>1, <2>2 DEF reportVars, NumberBounds, ReportBounds, Numbering!Serves, Reporting!Serves
  <2>3. CASE part = "numbers" /\ Numbering!Next
    BY <2>1, <2>3, NumbersInBounds DEF NumberingInv
  <2>4. CASE part = "reports" /\ Reporting!Next
    BY <2>1, <2>4, ReportsInBounds DEF ReportingInv
  <2>. QED
    BY <2>2, <2>3, <2>4 DEF DeskNext, deskVars
<1>3. ReportingInv /\ NumberingInv /\ Bounds =>
        IF part = "numbers" THEN Numbering!TypeOK ELSE Reporting!TypeOK
  BY DEF ReportingInv, NumberingInv, NumbersInv, NoReports, ReportsInv, NumberBounds, ReportBounds,
     Numbering!TypeOK, Reporting!TypeOK
<1>. HIDE DEF Bounds
<1>. QED
  BY <1>1, <1>2, <1>3, ReportingInvariant, NumberingInvariant, PTL DEF DeskSpec

-----------------------------------------------------------------------------
(* The catalog's types on either isolation.                                *)

\* A version that was created stays, and an item keeps its clause.
VersionsStay == \A v \in Versions : version[v] # "absent" => version'[v] # "absent"

ItemsStay == \A r, c : ItemsFor(r, c) # {} => ItemsFor(r, c)' # {}

\* A selection names a revision that there is.
Chosen(x) == x \in Selection /\ x.revision \in DOMAIN revisions[x.version]

\* What a transaction knows for good: others may have written since it read, but
\* versions, revisions, their clauses and items are never removed.
RequestOK(x) ==
  /\ x.op = "revise" =>
       /\ x.version \in Versions /\ version[x.version] # "absent"
       /\ x.number <= MaxRevisions /\ x.clauses \subseteq Codes
  /\ x.op \in {"publish", "abolish"} => x.version \in Versions /\ version[x.version] # "absent"
  /\ x.op = "select" => SelectRead(x)
  /\ x.op \in {"confirm", "cover"} =>
       /\ Chosen(x.selection)
       /\ x.missing \subseteq ClausesOf(x.selection)
       /\ \A c \in ClausesOf(x.selection) \ x.missing : ItemsFor(x.selection.round, c) # {}
  /\ x.op = "cover" => x.uncovered \subseteq ClausesOf(x.selection)
  /\ x.op = "decide" => x.decision \in Decisions
  /\ x.op = "audit" => x.asks \subseteq Names

TypedCatalog ==
  /\ DOMAIN open = Threads
  /\ Rows
  /\ RoundTypes
  /\ Pinned
  /\ \A x \in {open[t] : t \in Threads} \ {None} : RequestOK(x)

\* A clause of a selection is one of the clauses there are.
LEMMA ChosenClauses ==
  ASSUME Rows, NEW x, Chosen(x) PROVE ClausesOf(x) \subseteq Clauses
<1>1. x.version \in Versions /\ x.revision \in Numbers /\ x.revision \in DOMAIN revisions[x.version]
  BY DEF Chosen, Selection
<1>2. revisions[x.version][x.revision] \in Revision
  BY <1>1 DEF Rows
<1>. QED
  BY <1>1, <1>2 DEF ClausesOf, Clauses, Revision

\* What a transaction knows stays so.
LEMMA RequestStays ==
  ASSUME NEW x, RequestOK(x), ClausesKept, VersionsStay, ItemsStay PROVE RequestOK(x)'
<1>1. \A y : Chosen(y) => Chosen(y)' /\ ClausesOf(y)' = ClausesOf(y)
  BY DEF ClausesKept, Chosen, Selection, ClausesOf
<1>2. SelectRead(x) => SelectRead(x)'
  BY DEF SelectRead, ClausesKept
<1>. QED
  BY <1>1, <1>2 DEF RequestOK, VersionsStay, ItemsStay

\* The transactions but that of t go on as they were.
LEMMA OneMoves ==
  ASSUME TypedCatalog, ClausesKept, VersionsStay, ItemsStay, NEW t \in Threads, NEW x,
         open' = [open EXCEPT ![t] = x], x = None \/ RequestOK(x)',
         Rows', RoundTypes', Pinned'
  PROVE  TypedCatalog'
<1>1. DOMAIN open' = Threads /\ \A u \in Threads : open'[u] = IF u = t THEN x ELSE open[u]
  BY DEF TypedCatalog
<1>2. \A y \in {open'[u] : u \in Threads} \ {None} :
        y = x \/ y \in {open[u] : u \in Threads} \ {None}
  BY <1>1
<1>3. \A y \in {open'[u] : u \in Threads} \ {None} : RequestOK(y)'
  BY <1>2, RequestStays DEF TypedCatalog
<1>. QED
  BY <1>1, <1>3 DEF TypedCatalog

\* A step that leaves the rows alone.
LEMMA RowsAlone ==
  ASSUME TypedCatalog, UNCHANGED <<catalog, roundRows>>
  PROVE  /\ ClausesKept /\ VersionsStay /\ ItemsStay
         /\ Rows' /\ RoundTypes' /\ Pinned'
         /\ \A x : RequestOK(x) => RequestOK(x)'
<1>1. /\ standard' = standard /\ version' = version /\ revisions' = revisions
      /\ selections' = selections /\ items' = items /\ coverage' = coverage
      /\ asked' = asked
  BY DEF catalog, roundRows
<1>2. ClausesKept /\ VersionsStay /\ ItemsStay
  BY <1>1 DEF ClausesKept, VersionsStay, ItemsStay, ItemsFor
<1>3. Rows' /\ RoundTypes' /\ Pinned'
  BY <1>1 DEF TypedCatalog, Rows, RoundTypes, Pinned
<1>. QED
  BY <1>2, <1>3, RequestStays

\* A transaction begins, goes on or is rolled back.
LEMMA OnlyOpens ==
  ASSUME TypedCatalog, UNCHANGED <<catalog, roundRows>>, NEW t \in Threads, NEW x,
         open' = [open EXCEPT ![t] = x], x = None \/ RequestOK(x)
  PROVE  TypedCatalog'
<1>1. /\ ClausesKept /\ VersionsStay /\ ItemsStay /\ Rows' /\ RoundTypes' /\ Pinned'
      /\ x = None \/ RequestOK(x)'
  BY RowsAlone
<1>. QED
  BY <1>1, OneMoves

\* Steps of the catalog leave the rounds alone.
LEMMA CatalogMoves ==
  ASSUME TypedCatalog, UNCHANGED roundRows, ClausesKept, VersionsStay, Rows',
         open' = open \/ \E t \in Threads : open' = [open EXCEPT ![t] = None]
  PROVE  TypedCatalog'
<1>1. selections' = selections /\ items' = items /\ coverage' = coverage /\ asked' = asked
  BY DEF roundRows
<1>2. ItemsStay /\ RoundTypes'
  BY <1>1 DEF ItemsStay, ItemsFor, TypedCatalog, RoundTypes
<1>3. Pinned'
  BY <1>1 DEF TypedCatalog, RoundTypes, Pinned, Selection, ClausesKept
<1>4. ASSUME NEW t \in Threads, open' = [open EXCEPT ![t] = None] PROVE TypedCatalog'
  BY <1>2, <1>3, <1>4, OneMoves
<1>5. CASE open' = open
  <2>1. \A x \in {open[u] : u \in Threads} \ {None} : RequestOK(x)'
    BY <1>2, RequestStays DEF TypedCatalog
  <2>. QED
    BY <1>2, <1>3, <1>5, <2>1 DEF TypedCatalog
<1>. QED
  BY <1>4, <1>5

\* A step that writes rows of the rounds and ends its transaction.
LEMMA RoundMoves ==
  ASSUME TypedCatalog, UNCHANGED catalog, ItemsStay, RoundTypes', Pinned', NEW t \in Threads,
         open' = [open EXCEPT ![t] = None]
  PROVE  TypedCatalog'
<1>1. standard' = standard /\ version' = version /\ revisions' = revisions
  BY DEF catalog
<1>2. ClausesKept /\ VersionsStay /\ Rows'
  BY <1>1 DEF TypedCatalog, Rows, ClausesKept, VersionsStay
<1>. QED
  BY <1>2, OneMoves

LEMMA StartTyped ==
  ASSUME TypedCatalog, NEW t \in Threads, NEW x, Start(t, x), RequestOK(x)
  PROVE  TypedCatalog'
  BY OnlyOpens DEF Start

\* What the transactions begin with.
LEMMA CatalogBeginsTyped ==
  ASSUME TypedCatalog, NEW t \in Threads, NEW v \in Versions,
         \/ CopyRevision(t, v) \/ BeginPublishVersion(t, v) \/ BeginAbolish(t, v)
         \/ \E C \in SUBSET Codes : BeginRevision(t, v, C)
         \/ \E n \in Numbers : BeginPublish(t, v, n)
         \/ \E r \in Rounds : BeginSelect(t, r, v)
  PROVE  TypedCatalog'
<1>1. ASSUME NEW C \in SUBSET Codes, BeginRevision(t, v, C) PROVE TypedCatalog'
  <2>. DEFINE x == [op |-> "revise", version |-> v, number |-> Latest(v) + 1, clauses |-> C]
  <2>1. Latest(v) + 1 <= MaxRevisions
    BY <1>1, StandardAssumption DEF BeginRevision, TypedCatalog, Rows, Latest
  <2>2. RequestOK(x)
    BY <1>1, <2>1 DEF BeginRevision, RequestOK
  <2>3. Start(t, x)
    BY <1>1 DEF BeginRevision
  <2>. HIDE DEF x
  <2>. QED
    BY <2>2, <2>3, StartTyped
<1>2. CASE CopyRevision(t, v)
  <2>1. /\ revisions[v] \in Seq(Revision) /\ revisions[v] # <<>>
        /\ BeginRevision(t, v, revisions[v][Latest(v)].clauses)
    BY <1>2 DEF CopyRevision, TypedCatalog, Rows
  <2>2. revisions[v][Latest(v)] \in Revision
    BY <2>1 DEF Latest
  <2>3. revisions[v][Latest(v)].clauses \in SUBSET Codes
    BY <2>2 DEF Revision
  <2>. QED
    BY <1>1, <2>1, <2>3
<1>3. ASSUME NEW n, BeginPublish(t, v, n) PROVE TypedCatalog'
  <2>. DEFINE x == [op |-> "publish", version |-> v, number |-> n,
                    previous |-> Previous(v, n), was |-> revisions[v][n].status,
                    wasVersion |-> version[v], wasStandard |-> standard[StandardOf[v]]]
  <2>1. n \in DOMAIN revisions[v] /\ Start(t, x) /\ revisions[v] \in Seq(Revision)
    BY <1>3 DEF BeginPublish, TypedCatalog, Rows
  <2>2. version[v] # "absent"
    <3>1. revisions[v] # <<>>
      BY <2>1
    <3>. QED
      BY <3>1 DEF TypedCatalog, Rows
  <2>3. RequestOK(x)
    BY <2>2 DEF RequestOK
  <2>. HIDE DEF x
  <2>. QED
    BY <2>1, <2>3, StartTyped
<1>4. CASE BeginPublishVersion(t, v)
  BY <1>3, <1>4 DEF BeginPublishVersion
<1>5. CASE BeginAbolish(t, v)
  <2>. DEFINE x == [op |-> "abolish", version |-> v, another |-> AnotherActive(v),
                    wasVersion |-> version[v], wasStandard |-> standard[StandardOf[v]]]
  <2>1. Start(t, x) /\ version[v] # "absent"
    BY <1>5 DEF BeginAbolish
  <2>2. RequestOK(x)
    BY <2>1 DEF RequestOK
  <2>. HIDE DEF x
  <2>. QED
    BY <2>1, <2>2, StartTyped
<1>6. ASSUME NEW r \in Rounds, BeginSelect(t, r, v) PROVE TypedCatalog'
  <2>. PICK n \in Published(v) :
              Start(t, [op |-> "select", round |-> r, version |-> v, revision |-> n])
    BY <1>6 DEF BeginSelect
  <2>. DEFINE x == [op |-> "select", round |-> r, version |-> v, revision |-> n]
  <2>1. RequestOK(x)
    BY DEF RequestOK, SelectRead, Published
  <2>2. Start(t, x)
    OBVIOUS
  <2>. HIDE DEF x
  <2>. QED
    BY <2>1, <2>2, StartTyped
<1>. QED
  BY <1>1, <1>2, <1>3, <1>4, <1>5, <1>6

LEMMA RoundBeginsTyped ==
  ASSUME TypedCatalog, NEW t \in Threads,
         \/ LookForCoverage(t) \/ RollBack(t)
         \/ \E x \in selections : BeginConfirm(t, x)
         \/ \E i \in items, d \in Decisions : BeginDecide(t, i, d)
         \/ \E r \in Rounds : BeginAudit(t, r)
         \/ \E i \in asked : BeginAttempt(t, i)
  PROVE  TypedCatalog'
<1>1. CASE LookForCoverage(t)
  <2>. PICK x : x = open[t].selection
    OBVIOUS
  <2>. DEFINE y == [op |-> "cover", selection |-> x, missing |-> open[t].missing,
                    uncovered |-> {c \in ClausesOf(x) : CoverageFor(x.round, c) = {}}]
  <2>1. open[t] \in {open[u] : u \in Threads} \ {None} /\ open[t].op = "confirm"
    BY <1>1 DEF LookForCoverage
  <2>2. RequestOK(open[t])
    BY <2>1 DEF TypedCatalog
  <2>3. RequestOK(y)
    BY <2>1, <2>2 DEF RequestOK
  <2>4. open' = [open EXCEPT ![t] = y] /\ UNCHANGED <<catalog, roundRows>>
    BY <1>1 DEF LookForCoverage
  <2>. HIDE DEF y
  <2>. QED
    BY <2>3, <2>4, OnlyOpens
<1>2. CASE RollBack(t)
  BY <1>2, OnlyOpens DEF RollBack
<1>3. ASSUME NEW x \in selections, BeginConfirm(t, x) PROVE TypedCatalog'
  <2>. DEFINE y == [op |-> "confirm", selection |-> x,
                    missing |-> {c \in ClausesOf(x) : ItemsFor(x.round, c) = {}}]
  <2>1. Chosen(x)
    BY DEF TypedCatalog, RoundTypes, Pinned, Chosen
  <2>2. RequestOK(y)
    BY <2>1 DEF RequestOK
  <2>3. Start(t, y)
    BY <1>3 DEF BeginConfirm
  <2>. HIDE DEF y
  <2>. QED
    BY <2>2, <2>3, StartTyped
<1>4. ASSUME NEW i \in items, NEW d \in Decisions, BeginDecide(t, i, d) PROVE TypedCatalog'
  <2>. PICK was : Start(t, [op |-> "decide", item |-> i, decision |-> d, was |-> was])
    BY <1>4 DEF BeginDecide
  <2>. DEFINE y == [op |-> "decide", item |-> i, decision |-> d, was |-> was]
  <2>1. RequestOK(y) /\ Start(t, y)
    BY DEF RequestOK
  <2>. HIDE DEF y
  <2>. QED
    BY <2>1, StartTyped
<1>5. ASSUME NEW r \in Rounds, BeginAudit(t, r) PROVE TypedCatalog'
  <2>. DEFINE y == [op |-> "audit", asks |-> {Name(i) : i \in
                      {i \in items : i.round = r /\ i.decision = "applicable"}}]
  <2>1. \A i \in items : Name(i) \in Names
    BY Named DEF TypedCatalog, RoundTypes
  <2>2. RequestOK(y)
    BY <2>1 DEF RequestOK
  <2>3. Start(t, y)
    BY <1>5 DEF BeginAudit
  <2>. HIDE DEF y
  <2>. QED
    BY <2>2, <2>3, StartTyped
<1>6. ASSUME NEW i \in asked, BeginAttempt(t, i) PROVE TypedCatalog'
  <2>. PICK was : Start(t, [op |-> "attempt", item |-> i, was |-> was])
    BY <1>6 DEF BeginAttempt
  <2>. DEFINE y == [op |-> "attempt", item |-> i, was |-> was]
  <2>1. RequestOK(y) /\ Start(t, y)
    BY DEF RequestOK
  <2>. HIDE DEF y
  <2>. QED
    BY <2>1, StartTyped
<1>. QED
  BY <1>1, <1>2, <1>3, <1>4, <1>5, <1>6

\* Standards, versions and revisions are created, published and abolished.
LEMMA CreationsTyped ==
  ASSUME TypedCatalog,
         \/ \E s \in Standards : CreateStandard(s)
         \/ \E v \in Versions, status \in Statuses \ {"absent"} : CreateVersion(v, status)
  PROVE  TypedCatalog'
<1>1. ASSUME NEW s \in Standards, CreateStandard(s) PROVE TypedCatalog'
  <2>1. ClausesKept /\ VersionsStay
    BY <1>1 DEF CreateStandard, ClausesKept, VersionsStay
  <2>2. Rows'
    BY <1>1 DEF CreateStandard, TypedCatalog, Rows, Statuses
  <2>. QED
    BY <1>1, <2>1, <2>2, CatalogMoves DEF CreateStandard
<1>2. ASSUME NEW v \in Versions, NEW status \in Statuses \ {"absent"}, CreateVersion(v, status)
      PROVE  TypedCatalog'
  <2>. PICK draft : draft = [clauses |-> {}, status |-> "draft"]
    OBVIOUS
  <2>1. draft \in Revision /\ 1 <= MaxRevisions
    BY StandardAssumption DEF Revision
  <2>2. <<draft>> \in Seq(Revision) /\ Len(<<draft>>) = 1 /\ <<draft>> # <<>>
    BY <2>1
  <2>3. /\ standard' = standard /\ version' = [version EXCEPT ![v] = status]
        /\ revisions' = [revisions EXCEPT ![v] = <<draft>>] /\ version[v] = "absent"
    BY <1>2 DEF CreateVersion
  <2>4. Rows
    BY DEF TypedCatalog
  <2>5. /\ \A w \in Versions \ {v} : revisions'[w] = revisions[w] /\ version'[w] = version[w]
        /\ revisions'[v] = <<draft>> /\ version'[v] = status
    BY <2>3, <2>4 DEF Rows
  <2>6. revisions' \in [Versions -> Seq(Revision)] /\ version' \in [Versions -> Statuses]
    BY <2>2, <2>3, <2>4 DEF Rows
  <2>7. Rows'
    BY <2>1, <2>2, <2>3, <2>4, <2>5, <2>6 DEF Rows
  <2>8. VersionsStay
    BY <2>3, <2>5 DEF VersionsStay
  <2>9. ClausesKept
    <3>1. DOMAIN revisions[v] = {}
      BY <2>3, <2>4 DEF Rows
    <3>. QED
      BY <2>5, <3>1 DEF ClausesKept
  <2>. QED
    BY <1>2, <2>7, <2>8, <2>9, CatalogMoves DEF CreateVersion
<1>. QED
  BY <1>1, <1>2

LEMMA RevisionTyped ==
  ASSUME TypedCatalog, NEW t \in Threads, CommitRevision(t) PROVE TypedCatalog'
<1>. PICK x : x = open[t]
  OBVIOUS
<1>. PICK v : v = x.version
  OBVIOUS
<1>. PICK draft : draft = [clauses |-> x.clauses, status |-> "draft"]
  OBVIOUS
<1>0. x \in {open[u] : u \in Threads} \ {None} /\ x.op = "revise"
  BY DEF CommitRevision, Commits
<1>1. RequestOK(x)
  BY <1>0 DEF TypedCatalog
<1>2. /\ v \in Versions /\ version[v] # "absent" /\ x.number <= MaxRevisions
      /\ draft \in Revision
  BY <1>0, <1>1 DEF RequestOK, Revision
<1>3. Rows /\ revisions[v] \in Seq(Revision)
  BY <1>2 DEF TypedCatalog, Rows
<1>4. /\ standard' = standard /\ version' = version
      /\ UNCHANGED roundRows /\ open' = [open EXCEPT ![t] = None]
      /\ \/ revisions' = revisions
         \/ /\ Latest(v) + 1 = x.number
            /\ revisions' = [revisions EXCEPT ![v] = Append(revisions[v], draft)]
  <2>1. /\ standard' = standard /\ version' = version
        /\ UNCHANGED roundRows /\ open' = [open EXCEPT ![t] = None]
        /\ revisions' = [revisions EXCEPT ![v] =
             IF Latest(v) + 1 = x.number THEN Append(revisions[v], draft) ELSE revisions[v]]
    BY DEF CommitRevision, Commits
  <2>. QED
    BY <1>2, <1>3, <2>1 DEF Rows
<1>5. VersionsStay
  BY <1>4 DEF VersionsStay
<1>6. CASE revisions' = revisions
  <2>1. Rows' /\ ClausesKept
    BY <1>3, <1>4, <1>6 DEF Rows, ClausesKept
  <2>. QED
    BY <1>4, <1>5, <2>1, CatalogMoves
<1>7. CASE Latest(v) + 1 = x.number
             /\ revisions' = [revisions EXCEPT ![v] = Append(revisions[v], draft)]
  <2>. PICK S \in Seq(Revision) : S = revisions[v]
    BY <1>3
  <2>0. /\ Append(S, draft) \in Seq(Revision) /\ Len(Append(S, draft)) = Len(S) + 1
        /\ \A m \in DOMAIN S : m \in DOMAIN Append(S, draft) /\ Append(S, draft)[m] = S[m]
        /\ Len(S) \in Nat
    BY <1>2
  <2>1. /\ Append(revisions[v], draft) \in Seq(Revision)
        /\ Len(Append(revisions[v], draft)) = Latest(v) + 1
        /\ Append(revisions[v], draft) # <<>>
        /\ \A m \in DOMAIN revisions[v] :
             /\ m \in DOMAIN Append(revisions[v], draft)
             /\ Append(revisions[v], draft)[m] = revisions[v][m]
    BY <2>0 DEF Latest
  <2>2. /\ \A w \in Versions \ {v} : revisions'[w] = revisions[w]
        /\ revisions'[v] = Append(revisions[v], draft)
    BY <1>2, <1>3, <1>7 DEF Rows
  <2>3. revisions' \in [Versions -> Seq(Revision)]
    BY <1>3, <1>7, <2>1 DEF Rows
  <2>4. Rows'
    <3>1. Len(revisions'[v]) <= MaxRevisions /\ revisions'[v] # <<>>
      BY <1>2, <1>7, <2>1, <2>2
    <3>. QED
      BY <1>2, <1>3, <1>4, <2>2, <2>3, <3>1 DEF Rows
  <2>5. ClausesKept
    BY <2>1, <2>2 DEF ClausesKept
  <2>. QED
    BY <1>4, <1>5, <2>4, <2>5, CatalogMoves
<1>. QED
  BY <1>4, <1>6, <1>7
\* A publication writes statuses only.
LEMMA PublishTyped ==
  ASSUME TypedCatalog, NEW t \in Threads, CommitPublish(t) PROVE TypedCatalog'
<1>. PICK x : x = open[t]
  OBVIOUS
<1>. PICK v : v = x.version
  OBVIOUS
<1>. PICK s : s = StandardOf[v]
  OBVIOUS
<1>0. x \in {open[u] : u \in Threads} \ {None} /\ x.op = "publish"
  BY DEF CommitPublish, Commits
<1>1. RequestOK(x)
  BY <1>0 DEF TypedCatalog
<1>2. v \in Versions /\ version[v] # "absent" /\ s \in Standards
  BY <1>0, <1>1, StandardAssumption DEF RequestOK
<1>3. Rows /\ revisions[v] \in Seq(Revision) /\ revisions[v] # <<>>
  BY <1>2 DEF TypedCatalog, Rows
<1>. PICK S \in Seq(Revision) : S = revisions[v]
  BY <1>3
<1>. DEFINE Now(m) == [clauses |-> S[m].clauses,
                       status  |-> IF m = x.number THEN Written(x.was, "published", S[m].status)
                                   ELSE IF m \in x.previous THEN "archived" ELSE S[m].status]
            published == [m \in DOMAIN S |-> Now(m)]
<1>4. /\ revisions' = [revisions EXCEPT ![v] = published]
      /\ version' = [version EXCEPT ![v] = Written(x.wasVersion, "active", version[v])]
      /\ standard' = [standard EXCEPT ![s] = Written(x.wasStandard, "active", standard[s])]
      /\ UNCHANGED roundRows /\ open' = [open EXCEPT ![t] = None]
  BY <1>2, <1>3 DEF CommitPublish, Commits, Rows
<1>5. ASSUME NEW m \in DOMAIN S PROVE Now(m) \in Revision /\ Now(m).clauses = S[m].clauses
  <2>1. S[m] \in Revision
    OBVIOUS
  <2>2. Now(m).status \in {"published", "archived", S[m].status}
    BY DEF Written
  <2>. QED
    BY <2>1, <2>2 DEF Revision
<1>. HIDE DEF Now
<1>6. /\ published \in Seq(Revision) /\ Len(published) = Len(S)
      /\ \A m \in DOMAIN S : m \in DOMAIN published /\ published[m] = Now(m)
      /\ published # <<>>
  <2>1. Len(S) \in Nat /\ DOMAIN S = 1..Len(S) /\ Len(S) # 0
    BY <1>3
  <2>2. published \in [1..Len(S) -> Revision]
    BY <1>5, <2>1
  <2>3. published \in Seq(Revision) /\ Len(published) = Len(S)
    BY <2>1, <2>2, SeqDef
  <2>4. \A m \in DOMAIN S : m \in DOMAIN published /\ published[m] = Now(m)
    OBVIOUS
  <2>. HIDE DEF published
  <2>5. published # <<>>
    BY <2>1, <2>3
  <2>. QED
    BY <2>3, <2>4, <2>5
<1>. HIDE DEF published
<1>7. /\ \A w \in Versions \ {v} : revisions'[w] = revisions[w] /\ version'[w] = version[w]
      /\ revisions'[v] = published /\ version'[v] \in {"active", version[v]}
  BY <1>2, <1>3, <1>4 DEF Rows, Written
<1>8. /\ revisions' \in [Versions -> Seq(Revision)]
      /\ version' \in [Versions -> Statuses]
      /\ standard' \in [Standards -> Statuses]
  BY <1>2, <1>3, <1>4, <1>6 DEF Rows, Written, Statuses
<1>9. Rows'
  BY <1>2, <1>3, <1>6, <1>7, <1>8 DEF Rows
<1>10. VersionsStay
  BY <1>2, <1>7 DEF VersionsStay
<1>11. ClausesKept
  BY <1>5, <1>6, <1>7 DEF ClausesKept
<1>. QED
  BY <1>4, <1>9, <1>10, <1>11, CatalogMoves

LEMMA AbolishTyped ==
  ASSUME TypedCatalog, NEW t \in Threads, CommitAbolish(t) PROVE TypedCatalog'
<1>. PICK x : x = open[t]
  OBVIOUS
<1>. PICK v : v = x.version
  OBVIOUS
<1>. PICK s : s = StandardOf[v]
  OBVIOUS
<1>. PICK status \in {"active", "obsolete"} : status = IF x.another THEN "active" ELSE "obsolete"
  OBVIOUS
<1>0. x \in {open[u] : u \in Threads} \ {None} /\ x.op = "abolish"
  BY DEF CommitAbolish, Commits
<1>1. RequestOK(x)
  BY <1>0 DEF TypedCatalog
<1>2. v \in Versions /\ version[v] # "absent" /\ s \in Standards /\ Rows
  BY <1>0, <1>1, StandardAssumption DEF RequestOK, TypedCatalog
<1>3. /\ revisions' = revisions
      /\ version' = [version EXCEPT ![v] = Written(x.wasVersion, "obsolete", version[v])]
      /\ standard' = [standard EXCEPT ![s] = Written(x.wasStandard, status, standard[s])]
      /\ UNCHANGED roundRows /\ open' = [open EXCEPT ![t] = None]
  BY <1>2 DEF CommitAbolish, Commits, Rows
<1>4. /\ \A w \in Versions \ {v} : version'[w] = version[w]
      /\ version'[v] \in {"obsolete", version[v]}
  BY <1>2, <1>3 DEF Rows, Written
<1>5. version' \in [Versions -> Statuses] /\ standard' \in [Standards -> Statuses]
  BY <1>2, <1>3 DEF Rows, Written, Statuses
<1>6. Rows'
  BY <1>2, <1>3, <1>4, <1>5 DEF Rows
<1>7. VersionsStay /\ ClausesKept
  BY <1>2, <1>3, <1>4 DEF VersionsStay, ClausesKept
<1>. QED
  BY <1>3, <1>6, <1>7, CatalogMoves

\* A selection of a revision that is there.
LEMMA SelectTyped ==
  ASSUME TypedCatalog, NEW t \in Threads, CommitSelect(t) PROVE TypedCatalog'
<1>. PICK x : x = open[t]
  OBVIOUS
<1>. PICK y : y = [round |-> x.round, version |-> x.version, by |-> t,
                   revision |-> x.revision, confirmed |-> FALSE]
  OBVIOUS
<1>0. x \in {open[u] : u \in Threads} \ {None} /\ x.op = "select"
  BY DEF CommitSelect, Commits
<1>1. SelectRead(x)
  BY <1>0 DEF TypedCatalog, RequestOK
<1>2. x.revision \in Numbers
  BY <1>1, StandardAssumption DEF SelectRead, TypedCatalog, Rows, Numbers
<1>3. y \in Selection /\ y.version = x.version /\ y.revision = x.revision
  BY <1>1, <1>2 DEF SelectRead, Selection
<1>4. /\ selections' = selections \cup {y} /\ items' = items /\ coverage' = coverage
      /\ asked' = asked /\ UNCHANGED catalog /\ open' = [open EXCEPT ![t] = None]
  BY DEF CommitSelect, Commits
<1>5. RoundTypes'
  BY <1>3, <1>4 DEF TypedCatalog, RoundTypes
<1>6. Pinned'
  BY <1>1, <1>3, <1>4 DEF TypedCatalog, Pinned, SelectRead, catalog
<1>7. ItemsStay
  BY <1>4 DEF ItemsStay, ItemsFor
<1>. QED
  BY <1>4, <1>5, <1>6, <1>7, RoundMoves

\* A confirmation whose clauses have items by now, or get them.
LEMMA ConfirmTyped ==
  ASSUME TypedCatalog, NEW t \in Threads, CommitConfirm(t) PROVE TypedCatalog'
<1>. PICK x : x = open[t].selection
  OBVIOUS
<1>. PICK r : r = x.round
  OBVIOUS
<1>. PICK M, U : M = open[t].missing /\ U = open[t].uncovered
  OBVIOUS
<1>. PICK y : y = [x EXCEPT !.confirmed = TRUE]
  OBVIOUS
<1>. DEFINE I(c) == [round |-> r, clause |-> c, by |-> t, decision |-> "to_confirm"]
            Owner(c) == IF c \in M THEN t ELSE (CHOOSE i \in ItemsFor(r, c) : TRUE).by
            K(c) == [round |-> r, clause |-> c, by |-> t, status |-> "to_confirm",
                     item |-> Owner(c)]
<1>0. open[t] \in {open[u] : u \in Threads} \ {None} /\ open[t].op = "cover"
  BY DEF CommitConfirm, Commits
<1>1. /\ Chosen(x) /\ M \subseteq ClausesOf(x) /\ U \subseteq ClausesOf(x)
      /\ \A c \in ClausesOf(x) \ M : ItemsFor(r, c) # {}
  BY <1>0 DEF TypedCatalog, RequestOK
<1>2. ClausesOf(x) \subseteq Clauses /\ x \in Selection /\ r \in Rounds
  BY <1>1, ChosenClauses DEF TypedCatalog, Chosen, Selection
<1>3. y \in Selection /\ y.version = x.version /\ y.revision = x.revision
  BY <1>2 DEF Selection
<1>4. \A c \in M : I(c) \in Item
  BY <1>1, <1>2 DEF Item
<1>5. ASSUME NEW c \in U PROVE Owner(c) \in Threads
  <2>1. CASE c \in M
    BY <2>1
  <2>2. CASE c \notin M
    <3>1. PICK i \in ItemsFor(r, c) : i = CHOOSE j \in ItemsFor(r, c) : TRUE
      BY <1>1, <2>2
    <3>2. i \in Item
      BY DEF ItemsFor, TypedCatalog, RoundTypes
    <3>. QED
      BY <2>2, <3>1, <3>2 DEF Item
  <2>. QED
    BY <2>1, <2>2
<1>. HIDE DEF Owner
<1>6. \A c \in U : K(c) \in Coverage
  BY <1>1, <1>2, <1>5 DEF Coverage
<1>7. /\ selections' = (selections \ {x}) \cup {y}
      /\ items' = items \cup {I(c) : c \in M}
      /\ coverage' = coverage \cup {K(c) : c \in U} /\ asked' = asked
      /\ UNCHANGED catalog /\ open' = [open EXCEPT ![t] = None]
  BY DEF CommitConfirm, Commits, Owner
<1>. HIDE DEF I, K
<1>8. RoundTypes'
  BY <1>3, <1>4, <1>6, <1>7 DEF TypedCatalog, RoundTypes
<1>9. Pinned'
  BY <1>1, <1>3, <1>7 DEF TypedCatalog, Pinned, Chosen, catalog
<1>10. ItemsStay
  BY <1>7 DEF ItemsStay, ItemsFor
<1>. QED
  BY <1>7, <1>8, <1>9, <1>10, RoundMoves

\* A decision keeps the item's round and clause.
LEMMA DecideTyped ==
  ASSUME TypedCatalog, NEW t \in Threads, CommitDecide(t) PROVE TypedCatalog'
<1>. PICK x : x = open[t]
  OBVIOUS
<1>. PICK i : i = x.item
  OBVIOUS
<1>. DEFINE Same(j) == Name(j) = Name(i)
            Now(j) == IF Same(j)
                      THEN [j EXCEPT !.decision = Written(i.decision, x.decision, j.decision)]
                      ELSE j
            Row(k) == IF Covers(k, i) /\ x.was # "no row"
                      THEN [k EXCEPT !.status =
                              Written(x.was, CoverageStatus(x.decision), k.status)]
                      ELSE k
<1>0. x \in {open[u] : u \in Threads} \ {None} /\ x.op = "decide"
  BY DEF CommitDecide, Commits
<1>1. x.decision \in Decisions
  BY <1>0 DEF TypedCatalog, RequestOK
<1>2. /\ items' = {Now(j) : j \in items} /\ coverage' = {Row(k) : k \in coverage}
      /\ selections' = selections /\ asked' = asked
      /\ UNCHANGED catalog /\ open' = [open EXCEPT ![t] = None]
  BY DEF CommitDecide, Commits
<1>3. ASSUME NEW j \in items
      PROVE  Now(j) \in Item /\ Now(j).round = j.round /\ Now(j).clause = j.clause
  <2>1. j \in Item
    BY DEF TypedCatalog, RoundTypes
  <2>. QED
    BY <1>1, <2>1 DEF Item, Written
<1>4. ASSUME NEW k \in coverage PROVE Row(k) \in Coverage
  <2>1. k \in Coverage
    BY DEF TypedCatalog, RoundTypes
  <2>2. CoverageStatus(x.decision) \in {"to_confirm", "applicable", "not_applicable"}
    BY <1>1 DEF CoverageStatus, Decisions
  <2>. QED
    BY <2>1, <2>2 DEF Coverage, Written
<1>. HIDE DEF Same, Now, Row
<1>5. RoundTypes'
  BY <1>2, <1>3, <1>4 DEF TypedCatalog, RoundTypes
<1>6. Pinned'
  BY <1>2 DEF TypedCatalog, Pinned, catalog
<1>7. ItemsStay
  <2>. SUFFICES ASSUME NEW q, NEW c, NEW j \in ItemsFor(q, c) PROVE ItemsFor(q, c)' # {}
    BY DEF ItemsStay
  <2>1. Now(j) \in ItemsFor(q, c)'
    BY <1>2, <1>3 DEF ItemsFor
  <2>. QED
    BY <2>1
<1>. QED
  BY <1>2, <1>5, <1>6, <1>7, RoundMoves

\* Executions are asked of items, and their results go to rows that there are.
LEMMA ExecutionsTyped ==
  ASSUME TypedCatalog, NEW t \in Threads, CommitAudit(t) \/ CommitAttempt(t)
  PROVE  TypedCatalog'
<1>1. /\ items' = items /\ selections' = selections /\ UNCHANGED catalog
      /\ open' = [open EXCEPT ![t] = None]
  BY DEF CommitAudit, CommitAttempt, Commits
<1>2. ItemsStay /\ Pinned'
  BY <1>1 DEF ItemsStay, ItemsFor, TypedCatalog, Pinned, catalog
<1>3. CASE CommitAudit(t)
  <2>1. open[t] \in {open[u] : u \in Threads} \ {None} /\ open[t].op = "audit"
    BY <1>3 DEF CommitAudit, Commits
  <2>2. open[t].asks \subseteq Names
    BY <2>1 DEF TypedCatalog, RequestOK
  <2>3. RoundTypes'
    BY <1>3, <2>2 DEF CommitAudit, TypedCatalog, RoundTypes
  <2>. QED
    BY <1>1, <1>2, <2>3, RoundMoves
<1>4. CASE CommitAttempt(t)
  <2>1. PICK same \in {open[t].was = "executed", FALSE} :
          coverage' =
            {IF Covers(k, open[t].item) /\ open[t].was # "no row" /\ ~same
             THEN [k EXCEPT !.status = "executed"] ELSE k : k \in coverage}
    BY <1>4 DEF CommitAttempt
  <2>2. \A k \in coverage : k \in Coverage /\ [k EXCEPT !.status = "executed"] \in Coverage
    BY DEF TypedCatalog, RoundTypes, Coverage
  <2>3. coverage' \subseteq Coverage
    BY <2>1, <2>2
  <2>4. RoundTypes'
    BY <1>1, <1>4, <2>3 DEF CommitAttempt, TypedCatalog, RoundTypes
  <2>. QED
    BY <1>1, <1>2, <2>4, RoundMoves
<1>. QED
  BY <1>3, <1>4

\* The rows and transactions of the catalog keep their types on either isolation.
LEMMA CatalogTyped == Spec => []TypedCatalog
<1>1. Init => TypedCatalog
  <2>. SUFFICES ASSUME Init PROVE TypedCatalog
    OBVIOUS
  <2>1. Rows
    BY CatalogInit DEF CatalogInv
  <2>. QED
    BY <2>1 DEF Init, TypedCatalog, RoundTypes, Pinned
<1>2. TypedCatalog /\ Next => TypedCatalog'
  BY CreationsTyped, CatalogBeginsTyped, RoundBeginsTyped, RevisionTyped, PublishTyped,
     AbolishTyped, SelectTyped, ConfirmTyped, DecideTyped, ExecutionsTyped DEF Next
<1>3. TypedCatalog /\ UNCHANGED vars => TypedCatalog'
  <2>. SUFFICES ASSUME TypedCatalog, UNCHANGED vars PROVE TypedCatalog'
    OBVIOUS
  <2>1. UNCHANGED <<catalog, roundRows>> /\ open' = open
    BY DEF vars
  <2>2. \A x \in {open[u] : u \in Threads} \ {None} : RequestOK(x)'
    BY <2>1, RowsAlone DEF TypedCatalog
  <2>3. Rows' /\ RoundTypes' /\ Pinned'
    BY <2>1, RowsAlone
  <2>. QED
    BY <2>1, <2>2, <2>3 DEF TypedCatalog
<1>. QED
  BY <1>1, <1>2, <1>3, PTL DEF Spec

\* Every part keeps its types, for any constants and on either isolation of the
\* catalog: numbers, passwords, sessions and rounds stay within their bounds, an
\* object is a content that was uploaded, a file of a report is of a round there
\* is, and a selection, an item and a coverage row are of clauses that there are.
THEOREM DeskTypes == DeskSpec => []DeskTypeOK
<1>1. TypedCatalog => TypeOK
  BY DEF TypedCatalog, Rows, RoundTypes, TypeOK
<1>2. DeskSpec => []TypeOK
  BY <1>1, DeskCatalog, CatalogTyped, PTL
<1>. DEFINE Reported == IF part = "numbers" THEN Numbering!TypeOK ELSE Reporting!TypeOK
<1>3. TypeOK /\ Account!TypeOK /\ Upload!TypeOK /\ Reported => DeskTypeOK
  BY DEF DeskTypeOK
<1>4. DeskSpec => []Reported
  BY ReportTypes
<1>. HIDE DEF Reported
<1>. QED
  BY <1>2, <1>3, <1>4, AccountTypesHold, UploadTypes, PTL
=============================================================================
