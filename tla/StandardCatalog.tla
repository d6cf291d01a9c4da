--------------------------- MODULE StandardCatalog --------------------------
(***************************************************************************)
(* The standards that audits are made against.  A standard has versions, a *)
(* version has parse revisions, and a revision has clauses.  A round of an *)
(* audit selects versions, which pins their published revision; confirming *)
(* a selection gives the round an item and a coverage row for every clause,*)
(* and reviewers then decide the items.  An audit asks for the execution of*)
(* the items that are applicable, whose results go to the same coverage    *)
(* rows.  A report goes out only when no coverage row is left to confirm.  *)
(*                                                                         *)
(* Every operation is one transaction: a step that reads (Begin...) and    *)
(* one that writes what follows from what was read (Commit...).  With      *)
(* SerialStore no two transactions overlap; without it (PostgreSQL's read  *)
(* committed) each writes over whatever others have committed since.  The  *)
(* session does not write a column that it sets to the value it has read.  *)
(*                                                                         *)
(* A clause is a triple <<version, number of its revision, code>>.  Rows   *)
(* that a round owns are told apart by the thread that inserted them.      *)
(***************************************************************************)
EXTENDS Integers, Sequences

CONSTANTS
  Standards,     \* standards by their code
  Versions,      \* versions by their full code
  StandardOf,    \* StandardOf[v]: the standard v is a version of
  Codes,         \* clause codes
  MaxRevisions,  \* bound on the parse revisions of a version
  Rounds,        \* audit rounds
  Threads,       \* API threads
  SerialStore,   \* whether transactions are serializable
  None           \* no transaction

ASSUME StandardAssumption ==
  /\ StandardOf \in [Versions -> Standards]
  /\ MaxRevisions \in Nat \ {0}
  /\ SerialStore \in BOOLEAN

VARIABLES
  standard,    \* standard[s]: status of the standard row
  version,     \* version[v]: status of the standard_version row
  revisions,   \* revisions[v]: its parse revisions, in order of creation
  selections,  \* round_standard rows
  items,       \* dynamic_audit_item rows
  coverage,    \* round_standard_coverage rows
  asked,       \* the items of which there is a rule_execution row
  open         \* open[t]: what the open transaction of t has read

catalog == <<standard, version, revisions>>
roundRows == <<selections, items, coverage, asked>>
vars == <<catalog, roundRows, open>>

Statuses == {"absent", "draft", "active", "obsolete"}

Revision ==
  [clauses : SUBSET Codes, status : {"draft", "published", "archived"}]

Numbers == 1..MaxRevisions

Clauses == Versions \X Numbers \X Codes

\* What reviewers say of an item: the confirm, exclude and manual endpoints.
Decisions == {"applicable", "not_applicable", "manual_review"}

Selection ==
  [round : Rounds, version : Versions, by : Threads,
   revision : Numbers, confirmed : BOOLEAN]

Item ==
  [round : Rounds, clause : Clauses, by : Threads,
   decision : Decisions \cup {"to_confirm"}]

\* What tells an item from the others.
Name(i) == [round |-> i.round, clause |-> i.clause, by |-> i.by]

Names == [round : Rounds, clause : Clauses, by : Threads]

\* "item" is the thread that inserted the item of the row.  "executed" stands for
\* the results that an execution may leave there: executed_passed and
\* executed_failed, missing_data, unable_to_determine, execution_exception.
Coverage ==
  [round : Rounds, clause : Clauses, by : Threads, item : Threads,
   status : {"to_confirm", "applicable", "not_applicable", "executed"}]

TypeOK ==
  /\ standard \in [Standards -> Statuses]
  /\ version \in [Versions -> Statuses]
  /\ revisions \in [Versions -> Seq(Revision)]
  /\ \A v \in Versions :
       /\ Len(revisions[v]) <= MaxRevisions
       /\ revisions[v] = <<>> <=> version[v] = "absent"
  /\ selections \subseteq Selection
  /\ items \subseteq Item
  /\ coverage \subseteq Coverage
  /\ asked \subseteq Names
  /\ DOMAIN open = Threads

Init ==
  /\ standard = [s \in Standards |-> "absent"]
  /\ version = [v \in Versions |-> "absent"]
  /\ revisions = [v \in Versions |-> <<>>]
  /\ selections = {}
  /\ items = {}
  /\ coverage = {}
  /\ asked = {}
  /\ open = [t \in Threads |-> None]

-----------------------------------------------------------------------------
(* Transactions.                                                           *)

Isolated == SerialStore => \A t \in Threads : open[t] = None

Start(t, reads) ==
  /\ Isolated
  /\ open[t] = None
  /\ open' = [open EXCEPT ![t] = reads]
  /\ UNCHANGED <<catalog, roundRows>>

Commits(t, op) ==
  /\ open[t] # None
  /\ open[t].op = op
  /\ open' = [open EXCEPT ![t] = None]

\* A value that was read as the one to be written is not written.
Written(read, value, current) == IF read = value THEN current ELSE value

-----------------------------------------------------------------------------
(* Standards, versions and parse revisions.                                *)

CreateStandard(s) ==
  /\ Isolated
  /\ standard[s] = "absent"
  /\ standard' = [standard EXCEPT ![s] = "draft"]
  /\ UNCHANGED <<version, revisions, roundRows, open>>

\* A version comes with an empty first revision, and with the status that the
\* request names.  Simultaneous creations of one version are refused by its
\* unique code.
CreateVersion(v, status) ==
  /\ Isolated
  /\ standard[StandardOf[v]] # "absent"
  /\ version[v] = "absent"
  /\ version' = [version EXCEPT ![v] = status]
  /\ revisions' = [revisions EXCEPT ![v] = <<[clauses |-> {}, status |-> "draft"]>>]
  /\ UNCHANGED <<standard, roundRows, open>>

Latest(v) == Len(revisions[v])

\* A revision has the clauses it is given, or those of the latest one.
BeginRevision(t, v, C) ==
  /\ version[v] # "absent"
  /\ Latest(v) < MaxRevisions
  /\ Start(t, [op |-> "revise", version |-> v, number |-> Latest(v) + 1, clauses |-> C])

CopyRevision(t, v) ==
  /\ version[v] # "absent"
  /\ BeginRevision(t, v, revisions[v][Latest(v)].clauses)

\* A revision number that has been taken meanwhile is refused by the unique
\* constraint, and the transaction is rolled back.
CommitRevision(t) ==
  /\ Commits(t, "revise")
  /\ LET x == open[t] IN
       revisions' = [revisions EXCEPT ![x.version] =
         IF Latest(x.version) + 1 = x.number
         THEN Append(@, [clauses |-> x.clauses, status |-> "draft"])
         ELSE @]
  /\ UNCHANGED <<standard, version, roundRows>>

\* Mutant of Previous: only earlier revisions are archived.
Earlier(v, n) == {m \in 1..(n - 1) : revisions[v][m].status = "published"}

Previous(v, n) ==
  {m \in DOMAIN revisions[v] : revisions[v][m].status = "published"} \ {n}

\* Any revision can be published, an archived one or one of an abolished
\* version too.
BeginPublish(t, v, n) ==
  /\ n \in DOMAIN revisions[v]
  /\ Start(t, [op |-> "publish", version |-> v, number |-> n,
               previous |-> Previous(v, n), was |-> revisions[v][n].status,
               wasVersion |-> version[v], wasStandard |-> standard[StandardOf[v]]])

\* Publishing a version publishes its latest revision.
BeginPublishVersion(t, v) ==
  /\ version[v] # "absent"
  /\ BeginPublish(t, v, Latest(v))

CommitPublish(t) ==
  /\ Commits(t, "publish")
  /\ LET x == open[t]
         s == StandardOf[x.version]
     IN /\ revisions' = [revisions EXCEPT ![x.version] =
             [m \in DOMAIN @ |->
                [clauses |-> @[m].clauses,
                 status  |-> IF m = x.number THEN Written(x.was, "published", @[m].status)
                             ELSE IF m \in x.previous THEN "archived"
                             ELSE @[m].status]]]
        /\ version' = [version EXCEPT ![x.version] = Written(x.wasVersion, "active", @)]
        /\ standard' = [standard EXCEPT ![s] = Written(x.wasStandard, "active", @)]
  /\ UNCHANGED roundRows

\* Mutant of AnotherActive: the version itself is counted.
AnyActive(v) ==
  \E w \in Versions : StandardOf[w] = StandardOf[v] /\ version[w] = "active"

AnotherActive(v) ==
  \E w \in Versions \ {v} : StandardOf[w] = StandardOf[v] /\ version[w] = "active"

\* The successor that a request may name is left out: one that is not a version
\* of the same standard ends the request before it has written anything.
BeginAbolish(t, v) ==
  /\ version[v] # "absent"
  /\ Start(t, [op |-> "abolish", version |-> v, another |-> AnotherActive(v),
               wasVersion |-> version[v], wasStandard |-> standard[StandardOf[v]]])

CommitAbolish(t) ==
  /\ Commits(t, "abolish")
  /\ LET x == open[t]
         s == StandardOf[x.version]
         status == IF x.another THEN "active" ELSE "obsolete"
     IN /\ version' = [version EXCEPT ![x.version] = Written(x.wasVersion, "obsolete", @)]
        /\ standard' = [standard EXCEPT ![s] = Written(x.wasStandard, status, @)]
  /\ UNCHANGED <<revisions, roundRows>>

-----------------------------------------------------------------------------
(* The standards of a round.                                               *)

Published(v) == {n \in DOMAIN revisions[v] : revisions[v][n].status = "published"}

\* A selection pins the latest published revision.  A version that the round
\* has selected is left with the revision it has.
BeginSelect(t, r, v) ==
  /\ \A x \in selections : ~(x.round = r /\ x.version = v)
  /\ \E n \in Published(v) :
       /\ \A m \in Published(v) : m <= n
       /\ Start(t, [op |-> "select", round |-> r, version |-> v, revision |-> n])

CommitSelect(t) ==
  /\ Commits(t, "select")
  /\ LET x == open[t] IN
       selections' = selections \cup
         {[round |-> x.round, version |-> x.version, by |-> t,
           revision |-> x.revision, confirmed |-> FALSE]}
  /\ UNCHANGED <<catalog, items, coverage, asked>>

\* The clauses of the revision that a selection pins.
ClausesOf(x) ==
  {<<x.version, x.revision, c>> : c \in revisions[x.version][x.revision].clauses}

ItemsFor(r, c) == {i \in items : i.round = r /\ i.clause = c}

CoverageFor(r, c) == {k \in coverage : k.round = r /\ k.clause = c}

\* Confirming looks for the items of the clauses and then for their coverage.
BeginConfirm(t, x) ==
  Start(t, [op |-> "confirm", selection |-> x,
            missing |-> {c \in ClausesOf(x) : ItemsFor(x.round, c) = {}}])

LookForCoverage(t) ==
  /\ open[t] # None
  /\ open[t].op = "confirm"
  /\ LET x == open[t].selection IN
       open' = [open EXCEPT ![t] =
         [op |-> "cover", selection |-> x, missing |-> open[t].missing,
          uncovered |-> {c \in ClausesOf(x) : CoverageFor(x.round, c) = {}}]]
  /\ UNCHANGED <<catalog, roundRows>>

\* The new coverage row of a clause belongs to the item inserted with it, or to
\* one that was found.
CommitConfirm(t) ==
  /\ Commits(t, "cover")
  /\ LET x == open[t].selection
         r == x.round
     IN /\ selections' = (selections \ {x}) \cup {[x EXCEPT !.confirmed = TRUE]}
        /\ items' = items \cup
             {[round |-> r, clause |-> c, by |-> t, decision |-> "to_confirm"]
                : c \in open[t].missing}
        /\ coverage' = coverage \cup
             {[round |-> r, clause |-> c, by |-> t, status |-> "to_confirm",
               item |-> IF c \in open[t].missing THEN t
                        ELSE (CHOOSE i \in ItemsFor(r, c) : TRUE).by]
                : c \in open[t].uncovered}
  /\ UNCHANGED <<catalog, asked>>

\* Mutant of CoverageStatus: the decision is copied as it is.
AsDecided(d) == d

\* An item that is sent to manual review is still to be confirmed.
CoverageStatus(d) == IF d = "manual_review" THEN "to_confirm" ELSE d

\* Whether a coverage row belongs to an item.
Covers(k, i) == k.round = i.round /\ k.clause = i.clause /\ k.item = i.by

\* What an item's coverage row says, if it has one.
RowStatus(i) ==
  IF \E k \in coverage : Covers(k, i)
  THEN {k.status : k \in {k \in coverage : Covers(k, i)}}
  ELSE {"no row"}

BeginDecide(t, i, d) ==
  \E was \in RowStatus(i) :
    Start(t, [op |-> "decide", item |-> i, decision |-> d, was |-> was])

\* The item and its row are written with what others have put there since.
CommitDecide(t) ==
  /\ Commits(t, "decide")
  /\ LET x == open[t]
         i == x.item
     IN /\ items' =
             {IF Name(j) = Name(i) THEN [j EXCEPT !.decision = Written(i.decision, x.decision, @)]
              ELSE j : j \in items}
        /\ coverage' =
             {IF Covers(k, i) /\ x.was # "no row"
              THEN [k EXCEPT !.status = Written(x.was, CoverageStatus(x.decision), @)]
              ELSE k : k \in coverage}
  /\ UNCHANGED <<catalog, selections, asked>>

-----------------------------------------------------------------------------
(* The executions of a round's items.                                      *)

\* start_audit inserts an execution for every item that it finds applicable; a
\* later run of the round asks for more.  What else a start needs is AuditRound's,
\* and without a published DYNAMIC_STANDARD_CLAUSE_REVIEW nothing is asked.
BeginAudit(t, r) ==
  Start(t, [op |-> "audit",
            asks |-> {Name(i) : i \in {i \in items : i.round = r /\ i.decision = "applicable"}}])

CommitAudit(t) ==
  /\ Commits(t, "audit")
  /\ asked' = asked \cup open[t].asks
  /\ UNCHANGED <<catalog, selections, items, coverage>>

\* The worker's result or one by hand, at any time and any number of times: no
\* status of the execution or of the item is asked for.  Attempts that are running,
\* canceled or expired leave the row as it is.
BeginAttempt(t, i) ==
  \E was \in RowStatus(i) : Start(t, [op |-> "attempt", item |-> i, was |-> was])

\* An attempt with the result that the row was read with does not write it.
CommitAttempt(t) ==
  /\ Commits(t, "attempt")
  /\ \E same \in {open[t].was = "executed", FALSE} :
       coverage' =
         {IF Covers(k, open[t].item) /\ open[t].was # "no row" /\ ~same
          THEN [k EXCEPT !.status = "executed"] ELSE k : k \in coverage}
  /\ UNCHANGED <<catalog, selections, items, asked>>

\* An error or a crash rolls an open transaction back.
RollBack(t) ==
  /\ open[t] # None
  /\ open' = [open EXCEPT ![t] = None]
  /\ UNCHANGED <<catalog, roundRows>>

-----------------------------------------------------------------------------

Next ==
  \/ \E s \in Standards : CreateStandard(s)
  \/ \E v \in Versions, status \in Statuses \ {"absent"} : CreateVersion(v, status)
  \/ \E t \in Threads, v \in Versions :
       \/ CopyRevision(t, v)
       \/ BeginPublishVersion(t, v)
       \/ BeginAbolish(t, v)
       \/ \E C \in SUBSET Codes : BeginRevision(t, v, C)
       \/ \E n \in Numbers : BeginPublish(t, v, n)
       \/ \E r \in Rounds : BeginSelect(t, r, v)
  \/ \E t \in Threads :
       \/ CommitRevision(t)
       \/ CommitPublish(t)
       \/ CommitAbolish(t)
       \/ CommitSelect(t)
       \/ LookForCoverage(t)
       \/ CommitConfirm(t)
       \/ CommitDecide(t)
       \/ CommitAudit(t)
       \/ CommitAttempt(t)
       \/ RollBack(t)
       \/ \E x \in selections : BeginConfirm(t, x)
       \/ \E i \in items, d \in Decisions : BeginDecide(t, i, d)
       \/ \E r \in Rounds : BeginAudit(t, r)
       \/ \E i \in asked : BeginAttempt(t, i)

Spec == Init /\ [][Next]_vars

-----------------------------------------------------------------------------
(* Properties.                                                             *)

\* A version never has two published revisions, so that there is one that a
\* selection can pin: publish_standard_parse_revision and publish_standard_version
\* archive the others, whichever is newer.
OnePublishedRevision ==
  \A v \in Versions : \A m, n \in Published(v) : m = n

\* An active standard has an active version, and a standard with an active
\* version that was published is active: what an abolition has counted still
\* holds when it writes the standard's status.  A version that was only created
\* as active leaves the standard as it is.
StandardFollowsVersions ==
  \A s \in Standards :
    LET Active == {v \in Versions : StandardOf[v] = s /\ version[v] = "active"} IN
    /\ standard[s] = "active" => Active # {}
    /\ standard[s] # "active" => \A v \in Active : Published(v) = {}

\* The standards' part of check_round_publishability.
GateOpen(r) ==
  /\ \E x \in selections : x.round = r /\ x.confirmed
  /\ \A k \in coverage : k.round = r => k.status # "to_confirm"

\* When the gate of a round lets a report out, every clause of every confirmed
\* standard has an item that a reviewer has looked at, and one that was sent to
\* manual review was found applicable before and has been asked of an execution:
\* whatever decisions, confirmations, new revisions, audits and results interleave.
GateMeansReviewed ==
  \A r \in Rounds : GateOpen(r) =>
    /\ \A i \in items : i.round = r =>
         /\ i.decision # "to_confirm"
         /\ i.decision = "manual_review" => Name(i) \in asked
    /\ \A x \in selections : x.round = r /\ x.confirmed =>
         \A c \in ClausesOf(x) : ItemsFor(r, c) # {}

\* "Items whose applicability is to be confirmed have been confirmed, excluded or
\* explained": no item is undecided or in manual review.  A result that arrives
\* after the item was sent to manual review writes over the row that kept the
\* gate closed.
GateMeansDecided ==
  \A r \in Rounds : GateOpen(r) =>
    \A i \in items : i.round = r => i.decision \in {"applicable", "not_applicable"}
=============================================================================
