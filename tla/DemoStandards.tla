--------------------------- MODULE DemoStandards ----------------------------
(***************************************************************************)
(* The standards of the in-memory store, and what a round makes of them.   *)
(* A version keeps a copy of its latest parse revision beside the list of  *)
(* its revisions; a round's items come from the clauses of that copy, and  *)
(* are created whenever somebody lists them.  The methods of the catalog   *)
(* hold the store's lock; listing and deciding the items do not.           *)
(*                                                                         *)
(* A new round shares the entries of the round before it: an entry is the  *)
(* same object in both.  A clause is <<version, revision number, code>>.   *)
(***************************************************************************)
EXTENDS Integers, Sequences

CONSTANTS
  Versions,      \* the versions of a standard
  Codes,         \* clause codes
  MaxRevisions,  \* bound on the parse revisions of a version
  MaxRounds,     \* bound on the rounds of the task
  MaxEntries,    \* bound on the standards selected for rounds
  Threads,       \* API threads
  None           \* what an idle thread holds

VARIABLES
  standard,   \* status of the standard
  version,    \* version[v]: status of version v
  revisions,  \* revisions[v]: its parse revisions, in order of creation
  latest,     \* latest[v]: its copy of a revision, with the number of it
  entries,    \* the standards selected for rounds, in order of creation
  rounds,     \* rounds[r]: the numbers of the entries of round r
  items,      \* the dynamic items
  work        \* work[t]: what a thread has to do and what it has read

catalog == <<standard, version, revisions, latest>>
vars == <<catalog, entries, rounds, items, work>>

Statuses == {"absent", "draft", "active", "obsolete"}

Decisions == {"applicable", "not_applicable", "manual_review"}

Copy(v, n) ==
  [no |-> n, clauses |-> revisions'[v][n].clauses, status |-> revisions'[v][n].status]

TypeOK ==
  /\ standard \in Statuses
  /\ version \in [Versions -> Statuses]
  /\ \A v \in Versions : \A n \in DOMAIN revisions[v] :
       revisions[v][n] \in [clauses : SUBSET Codes, status : {"draft", "published", "archived"}]
  /\ \A v \in Versions : latest[v].no \in 0..Len(revisions[v])
  /\ \A e \in DOMAIN entries : entries[e] \in [version : Versions, confirmed : 0..MaxRounds]
  /\ \A r \in DOMAIN rounds : rounds[r] \subseteq DOMAIN entries
  /\ \A i \in items : i.round \in DOMAIN rounds /\ i.status \in Decisions \cup {"to_confirm"}
  /\ DOMAIN work = Threads

Init ==
  /\ standard = "draft"
  /\ version = [v \in Versions |-> "absent"]
  /\ revisions = [v \in Versions |-> <<>>]
  /\ latest = [v \in Versions |-> [no |-> 0, clauses |-> {}, status |-> "draft"]]
  /\ entries = <<>>
  /\ rounds = <<{}>>
  /\ items = {}
  /\ work = [t \in Threads |-> None]

-----------------------------------------------------------------------------
(* The catalog.                                                            *)

\* The version comes with a first revision, without clauses.
CreateVersion(v, status) ==
  /\ version[v] = "absent"
  /\ version' = [version EXCEPT ![v] = status]
  /\ revisions' = [revisions EXCEPT ![v] = <<[clauses |-> {}, status |-> "draft"]>>]
  /\ latest' = [latest EXCEPT ![v] = Copy(v, 1)]
  /\ UNCHANGED <<standard, entries, rounds, items, work>>

\* The clauses are those that are given, or those of the copy.
CreateRevision(v, C) ==
  /\ version[v] # "absent"
  /\ Len(revisions[v]) < MaxRevisions
  /\ revisions' = [revisions EXCEPT ![v] = Append(@, [clauses |-> C, status |-> "draft"])]
  /\ latest' = [latest EXCEPT ![v] = Copy(v, Len(revisions[v]) + 1)]
  /\ UNCHANGED <<standard, version, entries, rounds, items, work>>

\* The published revisions of a version are archived and one is published.
Published(v, n) ==
  [m \in DOMAIN revisions[v] |->
     [clauses |-> revisions[v][m].clauses,
      status  |-> IF m = n THEN "published"
                  ELSE IF revisions[v][m].status = "published" THEN "archived"
                  ELSE revisions[v][m].status]]

\* Mutant of PublishRevision: the copy is left as it is.
PublishOnlyRevision(v, n) ==
  /\ n \in DOMAIN revisions[v]
  /\ revisions' = [revisions EXCEPT ![v] = Published(v, n)]
  /\ version' = [version EXCEPT ![v] = "active"]
  /\ UNCHANGED <<standard, latest, entries, rounds, items, work>>

\* The status of the standard is not changed.
PublishRevision(v, n) ==
  /\ n \in DOMAIN revisions[v]
  /\ revisions' = [revisions EXCEPT ![v] = Published(v, n)]
  /\ latest' = [latest EXCEPT ![v] = Copy(v, n)]
  /\ version' = [version EXCEPT ![v] = "active"]
  /\ UNCHANGED <<standard, entries, rounds, items, work>>

PublishVersion(v) ==
  /\ version[v] # "absent"
  /\ revisions' = [revisions EXCEPT ![v] = Published(v, Len(@))]
  /\ latest' = [latest EXCEPT ![v] = Copy(v, Len(revisions[v]))]
  /\ version' = [version EXCEPT ![v] = "active"]
  /\ standard' = "active"
  /\ UNCHANGED <<entries, rounds, items, work>>

AbolishVersion(v) ==
  /\ version[v] # "absent"
  /\ version' = [version EXCEPT ![v] = "obsolete"]
  /\ standard' = IF \A w \in Versions : version'[w] # "active" THEN "obsolete" ELSE standard
  /\ UNCHANGED <<revisions, latest, entries, rounds, items, work>>

-----------------------------------------------------------------------------
(* Rounds and their standards.                                             *)

\* The list of the previous round is copied, the entries in it are not.
CreateRound ==
  /\ Len(rounds) < MaxRounds
  /\ rounds' = Append(rounds, rounds[Len(rounds)])
  /\ UNCHANGED <<catalog, entries, items, work>>

AddStandard(r, v) ==
  /\ version[v] # "absent"
  /\ Len(entries) < MaxEntries
  /\ entries' = Append(entries, [version |-> v, confirmed |-> 0])
  /\ rounds' = [rounds EXCEPT ![r] = @ \cup {Len(entries) + 1}]
  /\ UNCHANGED <<catalog, items, work>>

\* The entry bears the name of the round that confirmed it last.
ConfirmStandard(r, e) ==
  /\ e \in rounds[r]
  /\ entries' = [entries EXCEPT ![e].confirmed = r]
  /\ UNCHANGED <<catalog, rounds, items, work>>

-----------------------------------------------------------------------------
(* Dynamic items.                                                          *)

ClausesOf(v) == {<<v, latest[v].no, c>> : c \in latest[v].clauses}

\* The clauses of the standards that are confirmed in a round.
Expected(r) ==
  UNION {ClausesOf(entries[e].version) : e \in {e \in rounds[r] : entries[e].confirmed # 0}}

Known(r) == {i.clause : i \in {i \in items : i.round = r}}

\* Listing, deciding (which lists first) and testing whether a report can be
\* published begin with the items that there are.
BeginList(t, r, then) ==
  /\ work[t] = None
  /\ work' = [work EXCEPT ![t] = [round |-> r, known |-> Known(r), then |-> then]]
  /\ UNCHANGED <<catalog, entries, rounds, items>>

\* An item that was not known is put, also over one that is there by now.
CommitList(t) ==
  /\ work[t] # None
  /\ "known" \in DOMAIN work[t]
  /\ LET r == work[t].round
         missing == Expected(r) \ work[t].known
     IN items' = {i \in items : i.round # r \/ i.clause \notin missing}
                 \cup {[round |-> r, clause |-> c, status |-> "to_confirm"] : c \in missing}
  /\ work' = [work EXCEPT ![t] =
       IF work[t].then = "list" THEN None ELSE [round |-> work[t].round, decision |-> work[t].then]]
  /\ UNCHANGED <<catalog, entries, rounds>>

DecideItem(t, i) ==
  /\ work[t] # None
  /\ "decision" \in DOMAIN work[t]
  /\ i.round = work[t].round
  /\ items' = (items \ {i}) \cup {[i EXCEPT !.status = work[t].decision]}
  /\ work' = [work EXCEPT ![t] = None]
  /\ UNCHANGED <<catalog, entries, rounds>>

\* There is no such item.
DecideNothing(t) ==
  /\ work[t] # None
  /\ "decision" \in DOMAIN work[t]
  /\ work' = [work EXCEPT ![t] = None]
  /\ UNCHANGED <<catalog, entries, rounds, items>>

-----------------------------------------------------------------------------

Next ==
  \/ \E v \in Versions :
       \/ \E status \in Statuses \ {"absent"} : CreateVersion(v, status)
       \/ \E C \in SUBSET Codes : CreateRevision(v, C)
       \/ \E n \in DOMAIN revisions[v] : PublishRevision(v, n)
       \/ PublishVersion(v)
       \/ AbolishVersion(v)
  \/ CreateRound
  \/ \E r \in DOMAIN rounds :
       \/ \E v \in Versions : AddStandard(r, v)
       \/ \E e \in rounds[r] : ConfirmStandard(r, e)
       \/ \E t \in Threads, then \in Decisions \cup {"list"} : BeginList(t, r, then)
  \/ \E t \in Threads :
       \/ CommitList(t)
       \/ DecideNothing(t)
       \/ \E i \in items : DecideItem(t, i)

Spec == Init /\ [][Next]_vars

-----------------------------------------------------------------------------
(* Properties.                                                             *)

\* The copy that a version shows, and that items are made from, is one of its
\* revisions as it is now: publishing, archiving and revising keep both in step,
\* whichever revision is published.
LatestIsCurrent ==
  \A v \in Versions : version[v] # "absent" =>
    LET n == latest[v].no IN
    /\ n \in DOMAIN revisions[v]
    /\ revisions[v][n] = [clauses |-> latest[v].clauses, status |-> latest[v].status]

\* A reviewer's decision stands until another one.  The code does not keep this:
\* a list that began before the items were there puts them over the decided ones.
DecisionsStand ==
  [][\A i \in items : i.status # "to_confirm" =>
       \E j \in items' : j.round = i.round /\ j.clause = i.clause /\ j.status # "to_confirm"]_vars

\* A round's entry is confirmed for that round.  The code does not keep this: the
\* entry is shared with the next round, which may confirm it.
ConfirmedHere ==
  \A r \in DOMAIN rounds : \A e \in rounds[r] : entries[e].confirmed \in {0, r}
=============================================================================
