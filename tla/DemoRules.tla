------------------------------ MODULE DemoRules ------------------------------
(***************************************************************************)
(* The rule catalog of the in-memory store: rules with their versions,     *)
(* versions of the executor that runs them, packs, and the rules that      *)
(* the rounds of a task take from the packs.  A rule keeps a status and    *)
(* the number of the version it shows beside the list of its versions.     *)
(*                                                                         *)
(* Every method that writes holds the store's lock, so that it is one      *)
(* step; a copy reads the version before it, and takes the lock only to    *)
(* create the new one.  Parameters and stages, which never change, are     *)
(* left out, and so is what decides which packs apply to a round: any may. *)
(* A version is a pair <<rule, number>>, numbers being given in order.     *)
(***************************************************************************)
EXTENDS Integers, Sequences

CONSTANTS
  Rules,         \* rule codes
  Seeded,        \* the rules that are there from the start, with a version
  Depends,       \* Depends[r]: the sets of rules a version of r may depend on
  MaxVersions,   \* MaxVersions[r]: bound on the versions of r
  MaxExecutors,  \* bound on the versions of the executor
  Packs,         \* rule packs
  Packed,        \* the rules whose versions are put into packs
  MaxRounds,     \* bound on the rounds of the task
  Threads,       \* API threads
  None           \* what an idle thread holds

VARIABLES
  executors,  \* status of the versions of the executor, in order of creation
  rule,       \* rule[r]: status of the rule, and the version it shows
  versions,   \* versions[r]: its versions, in order of creation
  packs,      \* packs[p]: its status and its members
  rounds,     \* rounds[k]: the rules of round k
  copying     \* copying[t]: the copy that t has read and numbered

catalog == <<executors, rule, versions>>
vars == <<catalog, packs, rounds, copying>>

Version ==
  [status : {"draft", "published", "archived", "disabled"},
   deps : SUBSET Rules, executor : 1..MaxExecutors]

Ids == UNION {{r} \X (1..MaxVersions[r]) : r \in Rules}

\* Disabled and archived packs are as good as drafts.
PackStatus == {"absent", "draft", "published"}

TypeOK ==
  /\ executors \in Seq({"draft", "published"})
  /\ rule \in [Rules -> [status : {"absent", "draft", "published", "disabled"},
                         shows : Nat]]
  /\ versions \in [Rules -> Seq(Version)]
  /\ packs \in [Packs -> [status : PackStatus, members : SUBSET Ids]]
  /\ rounds \in Seq(SUBSET Ids)
  /\ DOMAIN copying = Threads

SeedVersion == [status |-> "published", deps |-> {}, executor |-> 1]

\* A seeded rule shows its published version, which runs the seeded executor.
Init ==
  /\ executors = <<"published">>
  /\ rule = [r \in Rules |-> IF r \in Seeded THEN [status |-> "published", shows |-> 1]
                             ELSE [status |-> "absent", shows |-> 0]]
  /\ versions = [r \in Rules |->
       IF r \in Seeded THEN <<SeedVersion>> ELSE <<>>]
  /\ packs = [p \in Packs |-> [status |-> "absent", members |-> {}]]
  /\ rounds = <<>>
  /\ copying = [t \in Threads |-> None]

Exists(v) == v[2] \in DOMAIN versions[v[1]]

At(v) == versions[v[1]][v[2]]

-----------------------------------------------------------------------------
(* Executors, rules and their versions.                                    *)

CreateExecutorVersion(status) ==
  /\ Len(executors) < MaxExecutors
  /\ executors' = Append(executors, status)
  /\ UNCHANGED <<rule, versions, packs, rounds, copying>>

CreateRule(r) ==
  /\ rule[r].status = "absent"
  /\ rule' = [rule EXCEPT ![r].status = "draft"]
  /\ UNCHANGED <<executors, versions, packs, rounds, copying>>

\* Without a version named, the executor's oldest published one is taken.
Oldest(e) ==
  /\ executors[e] = "published"
  /\ \A d \in 1..(e - 1) : executors[d] # "published"

Drafted(r, D, e) ==
  versions' = [versions EXCEPT ![r] =
    Append(@, [status |-> "draft", deps |-> D, executor |-> e])]

CreateVersion(r, D) ==
  /\ rule[r].status # "absent"
  /\ Len(versions[r]) < MaxVersions[r]
  /\ \E e \in DOMAIN executors : Oldest(e) /\ Drafted(r, D, e)
  /\ UNCHANGED <<executors, rule, packs, rounds, copying>>

\* A version of the executor that is named may be a draft.
CreateVersionFor(r, D, e) ==
  /\ rule[r].status # "absent"
  /\ Len(versions[r]) < MaxVersions[r]
  /\ Drafted(r, D, e)
  /\ UNCHANGED <<executors, rule, packs, rounds, copying>>

BeginCopy(t, v) ==
  /\ copying[t] = None
  /\ Exists(v)
  /\ Len(versions[v[1]]) < MaxVersions[v[1]]
  /\ copying' = [copying EXCEPT ![t] = [version |-> v, number |-> Len(versions[v[1]]) + 1]]
  /\ UNCHANGED <<catalog, packs, rounds>>

\* A number that has been given meanwhile is refused.
CommitCopy(t) ==
  /\ copying[t] # None
  /\ LET v == copying[t].version
         r == v[1]
     IN IF copying[t].number = Len(versions[r]) + 1
        THEN Drafted(r, At(v).deps, At(v).executor)
        ELSE UNCHANGED versions
  /\ copying' = [copying EXCEPT ![t] = None]
  /\ UNCHANGED <<executors, rule, packs, rounds>>

-----------------------------------------------------------------------------
(* Publication.                                                            *)

PublishedOf(r) == {n \in DOMAIN versions[r] : versions[r][n].status = "published"}

\* The first published version of a rule in its list.
First(N) == {n \in N : \A m \in N : n <= m}

\* Mutant of Graph: the version is validated without the others' dependencies.
OwnGraph(v) == [r \in Rules |-> IF r = v[1] THEN At(v).deps ELSE {}]

Graph(v) ==
  [r \in Rules |-> IF r = v[1] THEN At(v).deps
                   ELSE UNION {versions[r][n].deps : n \in First(PublishedOf(r))}]

Known(v) == {r \in Rules : PublishedOf(r) # {}} \cup {v[1]}

\* No cycle: every set of rules has one that depends on none of the set.
Acyclic(graph) ==
  \A S \in SUBSET Rules : S # {} => \E r \in S : graph[r] \cap S = {}

Valid(v) ==
  /\ executors[At(v).executor] = "published"
  /\ \A r \in Known(v) : Graph(v)[r] \subseteq Known(v)
  /\ Acyclic(Graph(v))

\* The others that are published are archived, and the rule shows this one.
PublishVersion(v) ==
  /\ Exists(v)
  /\ Valid(v)
  /\ LET S == versions[v[1]]
         Status(n) == IF n = v[2] THEN "published"
                      ELSE IF S[n].status = "published" THEN "archived" ELSE S[n].status
     IN versions' = [versions EXCEPT ![v[1]] =
          [n \in DOMAIN S |-> [S[n] EXCEPT !.status = Status(n)]]]
  /\ rule' = [rule EXCEPT ![v[1]] = [status |-> "published", shows |-> v[2]]]
  /\ UNCHANGED <<executors, packs, rounds, copying>>

\* The rule is disabled with the version that it shows.
DisableVersion(v) ==
  /\ Exists(v)
  /\ At(v).status # "archived"
  /\ versions' = [versions EXCEPT ![v[1]][v[2]].status = "disabled"]
  /\ rule' = [rule EXCEPT ![v[1]].status = IF rule[v[1]].shows = v[2] THEN "disabled" ELSE @]
  /\ UNCHANGED <<executors, packs, rounds, copying>>

-----------------------------------------------------------------------------
(* Packs and rounds.                                                       *)

\* A published pack is not empty, and members are published when it is saved.
Acceptable(M, status) ==
  /\ \A v \in M : At(v).status = "published"
  /\ status = "published" => M # {}

SavePack(p, M, status) ==
  /\ Acceptable(M, status)
  /\ packs' = [packs EXCEPT ![p] = [status |-> status, members |-> M]]
  /\ UNCHANGED <<catalog, rounds, copying>>

CreatePack(p, M, status) ==
  /\ packs[p].status = "absent"
  /\ SavePack(p, M, status)

\* An update that names no members is refused for those that it has, when they
\* are published no more.
UpdatePack(p, M, status) ==
  /\ packs[p].status # "absent"
  /\ SavePack(p, M, status)

\* A task comes with its first round.
CreateTask ==
  /\ rounds = <<>>
  /\ rounds' = <<{}>>
  /\ UNCHANGED <<catalog, packs, copying>>

\* A new round copies the rules of the one before, unless told not to.
CreateRound(inherit) ==
  /\ Len(rounds) \in 1..(MaxRounds - 1)
  /\ rounds' = Append(rounds, IF inherit THEN rounds[Len(rounds)] ELSE {})
  /\ UNCHANGED <<catalog, packs, copying>>

\* A round without rules takes those of the published packs that apply to it,
\* whatever has become of the versions.
AssembleRules(k) ==
  /\ rounds[k] = {}
  /\ \E P \in SUBSET {p \in Packs : packs[p].status = "published"} :
       rounds' = [rounds EXCEPT ![k] = UNION {packs[p].members : p \in P}]
  /\ UNCHANGED <<catalog, packs, copying>>

-----------------------------------------------------------------------------

Packable == {v \in Ids : v[1] \in Packed /\ Exists(v)}

Next ==
  \/ \E status \in {"draft", "published"} : CreateExecutorVersion(status)
  \/ \E r \in Rules :
       \/ CreateRule(r)
       \/ \E D \in Depends[r] :
            CreateVersion(r, D) \/ \E e \in DOMAIN executors : CreateVersionFor(r, D, e)
  \/ \E v \in Ids :
       \/ PublishVersion(v)
       \/ DisableVersion(v)
       \/ \E t \in Threads : BeginCopy(t, v)
  \/ \E t \in Threads : CommitCopy(t)
  \/ \E p \in Packs, status \in {"draft", "published"} :
       \E M \in SUBSET Packable : CreatePack(p, M, status) \/ UpdatePack(p, M, status)
  \/ CreateTask
  \/ \E inherit \in BOOLEAN : CreateRound(inherit)
  \/ \E k \in DOMAIN rounds : AssembleRules(k)

Spec == Init /\ [][Next]_vars

-----------------------------------------------------------------------------
(* Properties.                                                             *)

PublishedDeps ==
  [r \in Rules |-> UNION {versions[r][n].deps : n \in PublishedOf(r)}]

\* A rule that the list shows as published has one published version, the one it
\* shows, on an executor that may be used, and the published rules do not depend
\* on each other in a circle: publishing, disabling and copying keep the rule's
\* row, its versions and the graph together, in whatever order they come.
ShownRulesUsable ==
  /\ \A r \in Rules :
       PublishedOf(r) = IF rule[r].status = "published" THEN {rule[r].shows} ELSE {}
  /\ \A r \in Rules : \A n \in PublishedOf(r) : executors[versions[r][n].executor] = "published"
  /\ Acyclic(PublishedDeps)
=============================================================================
