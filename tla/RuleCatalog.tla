----------------------------- MODULE RuleCatalog ----------------------------
(***************************************************************************)
(* The catalog of audit rules: versions of rules that administrators       *)
(* draft, publish and disable, packs that offer published versions, and    *)
(* the rules that a round of a task takes from the packs and keeps.        *)
(*                                                                         *)
(* A version is a pair <<rule, number>>.  Parameters, executors and audit  *)
(* stages, which never change once a version is there, are left out; so    *)
(* are the files that decide which packs apply to a round: any may.        *)
(* Publication reads and writes in three steps.  With SerialStore no other *)
(* change of the catalog falls between them; without it (PostgreSQL's      *)
(* read committed) it may.  The assembly of a round's rules holds a lock   *)
(* on the round row and is open to other transactions either way.          *)
(***************************************************************************)
EXTENDS Integers, FiniteSets

CONSTANTS
  Rules,        \* rule codes
  MaxVersions,  \* MaxVersions[r]: how many versions of r are ever drafted
  Depends,      \* Depends[r]: the sets of rules a version of r may depend on
  Packs,        \* rule packs
  Packed,       \* the rules whose versions are put into packs
  MaxRounds,    \* how many rounds the task has
  Threads,      \* API threads
  SerialStore   \* whether transactions on the catalog are serializable

ASSUME CatalogAssumption ==
  /\ MaxVersions \in [Rules -> Nat]
  /\ Depends \in [Rules -> SUBSET SUBSET Rules]
  /\ Packed \subseteq Rules
  /\ MaxRounds \in Nat
  /\ SerialStore \in BOOLEAN

VARIABLES
  status,        \* status[v]: of the rule_version row
  deps,          \* deps[v]: its dependency_rule_codes
  members,       \* members[p]: the versions in the pack
  offered,       \* offered[p]: whether the pack is published
  rounds,        \* how many rounds the task has by now
  rules,         \* rules[k]: the round_rule rows of round k
  publications,  \* open transactions that publish a version
  assemblies,    \* open transactions that assemble a round's rules
  released       \* history: the versions that were ever published

catalog == <<status, deps, released>>
packs == <<members, offered>>
vars == <<catalog, packs, rounds, rules, publications, assemblies>>

Versions == UNION {{<<r, n>> : n \in 1..MaxVersions[r]} : r \in Rules}

VersionsOf(r) == {v \in Versions : v[1] = r}

Statuses == {"absent", "draft", "published", "disabled", "archived"}

\* A publication that has validated its version, and then found the others
\* that it will archive.
Publication ==
  [by : Threads, version : Versions, was : Statuses,
   step : {"checked", "found"}, previous : SUBSET Versions]

Assembly == [by : Threads, round : 1..MaxRounds, chosen : SUBSET Versions]

TypeOK ==
  /\ status \in [Versions -> Statuses]
  /\ deps \in [Versions -> SUBSET Rules]
  /\ members \in [Packs -> SUBSET Versions]
  /\ offered \in [Packs -> BOOLEAN]
  /\ rounds \in 0..MaxRounds
  /\ rules \in [1..MaxRounds -> SUBSET Versions]
  /\ publications \subseteq Publication
  /\ assemblies \subseteq Assembly
  /\ released \subseteq Versions

Init ==
  /\ status = [v \in Versions |-> "absent"]
  /\ deps = [v \in Versions |-> {}]
  /\ members = [p \in Packs |-> {}]
  /\ offered = [p \in Packs |-> FALSE]
  /\ rounds = 0
  /\ rules = [k \in 1..MaxRounds |-> {}]
  /\ publications = {}
  /\ assemblies = {}
  /\ released = {}

-----------------------------------------------------------------------------
(* Versions of rules.                                                      *)

Isolated == SerialStore => publications = {}

Idle(t) == \A x \in publications \cup assemblies : x.by # t

\* Numbers are the order of creation.  Simultaneous creations that come to the
\* same version_no are refused by its unique constraint.
CreateVersion(r, D) ==
  /\ Isolated
  /\ \E v \in VersionsOf(r) :
       /\ status[v] = "absent"
       /\ \A w \in VersionsOf(r) : w[2] < v[2] => status[w] # "absent"
       /\ status' = [status EXCEPT ![v] = "draft"]
       /\ deps' = [deps EXCEPT ![v] = D]
  /\ UNCHANGED <<packs, rounds, rules, publications, assemblies, released>>

CopyVersion(v) ==
  /\ status[v] # "absent"
  /\ CreateVersion(v[1], deps[v])

PublishedOf(r) == {v \in VersionsOf(r) : status[v] = "published"}

Newest(V) == {v \in V : \A w \in V : w[2] <= v[2]}

\* Mutant of Graph: the version is validated without the others' dependencies.
OwnGraph(v) == [r \in Rules |-> IF r = v[1] THEN deps[v] ELSE {}]

\* The rules a validation knows and what they depend on: the newest published
\* version of each, and the version itself in place of its rule's.
Known(v) == {r \in Rules : PublishedOf(r) # {}} \cup {v[1]}

Graph(v) ==
  [r \in Rules |-> IF r = v[1] THEN deps[v]
                   ELSE UNION {deps[w] : w \in Newest(PublishedOf(r))}]

\* No cycle: every set of rules has one that depends on none of the set.
Acyclic(graph) ==
  \A S \in SUBSET Rules : S # {} => \E r \in S : graph[r] \cap S = {}

Valid(v) ==
  /\ \A r \in Known(v) : Graph(v)[r] \subseteq Known(v)
  /\ Acyclic(Graph(v))

\* Any version that exists can be published, an archived one again.
CheckPublication(t, v) ==
  /\ Isolated
  /\ Idle(t)
  /\ status[v] # "absent"
  /\ Valid(v)
  /\ publications' = publications \cup
       {[by |-> t, version |-> v, was |-> status[v], step |-> "checked", previous |-> {}]}
  /\ UNCHANGED <<catalog, packs, rounds, rules, assemblies>>

\* Mutant of Superseded: only older versions are archived.
OlderOnes(v) == {w \in PublishedOf(v[1]) : w[2] < v[2]}

Superseded(v) == PublishedOf(v[1]) \ {v}

FindPrevious(x) ==
  /\ x \in publications
  /\ x.step = "checked"
  /\ publications' = (publications \ {x}) \cup
       {[by |-> x.by, version |-> x.version, was |-> x.was,
         step |-> "found", previous |-> Superseded(x.version)]}
  /\ UNCHANGED <<catalog, packs, rounds, rules, assemblies>>

\* A version that was read as published is not written.
Publish(x) ==
  /\ x \in publications
  /\ x.step = "found"
  /\ status' = [v \in Versions |->
       IF v = x.version /\ x.was # "published" THEN "published"
       ELSE IF v \in x.previous THEN "archived"
       ELSE status[v]]
  /\ released' = released \cup {x.version}
  /\ publications' = publications \ {x}
  /\ UNCHANGED <<deps, packs, rounds, rules, assemblies>>

DisableVersion(v) ==
  /\ Isolated
  /\ status[v] \notin {"absent", "archived"}
  /\ status' = [status EXCEPT ![v] = "disabled"]
  /\ UNCHANGED <<deps, packs, rounds, rules, publications, assemblies, released>>

-----------------------------------------------------------------------------
(* Packs and rounds.                                                       *)

Packable == {v \in Versions : v[1] \in Packed}

\* Mutant of Acceptable: any version that exists may be a member.
AnyVersion(M) == \A v \in M : status[v] # "absent"

Acceptable(M) == \A v \in M : status[v] = "published"

\* A pack is created or updated; an update that names no members validates
\* those it has.  A published pack is not empty.
SavePack(p, M, publish) ==
  /\ Isolated
  /\ Acceptable(M)
  /\ publish => M # {}
  /\ members' = [members EXCEPT ![p] = M]
  /\ offered' = [offered EXCEPT ![p] = publish]
  /\ UNCHANGED <<catalog, rounds, rules, publications, assemblies>>

\* A new round copies the rules of the one before, unless told not to.
CreateRound(inherit) ==
  /\ rounds < MaxRounds
  /\ rounds' = rounds + 1
  /\ rules' = [rules EXCEPT ![rounds + 1] =
                 IF inherit /\ rounds > 0 THEN rules[rounds] ELSE {}]
  /\ UNCHANGED <<catalog, packs, publications, assemblies>>

\* Mutant of Locked: the round row is read without FOR UPDATE.
NeverLocked(k) == FALSE

Locked(k) == \E x \in assemblies : x.round = k

Unassembled(k) == rules[k] = {}

\* A round without rules takes those of the published packs that apply to it,
\* whatever has become of the versions.  A round with rules is left alone.
BeginAssembly(t, k) ==
  /\ Idle(t)
  /\ k <= rounds
  /\ ~Locked(k)
  /\ Unassembled(k)
  /\ \E P \in SUBSET {p \in Packs : offered[p]} :
       assemblies' = assemblies \cup
         {[by |-> t, round |-> k, chosen |-> UNION {members[p] : p \in P}]}
  /\ UNCHANGED <<catalog, packs, rounds, rules, publications>>

FinishAssembly(x) ==
  /\ x \in assemblies
  /\ rules' = [rules EXCEPT ![x.round] = @ \cup x.chosen]
  /\ assemblies' = assemblies \ {x}
  /\ UNCHANGED <<catalog, packs, rounds, publications>>

\* An error or a crash rolls an open transaction back.
RollBack(t) ==
  /\ ~Idle(t)
  /\ publications' = {x \in publications : x.by # t}
  /\ assemblies' = {x \in assemblies : x.by # t}
  /\ UNCHANGED <<catalog, packs, rounds, rules>>

Next ==
  \/ \E r \in Rules : \E D \in Depends[r] : CreateVersion(r, D)
  \/ \E v \in Versions : CopyVersion(v) \/ DisableVersion(v)
  \/ \E t \in Threads, v \in Versions : CheckPublication(t, v)
  \/ \E x \in publications : FindPrevious(x) \/ Publish(x)
  \/ \E p \in Packs, M \in SUBSET Packable, publish \in BOOLEAN : SavePack(p, M, publish)
  \/ \E inherit \in BOOLEAN : CreateRound(inherit)
  \/ \E t \in Threads, k \in 1..MaxRounds : BeginAssembly(t, k)
  \/ \E x \in assemblies : FinishAssembly(x)
  \/ \E t \in Threads : RollBack(t)

Spec == Init /\ [][Next]_vars

-----------------------------------------------------------------------------
(* Properties.                                                             *)

\* A rule never has two published versions: publish_rule_version archives the
\* others, whichever of them is newer.
OnePublished ==
  \A v, w \in Versions :
    status[v] = "published" /\ status[w] = "published" /\ v[1] = w[1] => v = w

\* What the published version of each rule depends on.
PublishedDeps == [r \in Rules |-> UNION {deps[v] : v \in PublishedOf(r)}]

\* The published rules never depend on each other in a circle, although each
\* publication is validated against those that are published at its time.
PublishedAcyclic == Acyclic(PublishedDeps)

\* A round only ever runs versions that passed the validation of a publication,
\* through whatever packs, copies from earlier rounds and assemblies they came.
OnlyReleasedUsed == \A k \in 1..MaxRounds : rules[k] \subseteq released

\* The rules of a round, once it has some, are those of its report: no repeated
\* or simultaneous assembly and no later change of packs or versions alters them.
RoundRulesFixed ==
  [][\A k \in 1..MaxRounds : rules[k] # {} => rules'[k] = rules[k]]_vars

\* What a round takes from the packs is published when it takes it.
AssembledFromPublished ==
  [][\A x \in assemblies' \ assemblies : \A v \in x.chosen : status[v] = "published"]_vars

\* Every rule that a published version depends on is published.
DependenciesPublished ==
  \A r \in Rules : \A d \in PublishedDeps[r] : PublishedOf(d) # {}

\* A round runs one version of a rule.
OneVersionPerRound ==
  \A k \in 1..MaxRounds : \A v, w \in rules[k] : v[1] = w[1] => v = w
=============================================================================
