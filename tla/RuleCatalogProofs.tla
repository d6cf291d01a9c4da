-------------------------- MODULE RuleCatalogProofs -------------------------
(***************************************************************************)
(* Proofs about RuleCatalog, for any rules, packs, rounds and threads.     *)
(*                                                                         *)
(* The types, the origin of a round's rules and their finality hold on     *)
(* either isolation of the store.  One published version per rule and the  *)
(* absence of circles need serializable transactions, SerialStore: what a  *)
(* publication has validated is then still so when it writes.              *)
(***************************************************************************)
EXTENDS RuleCatalog, TLAPS

\* A version is a rule and a number.
LEMMA VersionShape ==
  \A v \in Versions : v[1] \in Rules /\ v[2] \in Nat
<1>1. \A r \in Rules : MaxVersions[r] \in Nat
  BY CatalogAssumption
<1>. QED
  BY <1>1 DEF Versions

-----------------------------------------------------------------------------
(* Types.                                                                  *)

LEMMA TypeInit == Init => TypeOK
  BY CatalogAssumption
  DEF Init, TypeOK, Statuses, Publication, Assembly

\* Every step keeps the types.
LEMMA TypeStep == TypeOK /\ [Next]_vars => TypeOK'
<1>. SUFFICES ASSUME TypeOK, [Next]_vars PROVE TypeOK'
  OBVIOUS
<1>. USE CatalogAssumption
<1>1. ASSUME NEW r \in Rules, NEW D \in SUBSET Rules, CreateVersion(r, D) PROVE TypeOK'
  BY <1>1 DEF CreateVersion, TypeOK, Statuses, packs, VersionsOf
<1>2. ASSUME NEW v \in Versions, CopyVersion(v) PROVE TypeOK'
  <2>1. v[1] \in Rules /\ deps[v] \in SUBSET Rules
    BY VersionShape DEF TypeOK
  <2>. QED
    BY <1>1, <1>2, <2>1 DEF CopyVersion
<1>3. ASSUME NEW v \in Versions, DisableVersion(v) PROVE TypeOK'
  BY <1>3 DEF DisableVersion, TypeOK, Statuses, packs
<1>4. ASSUME NEW t \in Threads, NEW v \in Versions, CheckPublication(t, v) PROVE TypeOK'
  <2>1. publications' \subseteq Publication
    BY <1>4 DEF CheckPublication, TypeOK, Publication
  <2>. QED
    BY <1>4, <2>1 DEF CheckPublication, TypeOK, catalog, packs
<1>5. ASSUME NEW x \in publications, FindPrevious(x) PROVE TypeOK'
  <2>1. x \in Publication
    BY DEF TypeOK
  <2>2. Superseded(x.version) \in SUBSET Versions
    BY DEF Superseded, PublishedOf, VersionsOf
  <2>3. publications' \subseteq Publication
    BY <1>5, <2>1, <2>2 DEF FindPrevious, TypeOK, Publication
  <2>. QED
    BY <1>5, <2>3 DEF FindPrevious, TypeOK, catalog, packs
<1>6. ASSUME NEW x \in publications, Publish(x) PROVE TypeOK'
  <2>1. x.version \in Versions
    BY DEF TypeOK, Publication
  <2>. QED
    BY <1>6, <2>1 DEF Publish, TypeOK, Statuses, packs
<1>7. ASSUME NEW p \in Packs, NEW M \in SUBSET Packable, NEW publish \in BOOLEAN,
             SavePack(p, M, publish)
      PROVE  TypeOK'
  BY <1>7 DEF SavePack, TypeOK, Packable, catalog
<1>8. ASSUME NEW inherit \in BOOLEAN, CreateRound(inherit) PROVE TypeOK'
  BY <1>8 DEF CreateRound, TypeOK, catalog, packs
<1>9. ASSUME NEW t \in Threads, NEW k \in 1..MaxRounds, BeginAssembly(t, k) PROVE TypeOK'
  <2>1. PICK P \in SUBSET {p \in Packs : offered[p]} :
          assemblies' = assemblies \cup
            {[by |-> t, round |-> k, chosen |-> UNION {members[p] : p \in P}]}
    BY <1>9 DEF BeginAssembly
  <2>2. UNION {members[p] : p \in P} \in SUBSET Versions
    BY DEF TypeOK
  <2>3. assemblies' \subseteq Assembly
    BY <2>1, <2>2 DEF TypeOK, Assembly
  <2>. QED
    BY <1>9, <2>3 DEF BeginAssembly, TypeOK, catalog, packs
<1>10. ASSUME NEW x \in assemblies, FinishAssembly(x) PROVE TypeOK'
  <2>1. x.round \in 1..MaxRounds /\ x.chosen \in SUBSET Versions
    BY DEF TypeOK, Assembly
  <2>. QED
    BY <1>10, <2>1 DEF FinishAssembly, TypeOK, catalog, packs
<1>11. ASSUME NEW t \in Threads, RollBack(t) PROVE TypeOK'
  BY <1>11 DEF RollBack, TypeOK, catalog, packs
<1>12. CASE UNCHANGED vars
  BY <1>12 DEF vars, catalog, packs, TypeOK
<1>. QED
  BY <1>1, <1>2, <1>3, <1>4, <1>5, <1>6, <1>7, <1>8, <1>9, <1>10, <1>11, <1>12,
     CatalogAssumption DEF Next

\* The rows and the open transactions of the catalog keep their types.
THEOREM CatalogTypes == Spec => []TypeOK
<1>. QED
  BY TypeInit, TypeStep, PTL DEF Spec

-----------------------------------------------------------------------------
(* Where the rules of a round come from.                                   *)

\* What is published, packed, chosen or taken was once published.
Origin ==
  /\ \A v \in Versions : status[v] = "published" => v \in released
  /\ \A p \in Packs : members[p] \subseteq released
  /\ \A x \in assemblies : x.chosen \subseteq released
  /\ OnlyReleasedUsed

\* Nothing is published, packed, chosen or taken at first.
LEMMA OriginInit == Init => Origin
  BY DEF Init, Origin, OnlyReleasedUsed

\* Every step keeps the origin.
LEMMA OriginStep == TypeOK /\ Origin /\ [Next]_vars => Origin'
<1>. SUFFICES ASSUME TypeOK, Origin, [Next]_vars PROVE Origin'
  OBVIOUS
<1>1. ASSUME NEW r \in Rules, NEW D, CreateVersion(r, D) PROVE Origin'
  BY <1>1 DEF CreateVersion, Origin, OnlyReleasedUsed, TypeOK, packs
<1>2. ASSUME NEW v \in Versions, CopyVersion(v) PROVE Origin'
  BY <1>1, <1>2, VersionShape DEF CopyVersion
<1>3. ASSUME NEW v \in Versions, DisableVersion(v) PROVE Origin'
  BY <1>3 DEF DisableVersion, Origin, OnlyReleasedUsed, TypeOK, packs
<1>4. ASSUME NEW t \in Threads, NEW v \in Versions, CheckPublication(t, v) PROVE Origin'
  BY <1>4 DEF CheckPublication, Origin, OnlyReleasedUsed, catalog, packs
<1>5. ASSUME NEW x \in publications, FindPrevious(x) PROVE Origin'
  BY <1>5 DEF FindPrevious, Origin, OnlyReleasedUsed, catalog, packs
<1>6. ASSUME NEW x \in publications, Publish(x) PROVE Origin'
  BY <1>6 DEF Publish, Origin, OnlyReleasedUsed, packs
<1>7. ASSUME NEW p \in Packs, NEW M \in SUBSET Packable, NEW publish \in BOOLEAN,
             SavePack(p, M, publish)
      PROVE  Origin'
  <2>1. M \subseteq released
    BY <1>7 DEF SavePack, Acceptable, Packable, Origin
  <2>. QED
    BY <1>7, <2>1 DEF SavePack, Origin, OnlyReleasedUsed, TypeOK, catalog
<1>8. ASSUME NEW inherit \in BOOLEAN, CreateRound(inherit) PROVE Origin'
  <2>1. \A k \in 1..MaxRounds : rules'[k] \subseteq released
    BY <1>8, CatalogAssumption DEF CreateRound, Origin, OnlyReleasedUsed, TypeOK
  <2>. QED
    BY <1>8, <2>1 DEF CreateRound, Origin, OnlyReleasedUsed, catalog, packs
<1>9. ASSUME NEW t \in Threads, NEW k \in 1..MaxRounds, BeginAssembly(t, k) PROVE Origin'
  <2>1. PICK P \in SUBSET {p \in Packs : offered[p]} :
          assemblies' = assemblies \cup
            {[by |-> t, round |-> k, chosen |-> UNION {members[p] : p \in P}]}
    BY <1>9 DEF BeginAssembly
  <2>2. UNION {members[p] : p \in P} \subseteq released
    BY DEF Origin
  <2>3. \A x \in assemblies' : x.chosen \subseteq released
    BY <2>1, <2>2 DEF Origin
  <2>. QED
    BY <1>9, <2>3 DEF BeginAssembly, Origin, OnlyReleasedUsed, catalog, packs
<1>10. ASSUME NEW x \in assemblies, FinishAssembly(x) PROVE Origin'
  <2>1. \A k \in 1..MaxRounds : rules'[k] \subseteq released
    BY <1>10 DEF FinishAssembly, Origin, OnlyReleasedUsed, TypeOK
  <2>. QED
    BY <1>10, <2>1 DEF FinishAssembly, Origin, OnlyReleasedUsed, catalog, packs
<1>11. ASSUME NEW t \in Threads, RollBack(t) PROVE Origin'
  BY <1>11 DEF RollBack, Origin, OnlyReleasedUsed, catalog, packs
<1>12. CASE UNCHANGED vars
  BY <1>12 DEF vars, catalog, packs, Origin, OnlyReleasedUsed
<1>. QED
  BY <1>1, <1>2, <1>3, <1>4, <1>5, <1>6, <1>7, <1>8, <1>9, <1>10, <1>11, <1>12 DEF Next

\* A round runs only versions that a publication has validated.
THEOREM RoundsRunReleased == Spec => []OnlyReleasedUsed
<1>1. Origin => OnlyReleasedUsed
  BY DEF Origin
<1>. QED
  BY <1>1, TypeInit, TypeStep, OriginInit, OriginStep, PTL DEF Spec

-----------------------------------------------------------------------------
(* The rules of a round are final.                                         *)

\* The row lock: one assembly per round, of a round that exists and has no
\* rules as long as the assembly is open.
Locking ==
  /\ \A x, y \in assemblies : x.round = y.round => x = y
  /\ \A x \in assemblies : x.round <= rounds /\ rules[x.round] = {}
  /\ \A k \in 1..MaxRounds : k > rounds => rules[k] = {}

\* No assembly is open at first and no round has rules.
LEMMA LockingInit == Init => Locking
  BY DEF Init, Locking

\* Steps that touch no round and open no assembly keep the lock.
LEMMA LockingKept ==
  ASSUME Locking, UNCHANGED <<rounds, rules>>, assemblies' \subseteq assemblies
  PROVE  Locking'
  BY DEF Locking

\* Every step keeps the lock.
LEMMA LockingStep == TypeOK /\ Locking /\ [Next]_vars => Locking'
<1>. SUFFICES ASSUME TypeOK, Locking, [Next]_vars PROVE Locking'
  OBVIOUS
<1>1. ASSUME NEW inherit \in BOOLEAN, CreateRound(inherit) PROVE Locking'
  <2>1. rounds' = rounds + 1 /\ rounds \in Nat /\ assemblies' = assemblies
    BY <1>1, CatalogAssumption DEF CreateRound, TypeOK
  <2>2. \A k \in 1..MaxRounds : k # rounds + 1 => rules'[k] = rules[k]
    BY <1>1 DEF CreateRound, TypeOK
  <2>3. \A x \in assemblies : x.round \in 1..MaxRounds
    BY DEF TypeOK, Assembly
  <2>. QED
    BY <2>1, <2>2, <2>3, CatalogAssumption DEF Locking
<1>2. ASSUME NEW t \in Threads, NEW k \in 1..MaxRounds, BeginAssembly(t, k) PROVE Locking'
  <2>1. PICK C :
          assemblies' = assemblies \cup {[by |-> t, round |-> k, chosen |-> C]}
    BY <1>2 DEF BeginAssembly
  <2>2. k <= rounds /\ rules[k] = {} /\ UNCHANGED <<rounds, rules>>
    BY <1>2 DEF BeginAssembly, Unassembled
  <2>3. \A x \in assemblies : x.round # k
    BY <1>2 DEF BeginAssembly, Locked
  <2>. QED
    BY <2>1, <2>2, <2>3 DEF Locking
<1>3. ASSUME NEW x \in assemblies, FinishAssembly(x) PROVE Locking'
  <2>1. x.round \in 1..MaxRounds /\ x.round <= rounds
    BY DEF TypeOK, Assembly, Locking
  <2>2. \A k \in 1..MaxRounds : k # x.round => rules'[k] = rules[k]
    BY <1>3 DEF FinishAssembly, TypeOK
  <2>3. assemblies' = assemblies \ {x} /\ rounds' = rounds
    BY <1>3 DEF FinishAssembly
  <2>4. \A y \in assemblies' : y.round \in 1..MaxRounds /\ y.round # x.round
    BY <2>3 DEF TypeOK, Assembly, Locking
  <2>5. \A k \in 1..MaxRounds : k > rounds => k # x.round
    BY <2>1, CatalogAssumption DEF TypeOK
  <2>. QED
    BY <2>2, <2>3, <2>4, <2>5 DEF Locking
<1>4. CASE UNCHANGED <<rounds, rules>> /\ assemblies' \subseteq assemblies
  BY <1>4, LockingKept
<1>. QED
  BY <1>1, <1>2, <1>3, <1>4
  DEF Next, CreateVersion, CopyVersion, DisableVersion, CheckPublication, FindPrevious,
      Publish, SavePack, RollBack, vars

\* Once a round has rules, no step changes them.
THEOREM RulesAreFinal == Spec => RoundRulesFixed
<1>1. TypeOK /\ Locking /\ [Next]_vars =>
        [\A k \in 1..MaxRounds : rules[k] # {} => rules'[k] = rules[k]]_vars
  <2>. SUFFICES ASSUME TypeOK, Locking, [Next]_vars, NEW k \in 1..MaxRounds, rules[k] # {}
       PROVE  rules'[k] = rules[k]
    OBVIOUS
  <2>1. ASSUME NEW inherit \in BOOLEAN, CreateRound(inherit) PROVE rules'[k] = rules[k]
    <3>1. k # rounds + 1
      BY CatalogAssumption DEF Locking, TypeOK
    <3>. QED
      BY <2>1, <3>1 DEF CreateRound, TypeOK
  <2>2. ASSUME NEW x \in assemblies, FinishAssembly(x) PROVE rules'[k] = rules[k]
    <3>1. k # x.round
      BY DEF Locking
    <3>. QED
      BY <2>2, <3>1 DEF FinishAssembly, TypeOK
  <2>. QED
    BY <2>1, <2>2
    DEF Next, CreateVersion, CopyVersion, DisableVersion, CheckPublication, FindPrevious,
        Publish, SavePack, BeginAssembly, RollBack, vars
<1>. QED
  BY <1>1, TypeInit, TypeStep, LockingInit, LockingStep, PTL DEF Spec, RoundRulesFixed

-----------------------------------------------------------------------------
(* Publications on serializable transactions.                              *)

\* At most one publication is open, and what it has read is still so.
Serial ==
  /\ \A x, y \in publications : x = y
  /\ \A x \in publications :
       /\ x.was = status[x.version]
       /\ Valid(x.version)
       /\ x.step = "found" => x.previous = Superseded(x.version)

\* The state that publications keep.
Sound == OnePublished /\ PublishedAcyclic /\ Serial

\* Nothing is published at first, and what depends on nothing has no circle.
LEMMA SoundInit == Init => Sound
<1>. SUFFICES ASSUME Init PROVE Sound
  OBVIOUS
<1>1. \A r \in Rules : PublishedOf(r) = {}
  BY DEF Init, PublishedOf, VersionsOf
<1>2. PublishedAcyclic
  BY <1>1 DEF PublishedAcyclic, PublishedDeps, Acyclic
<1>. QED
  BY <1>2 DEF Init, Sound, OnePublished, Serial

\* Steps that leave the versions alone keep what was published and validated.
LEMMA SameVersions ==
  ASSUME UNCHANGED <<status, deps>>
  PROVE  /\ OnePublished' <=> OnePublished
         /\ PublishedAcyclic' <=> PublishedAcyclic
         /\ \A v : Valid(v)' <=> Valid(v)
         /\ \A v : Superseded(v)' = Superseded(v)
<1>1. \A r : PublishedOf(r)' = PublishedOf(r)
  BY DEF PublishedOf
<1>2. \A v : Superseded(v)' = Superseded(v)
  BY <1>1 DEF Superseded
<1>3. \A v : Known(v)' = Known(v) /\ Graph(v)' = Graph(v)
  BY <1>1 DEF Known, Graph
<1>4. \A v : Valid(v)' <=> Valid(v)
  BY <1>3 DEF Valid
<1>5. PublishedDeps' = PublishedDeps
  BY <1>1 DEF PublishedDeps
<1>. QED
  BY <1>2, <1>4, <1>5 DEF OnePublished, PublishedAcyclic

\* With fewer dependencies there is no new circle.
LEMMA FewerDeps ==
  ASSUME NEW g, NEW h, Acyclic(g), \A r \in Rules : h[r] \subseteq g[r]
  PROVE  Acyclic(h)
  BY DEF Acyclic

\* A change of a version that is not published, or is no longer, is harmless.
LEMMA FewerPublished ==
  ASSUME OnePublished, PublishedAcyclic,
         \A v \in Versions : status'[v] = "published" =>
                               status[v] = "published" /\ deps'[v] = deps[v]
  PROVE  OnePublished' /\ PublishedAcyclic'
<1>1. \A r \in Rules : PublishedOf(r)' \subseteq PublishedOf(r)
  BY DEF PublishedOf, VersionsOf
<1>2. \A r \in Rules : \A v \in PublishedOf(r)' : deps'[v] = deps[v]
  BY DEF PublishedOf, VersionsOf
<1>3. \A r \in Rules : PublishedDeps'[r] \subseteq PublishedDeps[r]
  BY <1>1, <1>2 DEF PublishedDeps
<1>4. PublishedAcyclic'
  BY <1>3, FewerDeps DEF PublishedAcyclic, Acyclic
<1>. QED
  BY <1>4 DEF OnePublished

\* The newest of at most one version is that version.
LEMMA NewestOfOne ==
  ASSUME OnePublished, NEW r \in Rules
  PROVE  Newest(PublishedOf(r)) = PublishedOf(r)
<1>1. \A v, w \in PublishedOf(r) : v = w /\ v[2] \in Nat
  BY VersionShape DEF OnePublished, PublishedOf, VersionsOf
<1>. QED
  BY <1>1 DEF Newest

\* A publication replaces what its rule has published by its version.
LEMMA PublishedAfter ==
  ASSUME TypeOK, Serial, NEW x \in publications, Publish(x), NEW r \in Rules
  PROVE  PublishedOf(r)' = IF r = x.version[1] THEN {x.version} ELSE PublishedOf(r)
<1>1. x.version \in Versions /\ x.was = status[x.version]
  BY DEF TypeOK, Publication, Serial
<1>2. x.previous = Superseded(x.version)
  BY DEF Publish, Serial
<1>3. \A v \in Versions :
        status'[v] = IF v = x.version THEN "published"
                     ELSE IF v \in x.previous THEN "archived" ELSE status[v]
  BY <1>1, <1>2 DEF Publish, Superseded
<1>4. \A v \in VersionsOf(r) : v \in x.previous <=>
        r = x.version[1] /\ status[v] = "published" /\ v # x.version
  BY <1>2 DEF Superseded, PublishedOf, VersionsOf
<1>. QED
  BY <1>1, <1>3, <1>4 DEF PublishedOf, VersionsOf

\* A publication leaves one version published and no circle: the graph it
\* validated is what the published versions now depend on.
LEMMA PublishSound ==
  ASSUME TypeOK, Sound, NEW x \in publications, Publish(x)
  PROVE  OnePublished' /\ PublishedAcyclic'
<1>1. \A r \in Rules :
        PublishedOf(r)' = IF r = x.version[1] THEN {x.version} ELSE PublishedOf(r)
  BY PublishedAfter DEF Sound
<1>2. OnePublished'
  <2>. SUFFICES ASSUME NEW v \in Versions, NEW w \in Versions,
                       status'[v] = "published", status'[w] = "published", v[1] = w[1]
                PROVE  v = w
    BY DEF OnePublished
  <2>1. v[1] \in Rules /\ v \in PublishedOf(v[1])' /\ w \in PublishedOf(v[1])'
    BY VersionShape DEF PublishedOf, VersionsOf
  <2>2. CASE v[1] = x.version[1]
    BY <1>1, <2>1, <2>2
  <2>3. CASE v[1] # x.version[1]
    <3>1. v \in PublishedOf(v[1]) /\ w \in PublishedOf(v[1])
      BY <1>1, <2>1, <2>3
    <3>. QED
      BY <3>1 DEF PublishedOf, Sound, OnePublished
  <2>. QED
    BY <2>2, <2>3
<1>3. PublishedDeps' = Graph(x.version)
  <2>1. deps' = deps
    BY DEF Publish
  <2>2. \A r \in Rules : r # x.version[1] =>
          Newest(PublishedOf(r)) = PublishedOf(r)
    BY NewestOfOne DEF Sound
  <2>3. \A r \in Rules : UNION {deps[w] : w \in PublishedOf(r)'} = Graph(x.version)[r]
    BY <1>1, <2>2 DEF Graph
  <2>. QED
    BY <2>1, <2>3 DEF PublishedDeps, Graph
<1>4. Acyclic(Graph(x.version))
  BY DEF Sound, Serial, Valid
<1>. QED
  BY <1>2, <1>3, <1>4 DEF PublishedAcyclic, Acyclic

\* Every step keeps it.
LEMMA SoundStep == SerialStore /\ TypeOK /\ Sound /\ [Next]_vars => Sound'
<1>. SUFFICES ASSUME SerialStore, TypeOK, Sound, [Next]_vars PROVE Sound'
  OBVIOUS
<1>1. ASSUME NEW r \in Rules, NEW D, CreateVersion(r, D) PROVE Sound'
  <2>1. publications = {} /\ publications' = {}
    BY <1>1 DEF CreateVersion, Isolated
  <2>2. \A v \in Versions : status'[v] = "published" =>
                              status[v] = "published" /\ deps'[v] = deps[v]
    BY <1>1 DEF CreateVersion, TypeOK
  <2>. QED
    BY <2>1, <2>2, FewerPublished DEF Sound, Serial
<1>2. ASSUME NEW v \in Versions, CopyVersion(v) PROVE Sound'
  BY <1>1, <1>2, VersionShape DEF CopyVersion
<1>3. ASSUME NEW v \in Versions, DisableVersion(v) PROVE Sound'
  <2>1. publications = {} /\ publications' = {}
    BY <1>3 DEF DisableVersion, Isolated
  <2>2. \A w \in Versions : status'[w] = "published" =>
                              status[w] = "published" /\ deps'[w] = deps[w]
    BY <1>3 DEF DisableVersion, TypeOK
  <2>. QED
    BY <2>1, <2>2, FewerPublished DEF Sound, Serial
<1>4. ASSUME NEW t \in Threads, NEW v \in Versions, CheckPublication(t, v) PROVE Sound'
  <2>1. UNCHANGED <<status, deps>> /\ Valid(v)
    BY <1>4 DEF CheckPublication, catalog
  <2>2. publications' = {[by |-> t, version |-> v, was |-> status[v],
                          step |-> "checked", previous |-> {}]}
    BY <1>4 DEF CheckPublication, Isolated
  <2>. QED
    BY <2>1, <2>2, SameVersions DEF Sound, Serial
<1>5. ASSUME NEW x \in publications, FindPrevious(x) PROVE Sound'
  <2>1. UNCHANGED <<status, deps>>
    BY <1>5 DEF FindPrevious, catalog
  <2>2. publications' = {[by |-> x.by, version |-> x.version, was |-> x.was,
                          step |-> "found", previous |-> Superseded(x.version)]}
    BY <1>5 DEF FindPrevious, Sound, Serial
  <2>3. x.was = status[x.version] /\ Valid(x.version)
    BY DEF Sound, Serial
  <2>. QED
    BY <2>1, <2>2, <2>3, SameVersions DEF Sound, Serial
<1>6. ASSUME NEW x \in publications, Publish(x) PROVE Sound'
  <2>1. publications' = {}
    BY <1>6 DEF Publish, Sound, Serial
  <2>. QED
    BY <1>6, <2>1, PublishSound DEF Sound, Serial
<1>7. ASSUME UNCHANGED <<status, deps>>, publications' \subseteq publications PROVE Sound'
  BY <1>7, SameVersions DEF Sound, Serial
<1>. QED
  BY <1>1, <1>2, <1>3, <1>4, <1>5, <1>6, <1>7
  DEF Next, SavePack, CreateRound, BeginAssembly, FinishAssembly, RollBack, vars, catalog

\* On serializable transactions a rule never has two published versions.
THEOREM OneVersionPublished ==
  ASSUME SerialStore
  PROVE  Spec => []OnePublished
<1>1. Sound => OnePublished
  BY DEF Sound
<1>2. TypeOK /\ Sound /\ [Next]_vars => Sound'
  BY SoundStep
<1>. QED
  BY <1>1, <1>2, TypeInit, TypeStep, SoundInit, PTL DEF Spec

\* On serializable transactions published rules never depend on each other in
\* a circle.
THEOREM NoPublishedCircle ==
  ASSUME SerialStore
  PROVE  Spec => []PublishedAcyclic
<1>1. Sound => PublishedAcyclic
  BY DEF Sound
<1>2. TypeOK /\ Sound /\ [Next]_vars => Sound'
  BY SoundStep
<1>. QED
  BY <1>1, <1>2, TypeInit, TypeStep, SoundInit, PTL DEF Spec
=============================================================================
