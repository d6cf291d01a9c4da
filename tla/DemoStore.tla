------------------------------ MODULE DemoStore -----------------------------
(***************************************************************************)
(* The parts of the in-memory store that share no objects, beside one      *)
(* another: a task file, the audit of a round, the standards and the rules.*)
(* A behaviour exercises one of them, the others wait in their initial     *)
(* states.                                                                 *)
(***************************************************************************)
EXTENDS DemoFiles

CONSTANTS
  AuditRules, MaxRuns, MaxRequests,             \* audit
  Versions, Codes, MaxRevisions, MaxEntries,    \* standards
  Rules, Seeded, Depends, MaxVersions, MaxExecutors, Packs, Packed, Copiers,  \* rules
  MaxRounds,                                    \* bound on the rounds of the task
  Idle                                          \* what an idle thread holds

VARIABLES
  part,                                                              \* the part that moves
  round, runs, exec, auditJob, issue, reports, place, at, requests,  \* audit
  standard, version, revisions, latest, entries, rounds, items, listing,  \* standards
  executors, rule, ruleVersions, packs, ruleRounds, copying          \* rules

Auditing == INSTANCE DemoAudit WITH
  Rules <- AuditRules, job <- auditJob, pc <- place

Standards == INSTANCE DemoStandards WITH
  None <- Idle, work <- listing

Catalog == INSTANCE DemoRules WITH
  Threads <- Copiers, None <- Idle, versions <- ruleVersions, rounds <- ruleRounds

ASSUME DemoStoreAssumption ==
  /\ MaxRuns \in Nat /\ MaxRequests \in Nat
  /\ MaxRounds \in Nat \ {0} /\ MaxExecutors \in Nat \ {0}
  /\ AuditRules # {}
  /\ Seeded \subseteq Rules
  /\ Depends \in [Rules -> SUBSET SUBSET Rules]

auditVars == <<round, runs, exec, auditJob, issue, reports, place, at, requests>>
standardVars == <<standard, version, revisions, latest, entries, rounds, items, listing>>
ruleVars == <<executors, rule, ruleVersions, packs, ruleRounds, copying>>

demoVars == <<vars, auditVars, standardVars, ruleVars, part>>

DemoInit ==
  /\ part \in {"files", "audit", "standards", "rules"}
  /\ Init /\ Auditing!Init /\ Standards!Init /\ Catalog!Init

DemoNext ==
  /\ UNCHANGED part
  /\ \/ part = "files" /\ Next /\ UNCHANGED <<auditVars, standardVars, ruleVars>>
     \/ part = "audit" /\ Auditing!Next /\ UNCHANGED <<vars, standardVars, ruleVars>>
     \/ part = "standards" /\ Standards!Next /\ UNCHANGED <<vars, auditVars, ruleVars>>
     \/ part = "rules" /\ Catalog!Next /\ UNCHANGED <<vars, auditVars, standardVars>>

DemoSpec == DemoInit /\ [][DemoNext]_demoVars

-----------------------------------------------------------------------------

\* Every part's variables have their types.
DemoTypeOK == TypeOK /\ Auditing!TypeOK /\ Standards!TypeOK /\ Catalog!TypeOK

\* Audit: a run that is handed back instead of a new one is still to be answered.
QueuedRunUnanswered == Auditing!QueuedRunUnanswered

\* Standards: the copy that a version shows is one of its revisions, as it is now.
LatestIsCurrent == Standards!LatestIsCurrent

\* Rules: what a rule's row shows, its versions and the graph of their dependencies.
ShownRulesUsable == Catalog!ShownRulesUsable

-----------------------------------------------------------------------------
(* What the code does not keep (MCDemoStore_refuted).                      *)

\* Audit: two reports created at the same time.
DistinctVersions == Auditing!DistinctVersions

\* Standards: a listing that began before a decision.
DecisionsStand == Standards!DecisionsStand

\* Standards: a selection shared with the next round.
ConfirmedHere == Standards!ConfirmedHere
=============================================================================
