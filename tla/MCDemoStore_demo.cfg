\* Each part on its own instance; two API threads, who may run one job twice.
SPECIFICATION DemoSpec
CONSTANTS
  j1 = j1
  j2 = j2
  t1 = t1
  t2 = t2
  k1 = k1
  k2 = k2
  r1 = r1
  r2 = r2
  Idle = Idle
  NoJob = NoJob
  Jobs = {j1, j2}
  Threads = {t1, t2}
  MaxVersion = 2
  MaxRetries = 1
  AuditRules = {k1, k2}
  MaxRuns = 2
  MaxRequests = 3
  Versions = {v1}
  Codes = {c1}
  MaxRevisions = 2
  MaxEntries = 1
  Rules = {r1, r2}
  Seeded = {r1}
  Depends <- RuleDepends
  MaxVersions <- RuleVersions
  MaxExecutors = 2
  Packs = {p1}
  Packed = {r1}
  Copiers = {admin}
  MaxRounds = 2
SYMMETRY Symmetric
INVARIANTS
  NotLeftParsing
  QueuedRunUnanswered
  LatestIsCurrent
  ShownRulesUsable
PROPERTY ImplementsTaskFile
CHECK_DEADLOCK FALSE
