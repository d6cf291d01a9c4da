\* Each part on its own instance; the catalog's transactions are serializable,
\* those of the others overlap.
SPECIFICATION DeskSpec
CONSTANTS
  s1 = s1
  v1 = v1
  v2 = v2
  t1 = t1
  t2 = t2
  x1 = x1
  x2 = x2
  None = None
  Standards = {s1}
  Versions = {v1, v2}
  StandardOf <- OneStandard
  Codes = {c1}
  MaxRevisions = 2
  Rounds = {r1}
  Threads = {t1, t2}
  SerialStore = TRUE
  Users = {u1}
  MaxPasswords = 3
  MaxSessions = 3
  Contents = {x1, x2}
  MaxUpload = 2
  MaxKeys = 3
  Base = 3
  Width = 1
  MaxNumbers = 3
  MaxTasks = 1
  MaxTaskRounds = 2
  MaxReports = 3
  MaxFaults = 1
SYMMETRY Symmetric
INVARIANTS
  OnePublishedRevision
  StandardFollowsVersions
  GateMeansReviewed
  ChangeEndsSessions
  StoredFilesExist
  NumberedUntilFull
  PublishedFilesOwn
PROPERTY ChangesInTurn
