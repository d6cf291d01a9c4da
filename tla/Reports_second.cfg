\* Serializable transactions: the first report of a second round is refused.
SPECIFICATION Spec
CONSTANTS
  None = None
  Base = 3
  Width = 2
  MaxTasks = 1
  MaxRounds = 2
  MaxReports = 2
  Threads = {t1, t2}
  MaxFaults = 1
  SerialStore = TRUE
  AdvisoryLock = TRUE
INVARIANT EveryRoundReports
