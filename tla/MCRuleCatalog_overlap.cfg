\* Read committed: two publications at the same time; each property is refuted.
SPECIFICATION Spec
CONSTANTS
  a = a
  b = b
  p1 = p1
  p2 = p2
  t1 = t1
  t2 = t2
  Rules = {a, b}
  MaxVersions <- TwoOfEach
  Depends <- Circular
  Packs = {}
  Packed = {a}
  MaxRounds = 0
  Threads = {t1, t2}
  SerialStore = FALSE
INVARIANTS OnePublished PublishedAcyclic
