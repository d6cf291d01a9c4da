\* Two rules that may depend on each other, a pack, two rounds, two threads.
SPECIFICATION Spec
CONSTANTS
  a = a
  b = b
  p1 = p1
  p2 = p2
  t1 = t1
  t2 = t2
  Rules = {a, b}
  MaxVersions <- TwoOfEach
  Depends <- Circular
  Packs = {p1}
  Packed = {a}
  MaxRounds = 2
  Threads = {t1, t2}
  SerialStore = TRUE
SYMMETRY ThreadSymmetry
INVARIANTS
  OnePublished
  PublishedAcyclic
  OnlyReleasedUsed
PROPERTY RoundRulesFixed
