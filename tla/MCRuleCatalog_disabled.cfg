\* A version is disabled that others depend on or packs hold, two packs hold different versions
\* of a rule; each property is refuted by itself.
SPECIFICATION Spec
CONSTANTS
  a = a
  b = b
  p1 = p1
  p2 = p2
  t1 = t1
  t2 = t2
  Rules = {a, b}
  MaxVersions <- TwoOfEach
  Depends <- Circular
  Packs = {p1, p2}
  Packed = {a}
  MaxRounds = 2
  Threads = {t1, t2}
  SerialStore = TRUE
INVARIANTS
  DependenciesPublished
  OneVersionPerRound
PROPERTY AssembledFromPublished
