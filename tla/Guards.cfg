SPECIFICATION ApartSpec
CONSTANTS
  Callers = {c1, c2}
  Names = {l3a, l3b}
  Objects = {o1, o2, o3}
  NoObject = NoObject
  FailureThreshold = 2
  SuccessThreshold = 1
  RecoveryTimeout = 1
  CountCap = 2
  Threads = {t1, t2}
  Sessions = {s1}
  Intents = {a, b}
  LoopThreshold = 3
INVARIANTS
  OneBreakerPerName
PROPERTIES
  ResetForgets
  AbortMeansLoop
  NoLoopOutlivesTheDeque
SYMMETRY Symmetry
