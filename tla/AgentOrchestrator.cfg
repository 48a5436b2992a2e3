SPECIFICATION Spec
CONSTANTS
  Handlers = {h1, h2}
  Hashes = {a, b}
  Objects = {o1, o2, o3}
  Tasks = {k1, k2, k3}
  Priorities = {1}
  Nothing = Nothing
  Nobody = Nobody
  InitialTrusts = {28}
  TokenBudget = 40
  RestartBound = 1
INVARIANTS TasksRunOnce LowTrustIsTransient QueuedAreRegistered
SYMMETRY Symmetry
