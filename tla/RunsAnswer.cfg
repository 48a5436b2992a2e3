SPECIFICATION Spec
CONSTANTS
  Handlers = {h1}
  Hashes = {a}
  Objects = {o1}
  Tasks = {k1}
  Priorities = {1}
  Nothing = Nothing
  Nobody = Nobody
  InitialTrusts = {28}
  TokenBudget = 40
  RestartBound = 0
PROPERTIES RunsAnswer
