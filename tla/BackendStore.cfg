SPECIFICATION StoreSpec
CONSTANTS
  Ips = {i1, i2}
  NoClient = NoClient
  RateLimit = 2
  Window = 1
  StartBound = 1
  Agents = {a}
  Trusts = {1, 2}
  Clients = {c1, c2}
  NoRow = NoRow
  VersionBound = 2
INVARIANTS
  AtMostLimit
  RefusalsAreEarned
  TrailNamesAgents
PROPERTIES
  NoLostUpdate
SYMMETRY Symmetry
