SPECIFICATION CacheSpec
CONSTANTS
  CacheKeys = {k1, k2, k3}
  Values = {v1, v2}
  None = None
  Ttl = 2
  Capacity = 2
  LastTick = 4
INVARIANTS
  RecentlyUsedStay
PROPERTIES
  ImplementsCache
