SPECIFICATION DiscoverySpec
CONSTANTS
  sa = sa
  sb = sb
  sc = sc
  ask = ask
  ASK = ASK
  near = near
  far = far
  eu = eu
  us = us
  k = k
  GL = GL
  NoList = NoList
  Threads = {t1, t2}
  SkillIds = {sa, sb, sc}
  Queries = {ask, ASK}
  Keys = {k}
  Rows <- MCRows
  Region <- MCRegion
  CacheKey <- MCCacheKey
  Score <- MCScore
  TopK = 2
  Renames <- MCRenames
  ChangeBound = 3
  AliasBound = 2
INVARIANTS
  CacheIsCurrent
  BestOfEachKind
  RenamesEnd
SYMMETRY ThreadSymmetry
