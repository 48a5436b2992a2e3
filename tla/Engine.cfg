SPECIFICATION Spec
CONSTANTS
  Threads = {t1, t2}
  Sessions = {n1}
  Prompts = {ask, ASK, bad}
  Regions = {eu, us}
  Skills = {s1, s2}
  Tags = {med, MED}
  s1 = s1
  s2 = s2
  ask = ask
  ASK = ASK
  bad = bad
  ignore = ignore
  eu = eu
  us = us
  gl = gl
  none = none
  med = med
  MED = MED
  Nothing = none
  GL = gl
  Blank = {}
  Jailbreaks = {}
  Overrides = {ignore}
  Blobs <- MCBlobs
  Backend <- MCBackend
  StrictMode = TRUE
  LowerTag <- MCLowerTag
  MedicalTags = {med}
  MedicalRegions = {eu, us}
  ExtraBlocked <- MCBlocked
  Norm <- MCNorm
  Indexed <- Regional
  Score <- Mixed
  Entries <- MCEntries
  FirstRegistry <- Moved
  MayOverrun = {s2}
  UpdateBound = 1
  FailureThreshold = 1
  SuccessThreshold = 1
  RecoveryTimeout = 1
  CountCap = 1
SYMMETRY ThreadSymmetry
VIEW View
PROPERTIES
  TripsAreOwnFault
  OutputsArePermitted
