SPECIFICATION AdmissionSpec
CONSTANTS
  Threads = {t1, t2}
  Skills = {s1, s2}
  Objects = {o1, o2}
  Nothing = Nothing
  RareAccessThreshold = 3
  MaxSkills = 1
  CountCap = 3
  EnforceSignatures = TRUE
  HasVerifier = TRUE
  Signatures = {"none", "factory", "foreign"}
  EditBound = 1
INVARIANTS
  AdmittedAreSigned
PROPERTIES
  P0NeverPurged
  EvictionIsFair
  ServedSkillsStay
SYMMETRY Symmetry
