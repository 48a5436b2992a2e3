SPECIFICATION L3Spec
CONSTANTS
  Instructions = {i1, i2}
  ContextWindow = 64
  ReservedTokens = 4
  WordCounts = {0, 3, 39, 45}
  Weights = {1, 2}
  ContextTokens = {0, 10}
  Nothing = Nothing
  LateBound = 1
  EditBound = 2
INVARIANTS
  ReloadRecovers
  DroppedWouldNotFit
  AppliedAreHashed
SYMMETRY Symmetry
