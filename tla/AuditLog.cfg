SPECIFICATION Spec
CONSTANTS
  Writers = {w1, w2}
  NoOne = NoOne
  Max = 3
  LogBound = 5
  EditBound = 1
INVARIANTS
  ChainLinked
  CopyIsARing
  EditsDetected
  GrowingLogVerifies
