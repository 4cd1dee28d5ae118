SPECIFICATION Spec
CONSTANTS
  DEPTH_SPEC = 4
  DEPTH_COMMIT = 4
  MaxOps = 3
  Store = {1, 2, 3}
  Empty = Empty
  AmoInterruptible = TRUE
  StepOverStores = FALSE
INVARIANTS
  AmoNotAbandoned
