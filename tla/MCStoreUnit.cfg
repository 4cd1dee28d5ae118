SPECIFICATION FairSpec
CONSTANTS
  DEPTH_SPEC = 2
  DEPTH_COMMIT = 2
  MaxOps = 4
  Store = {1, 2, 3, 4}
  Empty = Empty
  AmoInterruptible = FALSE
  StepOverStores = FALSE
INVARIANTS
  RingsConsistent
  BuffersConsistent
  MemoryFollowsRetirement
  AssertionsHold
PROPERTIES
  ImplementsStoreQueue
  DrainsWhenQuiet
  EveryStoreAccepted
