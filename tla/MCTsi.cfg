SPECIFICATION FairSpec
CONSTANTS
  Contexts <- Both
  Main = "target"
  W = 8
  Addrs <- Memory
  MSIP_BASE = 8
  Data = {2, 3}
  MaxLen = 2
  MaxOps = 3
INVARIANTS
  OneRuns
  WordsConserved
PROPERTIES
  ImplementsCoroutine
  ReadsReturn
