SPECIFICATION FairSpec
CONSTANTS
  Addrs <- Memory
  ProgramRegs <- Program
  Chunks <- SomeChunks
  EntryPoint <- Entry0
  MaxLen = 3
  MaxOps = 2
INVARIANTS
  LinkConsistent
  AssertionsHold
  ProgramUndisturbed
  ReadsRight
  WritesComplete
PROPERTIES
  CommandsStartClean
  RoutinesReturn
