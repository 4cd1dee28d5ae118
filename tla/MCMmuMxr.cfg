SPECIFICATION Spec
CONSTANTS
  LogEntries = 1
  NoEntry = NoEntry
  None = None
  Setups <- MxrChange
INVARIANTS
  DataAnswerRight
