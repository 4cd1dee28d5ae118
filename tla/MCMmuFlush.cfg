SPECIFICATION Spec
CONSTANTS
  LogEntries = 1
  NoEntry = NoEntry
  None = None
  Setups <- AllSetups
INVARIANTS
  AnswersBelongToWalk
