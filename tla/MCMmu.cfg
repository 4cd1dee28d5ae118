SPECIFICATION FairSpec
CONSTANTS
  LogEntries = 1
  NoEntry = NoEntry
  None = None
  Setups <- AllSetups
INVARIANTS
  TlbConsistent
  InterfaceAnswersRight
PROPERTIES
  StraysOnlyFromWaitRvalid
  WalkerReturns
