SPECIFICATION FairSpec
CONSTANTS
  NR_ENTRIES = 4
  ENABLE_RENAME = TRUE
  Regs = {0, 1, 2}
  Instrs <- Renamed
  None = None
INVARIANTS
  WrongOperandsNeverRetire
PROPERTIES
  EveryIssuedLeaves
  IssueProgress
