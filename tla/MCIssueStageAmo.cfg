SPECIFICATION Spec
CONSTANTS
  NR_ENTRIES = 4
  ENABLE_RENAME = FALSE
  Regs = {0, 1, 2}
  Instrs <- Amo
  None = None
INVARIANTS
  WrongOperandsNeverRetire
