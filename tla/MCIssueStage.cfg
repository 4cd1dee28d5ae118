SPECIFICATION Spec
CONSTANTS
  NR_ENTRIES = 4
  ENABLE_RENAME = FALSE
  Regs = {0, 1, 2}
  Instrs <- Units
  None = None
INVARIANTS
  ScoreboardConsistent
  WrongOperandsNeverRetire
  RegfileRight
  UnitsConsistent
