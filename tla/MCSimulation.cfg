SPECIFICATION MCSpec
CONSTANTS
  Chunks <- Dtm4
  Keys <- Letters
  RowBytes = 4
  IntMod = 16
  LineBytes = 2
  StatusMod = 8
INVARIANTS
  RepliesConserved
  AnswersRight
  DescriptorsFaithful
  ImageLoaded
  ResultsRight
  ConfiguredAsGiven
  FramesRight
  JtagReadsRight
PROPERTIES
  EveryCallAnswered
  SimulationEnds
CHECK_DEADLOCK FALSE
