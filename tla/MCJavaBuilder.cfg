CONSTANTS
  Clients = {c1, c2}
  Turns = 2
  Programs <- MCPrograms
  MaxExits = 2
  CaptureOutput = TRUE
SPECIFICATION Spec
CHECK_DEADLOCK FALSE
INVARIANTS
  AssertionsHold
  AnsweredTruthfully
  NobodyForgotten
PROPERTIES
  OneBackend
  BuildEnds
  ProgramsReturn
