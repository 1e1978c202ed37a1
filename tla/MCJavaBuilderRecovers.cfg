CONSTANTS
  Clients = {c1}
  Turns = 2
  Programs <- NoPrograms
  MaxExits = 1
  CaptureOutput = FALSE
SPECIFICATION Spec
CHECK_DEADLOCK FALSE
PROPERTY
  BuildRecovers
