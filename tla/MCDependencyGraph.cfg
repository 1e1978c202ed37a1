CONSTANTS
  Names = {1, 2, 3, 4}
  MaxEdges <- DenserWhenSmall
SPECIFICATION Spec
INVARIANTS
  CheckIsExact
  ReadyMeetsContract
  CyclesGenuine
  ReportsComplete
  IndependentSetsExact
PROPERTY
  CheckTerminates
