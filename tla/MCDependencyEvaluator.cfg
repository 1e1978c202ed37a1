CONSTANTS
  Size = 4
  Items <- MCItems
  Graphs <- MCGraphs
SPECIFICATION Spec
INVARIANTS
  RunAfterDependencies
  StatesAsDocumented
  NothingStranded
PROPERTY
  StatesAdvance
