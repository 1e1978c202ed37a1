CONSTANTS
  Size = 3
  num_workers = 2
  Items <- MCItems
  Graphs <- Shapes
  Inputs <- NoDepFailuresInputs
  BaseFile <- MCBaseFile
  Trees <- MCTrees
  Environment <- MCEnvironment
  Parameters <- MCParameters
  MaxNesting = 2
  MaxBlocks = 12
SPECIFICATION Spec
INVARIANT
  ImportsExist
