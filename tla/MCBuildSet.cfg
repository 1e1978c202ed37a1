CONSTANTS
  Roots = {"A", "B", "C", "D"}
  Local = "A"
  Trees = {1, 2, 3, 4}
  Items = {1, 2, 3, 4, 5, 6, 7, 8}
  Components <- MCComponents
  Platforms <- MCPlatforms
  Inputs <- MCInputs
SPECIFICATION Spec
INVARIANTS
  TraversalComplete
  ResolvedAsDocumented
  IntegrityGuaranteed
  
  
  FilesAsDocumented
  CleanedAsDocumented
