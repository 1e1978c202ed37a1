CONSTANTS
  Items = {1, 2, 3, 4}
  native = native
  embedded = embedded
  Indep = indep
  p1 = p1
  p2 = p2
  e1 = e1
  ANY = ANY
  NoType = NoType
  NoPlatform = NoPlatform
  Types <- MCTypes
  Parent <- MCParent
  PlatformsOf <- MCPlatformsOf
  Inputs <- MCInputs
SPECIFICATION Spec
INVARIANTS
  BuildGraphChecks
  DependenciesHonoured
