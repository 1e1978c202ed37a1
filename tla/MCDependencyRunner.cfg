CONSTANTS
  Size = 3
  num_workers = 2
  Items <- MCItems
  Graphs <- Shapes
  Options <- AllOptions
SPECIFICATION Spec
INVARIANTS
  RunningItemsAreHeldOnce
  NoIdleCapacity
  ResultIsComplete
PROPERTIES
  NothingStartsAfterStop
  ImplementsSchedule
  RunReturns
