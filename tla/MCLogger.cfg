CONSTANTS
  w1 = w1
  w2 = w2
  Workers = {w1, w2}
  BufferedChoices <- NoneOrOne
  MaxLines = 2
  MaxMain = 2
SPECIFICATION Spec
CHECK_DEADLOCK FALSE
INVARIANTS
  OutputInOrder
  ReturnMeansPrinted
PROPERTY
  UnbufferedStops
