CONSTANTS
  w1 = w1
  w2 = w2
  Workers = {w1, w2}
  BufferedChoices <- Both
  MaxLines = 2
  MaxMain = 1
SPECIFICATION Spec
CHECK_DEADLOCK FALSE
PROPERTY
  LoggerStops
