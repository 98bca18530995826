SPECIFICATION Spec
CONSTANTS
  x1 = x1  x2 = x2  ann = ann  i1 = i1  i2 = i2  Torn = Torn  None = None
PROPERTIES UserIsAnswered LossIsMadeUp
CHECK_DEADLOCK FALSE
