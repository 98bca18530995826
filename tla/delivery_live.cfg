SPECIFICATION Spec
CONSTANTS
  n1 = n1  ann = ann  bob = bob  eve = eve  a = a  b = b  sa = sa  sb = sb  m1 = m1  m2 = m2
  NoSession = NoSession  NoNode = NoNode  NoMessage = NoMessage
PROPERTIES CommittedIsDelivered OutboxDrains
CHECK_DEADLOCK FALSE
