SPECIFICATION PartSpec
CONSTANTS
  Threads = {x1, x2}  HealthThread = health  Conns = {c1, c2}  PoolSize = 2  Depth = 2  Sanitizes = TRUE
  MaxFaults = 1  EmptyHand = None
  x1 = x1  x2 = x2  c1 = c1  c2 = c2  a = a  Torn = Torn  None = None
INVARIANTS LiveIsAccurate
PROPERTIES WaitingEnds LeftoversGo
CHECK_DEADLOCK FALSE
