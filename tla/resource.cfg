SPECIFICATION PartSpec
CONSTANTS
  x1 = x1  x2 = x2  y1 = y1  y2 = y2  z1 = z1  z2 = z2  a = a  b = b  Torn = Torn  None = None
  Servers = {x1, x2}  Peers = {y1, y2}  Ids = {i1, i2}  Keys = {z1, z2}  Chunks = {a, b}  Original <- MCOriginal
  Quota = 1  MaxParts = 2  MaxFaults = 2
  i1 = i1  i2 = i2
SYMMETRY Symmetry
INVARIANTS OffsetIsBacked PublishedIsIntact DeliveredMeansTold QuotaHolds
PROPERTIES CancelledStaysCancelled NoLostUpdate
CHECK_DEADLOCK FALSE
