SPECIFICATION Spec
CONSTANTS
  N = 2
  MaxTickets = 1
  MaxConns = 4
  MaxFaults = 1
  None = None
INVARIANTS SessionIsRestored
CHECK_DEADLOCK FALSE
