SPECIFICATION PartSpec
CONSTANTS
  Keys = {1, 2, 3}  Count = 2  Capacity = 2  MaxPosts = 2  Posters = 1
  x1 = x1  x2 = x2  None = None
SYMMETRY Symmetry
INVARIANTS KeyOrder StopSettlesAll HandledIsAnswered SlowRequestIsClosed SilenceIsBounded
CHECK_DEADLOCK FALSE
