SPECIFICATION PartSpec
CONSTANTS
  x1 = x1  x2 = x2  y1 = y1  y2 = y2  None = None
  Requests = {x1, x2}  Emails = {"e1", "e2"}  Names = {y1, y2}  Old = {"p0"}  New = {"p1", "p2"}  Legacy = {"e1"}
  HourlyLimit = 2  GlobalLimit = 2  MaxAttempts = 2  MaxIssues = 3  MaxWrites = 4
SYMMETRY Symmetry
INVARIANTS  AccountsAreDistinct CredentialIsCurrent DecoderIsExact FormIsNoLaxer AnswerIsRight FriendsAreMutual
CHECK_DEADLOCK FALSE
