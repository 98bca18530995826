SPECIFICATION PartSpec
CONSTANTS
  Locals = {"l1"}  Incoming = {"i1", "i2"}  Peer <- MCPeer  N = 2  LastFull = FALSE
  Paths = {"x", "y"}  MaxFaults = 2
  x1 = x1  x2 = x2  ann = ann  bob = bob  i1 = i1  i2 = i2  Torn = Torn  None = None
SYMMETRY Symmetry
INVARIANTS TicketIsOneTime NobodyIsSkipped SentIsPublished SavedIsWhole  
PROPERTIES CallbackIsCurrent
CHECK_DEADLOCK FALSE
