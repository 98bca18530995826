SPECIFICATION FairSpec
CONSTANTS
  Frames <- MCFrames  Bytes <- MCBytes  HeadLen = 1  FrameLimit = 4
  MaxSendQue = 2  SendByteLimit = 7  MaxSends = 3  MaxReads = 2
INVARIANTS FramesInOrder BytesAreCounted DeadlinePending
PROPERTIES SilentPeerIsReleased
CHECK_DEADLOCK FALSE
