CONSTANTS
  None = None
  Frames <- TheFrames
  Needles <- TheNeedles
  MaxTunnelDepth = 4
  MaxTxtBytes = 3
SPECIFICATION PSpec
INVARIANT PayloadIsInnermost
