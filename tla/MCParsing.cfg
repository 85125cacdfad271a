CONSTANTS
  None = None
  Frames <- TheFrames
  Needles <- TheNeedles
  MaxTunnelDepth = 4
  MaxTxtBytes = 3
SPECIFICATION PSpec
INVARIANTS
  PayloadIsExact
  InnermostIsShown
  AnswersAreTheRecords
  NamesAreRead
