CONSTANTS
  Conns <- TheConns
  KeyOf <- TheKeys
  Isn <- TheIsns
  Needed <- TheNeeds
  Segments <- TheSegments
  Times = {0, 1, 3}
  RecordHeader = 2
  SeqMod = 16
  MaxBuffered = 4
  MaxStreams = 2
  Timeout = 1
SPECIFICATION RSpec
INVARIANTS
  OnlyTrueNames
  InOrderIsRecovered
PROPERTIES
  LeavesForCause
