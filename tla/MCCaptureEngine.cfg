CONSTANTS
  Ethernet = Ethernet
  Unsupported = Unsupported
  NoFilter = NoFilter
  None = None
  LinkTypes = {Ethernet, Unsupported}
  Filters = {NoFilter, tcp}
  QueueCap = 2
  SessionCap = 3
  MaxSources = 2
  MaxPackets = 4
SPECIFICATION ESpec
INVARIANTS
  HandleOwned
  NoStalePackets
  BuffersAreRecent
  FilterInForce
