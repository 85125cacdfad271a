CONSTANTS
  Ethernet = Ethernet
  Unsupported = Unsupported
  NoFilter = NoFilter
  None = None
  LinkTypes = {Ethernet, Unsupported}
  Filters = {NoFilter, tcp}
  QueueCap = 2
  SessionCap = 1
  MaxSources = 1
  MaxPackets = 4
  Plans <- AllPlans
  NoLimit <- MinusOne
SPECIFICATION CSpec
INVARIANTS
  ReportIsComplete
PROPERTIES
  EndingWrites
