CONSTANTS
  Ethernet = Ethernet
  Unsupported = Unsupported
  NoFilter = NoFilter
  None = None
  LinkTypes = {Ethernet, Unsupported}
  Filters = {NoFilter}
  QueueCap = 2
  SessionCap = 2
  MaxSources = 2
  MaxPackets = 3
  HistoryCap = 2
  FrameBudget = 1
SPECIFICATION GSpec
INVARIANTS
  SelectionIsStable
  RowsAreFresh
  HistoryIsOneCapture
  NoHiddenCapture
  ShownCanBeExported
PROPERTIES
  WindowResponds
