CONSTANTS
  Keys = {1, 2, 3}
  AddressOf <- TheAddress
  PlaceOf <- ThePlace
  HostOf <- TheHost
  RttOf <- TheRtt
  Longest = 9
  NoKey = 0
  Never <- MinusOne
  FlowGeoLimit = 0
  HistorySize = 2
  Period = 1
  HeaderColumns = {"bytes", "rtt"}
  MaxNow = 3
  BytesOf <- TheBytes
  Addresses = {"a", "b", "c", "d"}
  CacheCapacity = 2
  Situations <- AllFiles
  Ports = {0, 1}
  Pids = {p1, p2}
  ProcNames = {n1, n2}
  Local = "local"
  Remote = "remote"
  Wildcards <- Anywhere
  BindableIps = {"local", "0.0.0.0"}
  NoPid = NoPid
  NoName = NoName
  Packets <- SomePackets
  RefreshPeriod = 1
  MaxTime = 2
  MaxChanges = 3
  FlowLists <- SomeFlows
SPECIFICATION MCSpec
SYMMETRY Symmetric
INVARIANTS
  ShownRowsAreRight
  RateGraphIsOneFlow
  CacheIsSound
  ExportReadsBack
PROPERTIES
  OwnerIsRecent
