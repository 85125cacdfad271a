CONSTANTS
  Threads = {t1, t2, t3}
  MaxSize = 2
  MaxPushed = 5
SPECIFICATION Spec
INVARIANTS
  EveryPacketAccounted
  NoLostWakeup
PROPERTIES
  ReadsInOrder
  BlockedReadersAreServed
  ImplementsRecentWindow
