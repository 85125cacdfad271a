CONSTANTS
  Conns <- TheConns
  Needed <- TheNeeds
  NameAt <- TheNames
  Packets <- ThePackets
  Times = {0, 1, 3}
  MaxStream = 4
  MaxConnections = 2
  Timeout = 1
SPECIFICATION QSpec
INVARIANT PacketNamesAreTrue
