CONSTANTS
  Traffic <- AllTraffic
  Times = {0, 1, 2, 3}
  Names = {"", "sni", "dns", "doh"}
  NoName = ""
  OneSecond = 1
  SeqMod = 8
  Captures <- TheCaptures
  ServiceOf <- Services
  EncryptedDns = {"doh"}
SPECIFICATION SSpec
INVARIANTS
  OneFlowPerConversation
  BytesByDirection
  RateIsExact
  RttIsFirstHandshake
  DeliveryIsExact
  KnownPeersAreNamed
  NamesAreFromThisCapture
  NameIsLatestGiven
