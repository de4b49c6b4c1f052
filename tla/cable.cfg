SPECIFICATION CableSpec
CONSTANTS
  SeqMod = 4
  SeenWindow = 2
  QueueMax = 2
  OpenAfter = 1
  MaxExchanges = 2
  MaxStores = 1
  MaxInFlight = 2
  MaxParks = 1
  Lossy = FALSE
  Reordering = FALSE
  LongOutages = FALSE
  N = 4
  Silent = 3
  FailuresMax = 1
  HelloLoss = FALSE
  MaxLosses = 1
  MaxSessions = 3
  MaxGiveUps = 1
  MaxOnWire = 2
INVARIANTS RolesDiffer QuietLinkStaysUp DeliveredAsClocked
PROPERTIES SessionsLink FlushIsFinal ImplementsExchange
CHECK_DEADLOCK FALSE
