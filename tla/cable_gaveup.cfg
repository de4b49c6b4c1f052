SPECIFICATION Spec
CONSTANTS
  SeqMod = 4
  SeenWindow = 2
  QueueMax = 2
  OpenAfter = 2
  MaxExchanges = 2
  MaxStores = 1
  MaxInFlight = 2
  MaxParks = 0
  Lossy = FALSE
  Reordering = FALSE
  LongOutages = FALSE
INVARIANT OffsetAlwaysCounted
