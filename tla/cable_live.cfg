SPECIFICATION FairSpec
CONSTANTS
  SeqMod = 4
  SeenWindow = 2
  QueueMax = 2
  OpenAfter = 1
  MaxExchanges = 2
  MaxStores = 1
  MaxInFlight = 1
  MaxParks = 1
  Lossy = TRUE
  Reordering = TRUE
  LongOutages = FALSE
PROPERTIES TransferEnds HeldClockAnswered
