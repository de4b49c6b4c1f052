SPECIFICATION LinkSpec
CONSTANTS
  SeqMod = 3
  SeenWindow = 2
  QueueMax = 1
  OpenAfter = 1
  MaxExchanges = 4
  MaxStores = 0
  MaxInFlight = 1
  MaxParks = 0
  Lossy = FALSE
  Reordering = FALSE
  LongOutages = FALSE
  FrameLines = 2
  RoundLines = 1
  WordLines = 2
  DefTimeout = 1
  DefRtx = 2
  Issued <- GameCommands
  Settings <- GameSettings
  Arriving <- GameBlocks
  BufWords = 3
  MaxCommands = 3
  MaxAir = 2
  MaxResets = 1
INVARIANTS AdapterAnswers Paired AnsweredOnce OffsetCounted
