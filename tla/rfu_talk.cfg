SPECIFICATION WordsSpec
CONSTANTS
  FrameLines = 2
  RoundLines = 1
  WordLines = 2
  DefTimeout = 1
  DefRtx = 2
  Issued <- GameCommands
  Settings <- GameSettings
  Arriving <- GameBlocks
  BufWords = 3
  MaxCommands = 3
  MaxAir = 2
  MaxResets = 1
INVARIANT NeverTalkedOver
