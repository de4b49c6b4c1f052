SPECIFICATION HardwareSpec
CONSTANTS
  Width = 12
  AmountSpan = 64
  Ram <- MCRam
  Programs <- MCPrograms
  Starts <- MCStarts
  MaxScan = 32
  MaxSpan = 64
  Routines <- MCRoutines
  Spinners <- MCSpinners
  PhaseCycles = 9
  LastLine = 2
  HandlerSteps = {3, 5, 17}
  FlagAt = 64
  VcountAt = 68
  Wide = 12
  High = 3
  Lines = 5
  Vram <- MCVram
  Palette <- MCPalette
  Scenes <- MCScenes
  Halves = {5, 4095}
  MaxWrites = 2
  Sub = 128
  PerSample = 2
  FsPeriod = 512
  LineCycles = 1232
  QueueSize = 8
  Request = 4
  Pcm <- MCPcm
  Scores <- MCScores
  MaxLines = 3
  NumberWidth = 8
  Jobs <- MCJobs
INVARIANTS
  GivesBack
  SkipsLoseNothing
  LineShown
  AffineFollows
  AsServed
  LevelIsBetween
  CallsAnswerExactly
PROPERTIES
  ResultsAreExact
  ThumbAsArm
  BanksKept
  LoadsWhatWasSaved
CHECK_DEADLOCK FALSE
