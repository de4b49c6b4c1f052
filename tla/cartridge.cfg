SPECIFICATION CartridgeSpec
CONSTANTS
  GameBytes <- Sent
  FirstDay <- Y2000
  LastDay <- Y2100
  StartDays <- FirstUse
  MaxTicks = 1
  Offs = {0, 1, 2, 3, 4, 5, 6, 7}
  SectorSize = 4
  KeyOne = 5
  KeyTwo = 2
  Writes <- GameWrites
  Narrow = 2
  Wide = 4
  BlockBits = 4
  BlockCount = 8
  Asked = {1, 6}
  Contents <- GameBlocks
  MaxChanges = 2
  MaxPolls = 2
  MaxLoads = 1
  MaxApart = 2
  Rates <- GameRates
  Full = 1
  SampleBits = 2
  GyroCenter = 1
  TiltCenters <- Centers
  LineStores <- GameStores
  MaxHands = 1
  MaxEdges = 12
INVARIANTS ReceivedAsSent ControlAsWritten AnswerIsOneInstant SavesReadBack AnswersAreOfTheirTime
PROPERTIES DatesFollow
