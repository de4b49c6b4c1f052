SPECIFICATION FairSpec
CONSTANTS
  Lines = 2
  Visible = 1
  Channels <- ChannelPair
  Drains = 2
  Timers <- TimerPair
  TimerSize = 4
  Deltas <- Cycles
  Masks <- IeValues
  Displays <- DisplayValues
  Controls <- ControlValues
  Counts = {1}
  MaxCount = 2
  Settings <- TimerValues
  Waits <- WaitArgs
  MaxStores = 3
INVARIANTS BatchIsCycleByCycle
PROPERTIES StartsOnEdges WaitTakesNew EveryStopEnds
