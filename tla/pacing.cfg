SPECIFICATION FairSpec
CONSTANTS
  Wrap = 18
  Slack = 2
  TickEvery = 1
  DeferMax = 1
  SpinsMax = 1
  QueueMax = 1
  MaxLines = 9
  MaxApart = 2
  MaxClocks = 2
  MaxInFlight = 2
  MaxParks = 1
INVARIANTS HeldClockNeverWaits ParentReports
PROPERTIES KeepsStep WaitEnds
CHECK_DEADLOCK FALSE
