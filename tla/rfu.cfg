SPECIFICATION FairSpec
CONSTANTS
  Adapters <- OneGuest
  Hosts = {"h"}
  NSlots = 2
  IdCycle = 256
  QueueDepth = 1
  AnnounceFrames = 1
  PeerTtl = 1
  ClientTtl = 2
  TxMaxHost = 2
  TxMaxClient = 1
  Impatient = FALSE
  Lengths = {1}
  MaxCommands <- CommandsOfOne
  MaxBlocks = 1
  MaxResets = 1
  MaxInFlight = 1
INVARIANTS SlotsAreOwned AttachedIsBacked
PROPERTIES HalfOpenEnds
