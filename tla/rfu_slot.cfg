SPECIFICATION Spec
CONSTANTS
  Adapters <- TwoGuests
  Hosts = {"h"}
  NSlots = 2
  IdCycle = 256
  QueueDepth = 1
  AnnounceFrames = 1
  PeerTtl = 1
  ClientTtl = 5
  TxMaxHost = 2
  TxMaxClient = 1
  Impatient = FALSE
  Lengths = {1}
  MaxCommands <- CommandsOfTwo
  MaxBlocks = 1
  MaxResets = 0
  MaxInFlight = 1
INVARIANT NoStrangerInQueue
