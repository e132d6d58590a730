SPECIFICATION PollSpec
CONSTANTS
  Channels = {c1}
  TIME = time
  None = none
  Frags = {1}
  Window = 2
  TxSlots = 2
  ReservedControlSlots = 0
  PerPeerTxSlots = 2
  PerPeerControlReserve = 1
  RxSlots = 1
  ReassemblySlots = 1
  PendingLostRanges = 1
  MaxRetries = 1
  MaxSubmit <- NodeOne
  MaxBoots = 3
INVARIANTS EndsAgree SessionInv
PROPERTIES QueueDrains Reconnects
CHECK_DEADLOCK FALSE
