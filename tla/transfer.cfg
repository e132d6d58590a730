SPECIFICATION Spec
CONSTANTS
  Channels = {c1, time}
  TIME = time
  None = none
  Frags = {1, 2}
  Window = 4
  TxSlots = 4
  ReservedControlSlots = 0
  PerPeerTxSlots = 4
  PerPeerControlReserve = 1
  RxSlots = 1
  ReassemblySlots = 1
  PendingLostRanges = 1
  MaxRetries = 1
  MaxSubmit <- RootTwo
  MaxBoots = 2
INVARIANTS InOrder NoSilentLoss EndsAgree
CONSTRAINT Fresh
CHECK_DEADLOCK FALSE
