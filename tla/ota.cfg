SPECIFICATION Spec
CONSTANTS
  op1 = op1
  op2 = op2
  Ops = {op1, op2}
  None = None
  Old = Old
  V2Image = V2Image
  Mixed = Mixed
  Chunks = 4
  ChunksPerBlock = 2
  Interval = 2
  QueueLen = 1
  NvsFaults = TRUE
  WithV2 = TRUE
  MaxBoots = 3
SYMMETRY Symmetry
INVARIANTS FlashAsPromised
PROPERTIES OneOperation RunningUntouched
CHECK_DEADLOCK FALSE
