SPECIFICATION Spec
CONSTANTS
  a = a
  b = b
  op1 = op1
  op2 = op2
  Images <- MCImages
  Size <- MCSize
  Ops <- MCOps
  ImageOf <- MCImageOf
  Seqs = {0, 1}
  Lens = {1, 2}
  QueueLen = 2
  None = None
  MaxPackets = 5
  MaxResets = 1
INVARIANTS SelectedTruthful FlashAsAnswered
PROPERTIES Settles
CHECK_DEADLOCK FALSE
