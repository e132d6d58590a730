SPECIFICATION FairSpec
CONSTANTS
  Slots = 3
  Reserved = 1
  Levels = {0, 1, 4}
  CONTROL = 4
  MaxTickets = 5
INVARIANTS FirstInFirstOut Conserved OneInversion SlotsAccounted
PROPERTIES ControlSent
CHECK_DEADLOCK FALSE
