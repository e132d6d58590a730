SPECIFICATION FairSpec
CONSTANTS
  Slots = 3
  Keys = {"plain", "short", "long"}
  Cut <- MCCut
  NoKey = NoKey
  Groups = {2}
  MaxTickets = 4
INVARIANTS EnqueueOrder AcceptedKept SlotsAccounted
PROPERTIES EventuallyHandled
CHECK_DEADLOCK FALSE
