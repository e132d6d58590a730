SPECIFICATION FairSpec
CONSTANTS
  Nodes = {a, b}
  Timed = {a}
  Slots = 2
  None = None
  Uptimes = {1, 3}
  RestartSlack = 1
  MaxGen = 2
  MaxPings = 2
  MaxTraffic = 3
  MaxUpsets = 1
INVARIANTS TableSound PongFresh TimeKept
PROPERTIES RoutedStays TimeGetsThrough
CHECK_DEADLOCK FALSE
