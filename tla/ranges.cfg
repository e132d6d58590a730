SPECIFICATION TableSpec
CONSTANTS
  Modulus = 16
  PendingLostRanges = 3
  Channels = {c1, c2}
  Starts = {5, 13}
  Horizon = 4
INVARIANTS Represents RefusesOnlyWhenFull
