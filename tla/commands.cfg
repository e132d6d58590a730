SPECIFICATION FairSpec
CONSTANTS
  Ops = {1}
  LogIds = {1}
  CacheSize = 1
  ResultSize = 1
  MaxSends = 2
  MaxRuns = 3
  MaxUpsets = 2
INVARIANTS AtMostOnce ResultsSound NumberAnswer
PROPERTIES Answered
CHECK_DEADLOCK FALSE
