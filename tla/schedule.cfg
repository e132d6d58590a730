SPECIFICATION Spec
CONSTANTS
  Generations = {1, 2}
  Configs <- MCConfigs
  Days = 2
  Minutes = 3
  Local <- MCLocal
  Horizon = 5
  MaxStep = 2
  CatchUpOnClockReady = TRUE
  None = None
  MaxEvents = 3
INVARIANTS EditsWhole OncePerDay NothingSkipped InForce
PROPERTIES Settles
CHECK_DEADLOCK FALSE
