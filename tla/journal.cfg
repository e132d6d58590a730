SPECIFICATION JournalSpec
CONSTANTS
  Checkpoints = {x, y}
  Cleared = cleared
  Nothing = nothing
  Modulus = 16
  FirstGeneration = 0
  MaxGeneration = 7
INVARIANTS BlobsSound
PROPERTIES IsRegister
CHECK_DEADLOCK FALSE
