SPECIFICATION Spec
CONSTANTS
  NumChunks = 7
  SeqModulo = 4
  WindowSize = 3
  QueueLimit = 3
INVARIANTS
  InOrderPrefix
  WindowSound
  IInv
PROPERTIES
  BaseNeverRetreats
CHECK_DEADLOCK FALSE
