SPECIFICATION Spec
SYMMETRY TimerSymmetry
CONSTANTS
  NumChunks = 3
  SeqModulo = 4
  WindowSize = 2
  QueueLimit = 2
  main = main
  sending = sending
  Timers = {t1, t2}
  None = None
INVARIANTS
  ThreadInv
  InOrderPrefix
  WindowKept
PROPERTIES
  TransfersFile
CHECK_DEADLOCK FALSE
