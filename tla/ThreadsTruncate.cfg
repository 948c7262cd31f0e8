SPECIFICATION Spec
SYMMETRY TimerSymmetry
CONSTANTS
  NumChunks = 2
  SeqModulo = 3
  WindowSize = 2
  QueueLimit = 2
  main = main
  sending = sending
  Timers = {t1, t2, t3}
  None = None
INVARIANTS
  ClosedComplete
CHECK_DEADLOCK FALSE
