--------------------------- MODULE MCSenderThreads ---------------------------
EXTENDS SenderThreadsInv, TLC
TimerSymmetry == Permutations(Timers)
=============================================================================
