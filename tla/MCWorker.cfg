SPECIFICATION Spec
CONSTANTS
  NoRow = NoRow
  Workers = {w1, w2}
  Dues = {0, 1}
  Word = 8
  MaxSeq = 2
  MaxRestores = 1
  Threads = {w1}
  MaxBatch = 2
  MaxIdle = 2
  RepairLimit = 3
  MaxClock = 1
INVARIANTS TimerKept
PROPERTIES PicksOldest TimersServed
CHECK_DEADLOCK FALSE
