\* The ten lines of the programs of problem 1.
SPECIFICATION MCSpec
CONSTANTS
  Lines = 10
  Caller = {t1, t2}
  Capacities = {0, 1}
  REALLOC_TRIES = 1
  MaxAdds = 3
INVARIANTS
  VectorInv
  NoLostWakeup
PROPERTIES
  TakesTurns
  SemTakesTurns
  AllFinish
\* The process ends, or hangs without a child; the vector is destroyed.
CHECK_DEADLOCK FALSE
