\* A capacity that is neither empty nor full at one value; stocks that the faster makers
\* fill; two writers and two readers; a barrier for fewer threads than there are.
SPECIFICATION MCSpec
CONSTANTS
  Capacity = 3
  SemMax = 2
  Files = 2
  PrimThread = {t1, t2, t3}
  Count = 2
  Cnt = 2
INVARIANTS
  Bounded
  NoLostWakeup
  NobodyTooEarly
PROPERTIES
  KeepsWorking
  SignalOutcome
\* The threads end, or wait for ever.
CHECK_DEADLOCK FALSE
