\* Four nodes need several passes; two different lines are enough for a sort that only
\* compares neighbours.
SPECIFICATION MCSpec
CONSTANTS
  MaxNodes = 4
  MaxLine = 2
INVARIANTS
  ChainKept
  SortedAtUnlock
  AllFreedAtExit
PROPERTIES
  Outcome
\* The process ends, or waits for ever.
CHECK_DEADLOCK FALSE
