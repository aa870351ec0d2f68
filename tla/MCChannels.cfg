SPECIFICATION MCSpec
CONSTANTS
  MaxMessages = 3
  MaxStores = 4
  workersCnt = 4
  Request = {r1, r2, r3}
  MaxErrors = 2
INVARIANTS
  ChannelsKeep
PROPERTIES
  ProgramsEnd
\* The programs end, and the kafka programs may wait for ever for a signal.
CHECK_DEADLOCK FALSE
