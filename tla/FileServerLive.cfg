\* One slot and three sockets: a client waits for the slot, after a refused store too.
SPECIFICATION FairSpec
CONSTANTS
  Size = 1
  IntBits = 2
  WordBits = 4
  Sock = {3, 4, 5}
  MaxLog = 2
PROPERTIES
  AcceptedIsSettled
  ShutdownOutcome
\* The process ends.
CHECK_DEADLOCK FALSE
