\* Two slots, a socket more than slots, one message in the log queue.
SPECIFICATION Spec
CONSTANTS
  Size = 2
  IntBits = 3
  WordBits = 5
  Sock = {3, 4, 5}
  MaxLog = 1
INVARIANTS
  ServerInv
  CopyIsCurrent
  DetachReadsTid
  SafeDestruct
  LogOutlivesUsers
  OrphansMeanLeak
  NoLostWakeup
PROPERTIES
  UsesPool
\* The process ends.
CHECK_DEADLOCK FALSE
