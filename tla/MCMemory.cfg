\* Two pushers, three nodes: a push can find no memory, the list can hold three.
\* No symmetry, because of the liveness property.
SPECIFICATION MCSpec
CONSTANTS
  Node = {n1, n2, n3}
  Msg = {m1, m2}
  Pusher = {p1, p2}
  Writer = w
  NULL = NULL
  Ptr = {q1, q2, q3}
  Object = {o1, o2, o3}
  Counter = {c1, c2, c3}
  nullptr = nullptr
INVARIANTS
  ListInv
  AllFreed
  NoLostWakeup
  CountsOwners
PROPERTIES
  ImplementsFifo
  SleeperTakes
\* The queue is destroyed in the end.
CHECK_DEADLOCK FALSE
