SPECIFICATION MCSpec
CONSTANTS
  PAGE_SIZE = 8
  SlabHeader = 2
  BlockHeader = 1
  DEFAULT_SIZE = 2
  MaxOrder = 2
  ObjectSizes = {1, 2, 6, 20, 40}
  MaxSlabs = 3
  Word = 2
  Arena = 50
  Requests = {2, 6, 14}
  Key = {k1, k2, k3, k4}
  Capacities = {0, 3}
  MaxSets = 5
  INT_MAX = 7
  DijkstraVertices = 3
  Weights = {0, 1, 3}
  BfsVertices = 3
  MaxRounds = 3
  TriangleVertices = 5
  EulerVertices = 3
  MaxEdges = 5
INVARIANTS BlocksKept GraphsRight
CHECK_DEADLOCK FALSE
