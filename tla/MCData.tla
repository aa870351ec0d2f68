-------------------------------- MODULE MCData --------------------------------
(***************************************************************************)
(* The sum of the modules on memory managers, containers and graphs: a     *)
(* behaviour is one of SlabCache's, of Allocator's, of LRUCache's or of    *)
(* one of the four graph programs', while the variables of the others stay *)
(* as they are.                                                            *)
(***************************************************************************)
EXTENDS Naturals

CONSTANTS
  PAGE_SIZE, SlabHeader, BlockHeader, DEFAULT_SIZE, MaxOrder, ObjectSizes, MaxSlabs,
  Word, Arena, Requests,
  Key, Capacities, MaxSets,
  INT_MAX, DijkstraVertices, Weights, BfsVertices, MaxRounds, TriangleVertices,
  EulerVertices, MaxEdges

VARIABLES
  program,
  object_size, live, lists, slab_size, first, next_block, slab_used, slab_pc, cur,
  mem, chunk_used, shared,
  cp, mp, head, tail, act_size, node, freed, corrupt, order, last, atEnd,
  edges_cnt, graph, start_vert, target_vert, dist, active_verts, inter_cnt,
  adj, rows, rounds, lines, prev_info, min_dist, total_adj_vertexes, reduced,
  g, vertex, visited, is_red, is_blue, q, cnt,
  edges, adjacencyList, visitedEdges, vertexDegree, phase, startVertex, calls, printed, resumed

Slabs == INSTANCE SlabCache WITH size <- slab_size, used <- slab_used, pc <- slab_pc
Chunks == INSTANCE Allocator WITH used <- chunk_used
Cache == INSTANCE LRUCache
ShortestPath == INSTANCE Dijkstra WITH verts_cnt <- DijkstraVertices
MapReduce == INSTANCE BfsMapReduce WITH N <- BfsVertices, edges <- adj, printed <- reduced
FindTriangle == INSTANCE Triangles WITH N <- TriangleVertices
Euler == INSTANCE EulerianCycle WITH N <- EulerVertices, pc <- phase, stack <- calls

slabs == <<object_size, live, lists, slab_size, first, next_block, slab_used, slab_pc, cur>>
chunks == <<mem, chunk_used, shared>>
caches == <<cp, mp, head, tail, act_size, node, freed, corrupt, order, last, atEnd>>
dijkstra == <<edges_cnt, graph, start_vert, target_vert, dist, active_verts, inter_cnt>>
bfs == <<adj, rows, rounds, lines, prev_info, min_dist, total_adj_vertexes, reduced>>
triangles == <<g, vertex, visited, is_red, is_blue, q, cnt>>
euler == <<edges, adjacencyList, visitedEdges, vertexDegree, phase, startVertex, calls, printed,
           resumed>>
graphs == <<dijkstra, bfs, triangles, euler>>
mcvars == <<program, slabs, chunks, caches, graphs>>

\* The programs on graphs start with every graph; when another one runs their variables
\* are unused.
NoDijkstra ==
  /\ edges_cnt = 0 /\ graph = 0 /\ start_vert = 0 /\ target_vert = 0 /\ dist = 0
  /\ active_verts = 0 /\ inter_cnt = 0
NoBfs ==
  /\ adj = 0 /\ rows = 0 /\ rounds = 0 /\ lines = 0 /\ prev_info = 0 /\ min_dist = 0
  /\ total_adj_vertexes = 0 /\ reduced = 0
NoTriangles ==
  /\ g = 0 /\ vertex = 0 /\ visited = 0 /\ is_red = 0 /\ is_blue = 0 /\ q = 0 /\ cnt = 0
NoEuler ==
  /\ edges = 0 /\ adjacencyList = 0 /\ visitedEdges = 0 /\ vertexDegree = 0 /\ phase = 0
  /\ startVertex = 0 /\ calls = 0 /\ printed = 0 /\ resumed = 0

GraphsInit ==
  \/ program = "dijkstra" /\ ShortestPath!Init /\ NoBfs /\ NoTriangles /\ NoEuler
  \/ program = "bfs" /\ MapReduce!Init /\ NoDijkstra /\ NoTriangles /\ NoEuler
  \/ program = "triangles" /\ FindTriangle!Init /\ NoDijkstra /\ NoBfs /\ NoEuler
  \/ program = "euler" /\ Euler!Init /\ NoDijkstra /\ NoBfs /\ NoTriangles
  \/ /\ program \in {"slab", "chunk", "cache"}
     /\ NoDijkstra /\ NoBfs /\ NoTriangles /\ NoEuler

MCInit ==
  /\ Slabs!Init /\ Chunks!Init /\ Cache!Init /\ GraphsInit
  /\ program # "slab" => \A s \in ObjectSizes : object_size <= s
  /\ program # "cache" => \A c \in Capacities : cp <= c

HeapNext ==
  \/ program = "slab" /\ Slabs!Next /\ UNCHANGED <<chunks, caches>>
  \/ program = "chunk" /\ Chunks!Next /\ UNCHANGED <<slabs, caches>>
  \/ program = "cache" /\ Cache!Next /\ UNCHANGED <<slabs, chunks>>

GraphsNext ==
  \/ program = "dijkstra" /\ ShortestPath!Next /\ UNCHANGED <<bfs, triangles, euler>>
  \/ program = "bfs" /\ MapReduce!Next /\ UNCHANGED <<dijkstra, triangles, euler>>
  \/ program = "triangles" /\ FindTriangle!Next /\ UNCHANGED <<dijkstra, bfs, euler>>
  \/ program = "euler" /\ Euler!Next /\ UNCHANGED <<dijkstra, bfs, triangles>>

MCNext ==
  /\ UNCHANGED program
  /\ \/ HeapNext /\ UNCHANGED graphs
     \/ GraphsNext /\ UNCHANGED <<slabs, chunks, caches>>

MCSpec == MCInit /\ [][MCNext]_mcvars

-------------------------------------------------------------------------------

\* What the two memory managers and the cache have, see Allocator!ChunksTile, Coalesced and
\* CutOnlyLarge, SlabCache!CacheInv and Releasing, and LRUCache!LruKept: the chunks cover
\* the arena and only a chunk much larger than the request is ever cut a second time, no
\* block of a slab is handed out twice or lost until a second slab is laid over the first,
\* and a cache whose hits are in the middle of its list evicts the key used least recently.
BlocksKept ==
  /\ program = "chunk" => Chunks!ChunksTile /\ Chunks!Coalesced /\ Chunks!CutOnlyLarge
  /\ program = "slab" => Slabs!CacheInv /\ Slabs!Releasing /\ Slabs!Geometry
  /\ program = "cache" => Cache!LruKept

\* dijkstra.cpp, the rounds of the map-reduce search, find_triangle.cpp and the Eulerian
\* cycle compute what they are named for, but for the exceptions that
\* Dijkstra!DijkstraRight, BfsMapReduce!RoundsRight, Triangles!TrianglesRight and
\* EulerianCycle!EulerRight name.
GraphsRight ==
  /\ program = "dijkstra" => ShortestPath!DijkstraRight
  /\ program = "bfs" => MapReduce!RoundsRight
  /\ program = "triangles" => FindTriangle!TrianglesRight
  /\ program = "euler" => Euler!EulerRight
===============================================================================
