------------------------------ MODULE BfsMapReduce -----------------------------
(***************************************************************************)
(* src/c++/map-reduce/BFS-non-weighted-graph: rounds of mapper and reducer *)
(* over lines <<vertex, distance, neighbours>>.  Between the two the       *)
(* framework sorts the lines by vertex, and leaves the order of the lines  *)
(* of one vertex open.  INF is written for INT_MAX and read as INT_MAX.    *)
(***************************************************************************)
EXTENDS Integers, FiniteSets, FiniteSetsExt, TLC

CONSTANTS N, MaxRounds, INT_MAX

VARIABLES
  edges,             \* the neighbours every vertex has in the first input
  rows,              \* the lines of the file, by vertex
  rounds,
  lines,             \* what the reducer has still to read; the sender tells lines apart
  prev_info, min_dist, total_adj_vertexes,
  printed            \* what the reducer has printed

reducerVars == <<lines, prev_info, min_dist, total_adj_vertexes, printed>>
vars == <<edges, rows, rounds, reducerVars>>

Row(dist, adj) == [dist |-> dist, adj |-> adj]

Vertex == 1..N

None == 0   \* no line was read yet

Empty == [v \in {} |-> Row(0, {})]

\* The search is from vertex 1.  A vertex without neighbours may have no line.
Init ==
  /\ edges \in [Vertex -> SUBSET Vertex]
  /\ \E D \in SUBSET Vertex :
       /\ 1 \in D /\ \A v \in Vertex \ D : edges[v] = {}
       /\ rows = [v \in D |-> Row(IF v = 1 THEN 0 ELSE INT_MAX, edges[v])]
  /\ rounds = 0 /\ lines = {} /\ prev_info = None /\ min_dist = 0 /\ total_adj_vertexes = {}
  /\ printed = Empty

-------------------------------------------------------------------------------

\* print_adj_vertex_info: one step further than the vertex, unless that is INF.
Further(dist) == IF dist = INT_MAX THEN INT_MAX ELSE dist + 1

mapper ==
  /\ lines = {} /\ prev_info = None /\ rounds < MaxRounds
  /\ lines' = {[from |-> v, to |-> v, row |-> rows[v]] : v \in DOMAIN rows}
              \union UNION {{[from |-> v, to |-> w, row |-> Row(Further(rows[v].dist), {})] :
                               w \in rows[v].adj} : v \in {u \in DOMAIN rows : rows[u].adj # {}}}
  /\ UNCHANGED <<edges, rows, rounds, prev_info, min_dist, total_adj_vertexes, printed>>

\* The lines that can come next in a file sorted by vertex.
FirstLines == {l \in lines : \A m \in lines : l.to <= m.to}

print_data == (prev_info :> Row(min_dist, total_adj_vertexes)) @@ printed

Begin(l) ==
  /\ prev_info' = l.to /\ min_dist' = l.row.dist /\ total_adj_vertexes' = l.row.adj

\* The first line, a line of another vertex, a line of the same vertex.
ReadLine(l) ==
  /\ \/ prev_info = None /\ Begin(l) /\ UNCHANGED printed
     \/ prev_info \notin {None, l.to} /\ printed' = print_data /\ Begin(l)
     \/ /\ prev_info = l.to
        /\ total_adj_vertexes' = total_adj_vertexes \union l.row.adj
        /\ min_dist' = IF l.row.dist <= min_dist THEN l.row.dist ELSE min_dist
        /\ UNCHANGED <<prev_info, printed>>
  /\ lines' = lines \ {l}
  /\ UNCHANGED <<edges, rows, rounds>>

\* At the end of the input the last vertex is printed; the output is the next input.
ReduceEnd ==
  /\ lines = {} /\ prev_info # None
  /\ rows' = print_data /\ rounds' = rounds + 1
  /\ prev_info' = None /\ min_dist' = 0 /\ total_adj_vertexes' = {} /\ printed' = Empty
  /\ UNCHANGED <<edges, lines>>

reducer == (\E l \in FirstLines : ReadLine(l)) \/ ReduceEnd

Next == mapper \/ reducer

-------------------------------------------------------------------------------

\* The vertices k edges lead to.
Sphere[k \in 0..MaxRounds] ==
  IF k = 0 THEN {1} ELSE UNION {edges[v] : v \in Sphere[k - 1]}

\* After k rounds the file has a line for every vertex within k edges and for every vertex
\* with neighbours; a line has the distance of a vertex within k edges, INF for another,
\* and the neighbours as they were.
RoundsRight ==
  /\ \A v \in Vertex :
       edges[v] # {} \/ (\E k \in 0..rounds : v \in Sphere[k]) => v \in DOMAIN rows
  /\ \A v \in DOMAIN rows :
       LET near == {k \in 0..rounds : v \in Sphere[k]}
       IN  rows[v] = Row(IF near = {} THEN INT_MAX ELSE Min(near), edges[v])
===============================================================================
