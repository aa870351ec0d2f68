------------------------------- MODULE Triangles -------------------------------
(***************************************************************************)
(* src/utils/math/graphs/find_triangle: the number of triangles in a graph *)
(* without loops and multiple edges.  The neighbours of a vertex come in   *)
(* the order of the input, which can be any.  is_black is set right before *)
(* it is tested and has no variable.                                       *)
(***************************************************************************)
EXTENDS Integers, FiniteSets, FiniteSetsExt

CONSTANT N

VARIABLES g, vertex, visited, is_red, is_blue, q, cnt

vars == <<g, vertex, visited, is_red, is_blue, q, cnt>>

Vertex == 1..N

Init ==
  /\ \E E \in SUBSET {e \in SUBSET Vertex : Cardinality(e) = 2} :
       g = [v \in Vertex |-> {w \in Vertex : {v, w} \in E}]
  /\ vertex = 0 /\ visited = {} /\ is_red = {} /\ is_blue = {} /\ q = {} /\ cnt = 0

\* main's loop calls trianglesCnt, whose colours are a copy; it begins with the queue.
Start ==
  /\ q = {} /\ vertex < N
  /\ vertex' = vertex + 1 /\ visited' = visited \union {vertex'}
  /\ is_red' = {vertex'} /\ q' = g[vertex'] \ visited' /\ is_blue' = q'
  /\ UNCHANGED <<g, cnt>>

\* Neighbours of cur_vertex that make a triangle with it.
Third(cur_vertex) == {w \in g[cur_vertex] : w \notin is_red' \union visited /\ w \in is_blue}

Pop(cur_vertex) ==
  /\ q' = q \ {cur_vertex} /\ is_red' = is_red \union {cur_vertex}
  /\ cnt' = cnt + Cardinality(Third(cur_vertex))
  /\ UNCHANGED <<g, vertex, visited, is_blue>>

Next == Start \/ \E v \in q : Pop(v)

-------------------------------------------------------------------------------

IsTriangle(t) == Cardinality(t) = 3 /\ \A v, w \in t : v # w => w \in g[v]

\* When a vertex is done, cnt is the number of triangles whose first vertex is not after it.
TrianglesRight ==
  q = {} => cnt = Cardinality({t \in SUBSET Vertex : IsTriangle(t) /\ Min(t) <= vertex})
===============================================================================
