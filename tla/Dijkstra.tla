-------------------------------- MODULE Dijkstra -------------------------------
(***************************************************************************)
(* src/c++/dijkstra.cpp: the shortest way from one vertex to another in a  *)
(* matrix of weights, where 0 is no edge.  A line of the input is one step,*)
(* and a round of the outer loop is.  A vertex is visited when it is in       *)
(* active_verts, so the array visited has no variable.  int has a small    *)
(* width and wraps around, as the machine's addition does.                 *)
(***************************************************************************)
EXTENDS Integers, Sequences, SequencesExt, FiniteSetsExt

CONSTANTS verts_cnt, Weights, INT_MAX

VARIABLES
  edges_cnt,                 \* lines with edges that are still to be read
  graph, start_vert, target_vert,
  dist,                      \* empty until dijkstra is called
  active_verts, inter_cnt

vars == <<edges_cnt, graph, start_vert, target_vert, dist, active_verts, inter_cnt>>

Vertex == 1..verts_cnt

int(n) == ((n + INT_MAX + 1) % (2 * (INT_MAX + 1))) - (INT_MAX + 1)

\* The first line; at most as many edges as there are pairs of vertices.
Init ==
  /\ edges_cnt \in 0 .. verts_cnt * (verts_cnt - 1)
  /\ graph = [u \in Vertex |-> [v \in Vertex |-> 0]]
  /\ start_vert = 0 /\ target_vert = 0
  /\ dist = <<>> /\ active_verts = <<>> /\ inter_cnt = 0

Reading == dist = <<>>

\* One more line, an edge or, after the edges, the two vertices.  No vertex has an edge to
\* itself: the search would pass over it, the vertex being visited.
read_input_data ==
  /\ Reading
  /\ IF edges_cnt > 0
     THEN /\ \E u, v \in Vertex, w \in Weights : u # v /\ graph' = [graph EXCEPT ![u][v] = w]
          /\ edges_cnt' = edges_cnt - 1 /\ UNCHANGED <<start_vert, target_vert>>
     ELSE start_vert' \in Vertex /\ target_vert' \in Vertex /\ UNCHANGED <<graph, edges_cnt>>
  /\ UNCHANGED <<dist, active_verts, inter_cnt>>

\* The input ends, early or not, and main calls dijkstra.  The arrays have an element 0.
dijkstra ==
  /\ Reading
  /\ dist' = [v \in 0..verts_cnt |-> IF v = start_vert THEN 0 ELSE INT_MAX]
  /\ active_verts' = <<start_vert>>
  /\ UNCHANGED <<edges_cnt, graph, start_vert, target_vert, inter_cnt>>

visited(v) == v \in Range(active_verts)

cur_dist(j, i) == int(graph[active_verts[j]][i] + dist[active_verts[j]])

\* What the inner loops can choose, and what they do: the first of the least.
Candidates ==
  {c \in (DOMAIN active_verts) \X Vertex :
     graph[active_verts[c[1]]][c[2]] # 0 /\ cur_dist(c[1], c[2]) < INT_MAX /\ ~visited(c[2])}

\* Mutant: the first edge, whatever its weight.
MutantBefore(c, d) == c[1] < d[1] \/ (c[1] = d[1] /\ c[2] <= d[2])

Before(c, d) ==
  \/ cur_dist(c[1], c[2]) < cur_dist(d[1], d[2])
  \/ /\ cur_dist(c[1], c[2]) = cur_dist(d[1], d[2])
     /\ c[1] < d[1] \/ (c[1] = d[1] /\ c[2] <= d[2])

Running == ~Reading /\ inter_cnt < verts_cnt * verts_cnt /\ ~visited(target_vert)

Visit(new_vertex, min_dist) ==
  /\ active_verts' = Append(active_verts, new_vertex)
  /\ dist' = [dist EXCEPT ![new_vertex] = min_dist]
  /\ inter_cnt' = inter_cnt + 1
  /\ UNCHANGED <<edges_cnt, graph, start_vert, target_vert>>

Nearest ==
  /\ Running /\ Candidates # {}
  /\ LET c == CHOOSE c \in Candidates : \A d \in Candidates : Before(c, d)
     IN  Visit(c[2], cur_dist(c[1], c[2]))

\* With nothing to choose the round still visits new_vertex, which is 1.
NothingLeft == Running /\ Candidates = {} /\ Visit(1, INT_MAX)

Next == read_input_data \/ dijkstra \/ Nearest \/ NothingLeft

Result == IF dist[target_vert] # INT_MAX THEN dist[target_vert] ELSE -1

-------------------------------------------------------------------------------

\* The ways from u to v that pass no vertex twice, and the weight of one.
Ways(u, v) ==
  {w \in UNION {[1..n -> Vertex] : n \in Vertex} :
     /\ w[1] = u /\ w[Len(w)] = v /\ IsInjective(w)
     /\ \A k \in 1..(Len(w) - 1) : graph[w[k]][w[k + 1]] # 0}

Weight(w) == MapThenSumSet(LAMBDA k : graph[w[k]][w[k + 1]], 1..(Len(w) - 1))

\* dijkstra gives the weight of the shortest way.  When there is no way it gives -1, or
\* another negative number if 1 was visited as the vertex that is left, without being
\* reached, and leads to the target: INT_MAX plus a weight is then the least distance.
\* An input without the line of the two vertices gives 0, the way from 0 to itself.
DijkstraRight ==
  ~Reading /\ ~Running =>
    IF start_vert = 0 THEN Result = 0 ELSE
    LET ways == Ways(start_vert, target_vert)
    IN  IF ways # {}
        THEN Result = Min({Weight(w) : w \in ways})
        ELSE /\ Result < 0
             /\ Result # -1 => Ways(start_vert, 1) = {} /\ Ways(1, target_vert) # {}
===============================================================================
