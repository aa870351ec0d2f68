----------------------------- MODULE EulerianCycle -----------------------------
(***************************************************************************)
(* src/utils/math/graphs/eulerian_cycle: an undirected graph, loops and    *)
(* multiple edges allowed, is tested for an Eulerian cycle, which is then  *)
(* printed by a depth-first walk that uses edges up.  The recursion of     *)
(* printEulerianCycleVertices is a stack of calls; a turn of its loop is   *)
(* one step.                                                               *)
(***************************************************************************)
EXTENDS Integers, Sequences, SequencesExt, FiniteSetsExt

CONSTANTS N, MaxEdges

VARIABLES
  edges,              \* the input
  adjacencyList,
  visitedEdges,       \* how often an edge can still be taken, in each direction
  vertexDegree,
  pc,                 \* "check", "walk", "none"
  startVertex,
  stack,              \* the calls: a vertex and the index its loop is at
  printed,
  resumed             \* an edge was taken after a call had returned

vars == <<edges, adjacencyList, visitedEdges, vertexDegree, pc, startVertex, stack, printed, resumed>>

Vertex == 1..N

EdgeSeqs == UNION {[1..n -> {e \in Vertex \X Vertex : e[1] <= e[2]}] : n \in 0..MaxEdges}

\* What an edge adds to the list of v; a loop adds two entries.
Ends(v, e) ==
  (IF e[1] = v THEN <<e[2]>> ELSE <<>>) \o (IF e[2] = v THEN <<e[1]>> ELSE <<>>)

ListOf(v, es) == FoldLeft(LAMBDA list, e : list \o Ends(v, e), <<>>, es)

Times(x, s) == Len(SelectSeq(s, LAMBDA y : y = x))

Init ==
  /\ edges \in EdgeSeqs
  /\ adjacencyList = [v \in Vertex |-> ListOf(v, edges)]
  /\ visitedEdges = [e \in Vertex \X Vertex |-> Times(e[2], adjacencyList[e[1]])]
  /\ vertexDegree = [v \in Vertex |-> 0]
  /\ pc = "check" /\ startVertex = 0 /\ stack = <<>> /\ printed = <<>> /\ resumed = FALSE

\* isConnected: what simpleDfs visits from vertex 1.
Reached[k \in 0..N] ==
  IF k = 0 THEN {1}
  ELSE Reached[k - 1] \union UNION {Range(adjacencyList[v]) : v \in Reached[k - 1]}

isConnected == Reached[N] = Vertex

checkIfEulerianCycleExists ==
  /\ pc = "check"
  /\ IF isConnected /\ \A v \in Vertex : Len(adjacencyList[v]) % 2 = 0
     THEN pc' = "walk" /\ vertexDegree' = [v \in Vertex |-> Len(adjacencyList[v])]
     ELSE pc' = "none" /\ UNCHANGED vertexDegree
  /\ UNCHANGED <<edges, adjacencyList, visitedEdges, startVertex, stack, printed, resumed>>

\* The loop in main.
StartWalk ==
  /\ pc = "walk" /\ stack = <<>> /\ startVertex < N
  /\ startVertex' = startVertex + 1
  /\ IF vertexDegree[startVertex'] > 1
     THEN stack' = <<[vertex |-> startVertex', i |-> 1]>> /\ printed' = Append(printed, startVertex')
     ELSE UNCHANGED <<stack, printed>>
  /\ UNCHANGED <<edges, adjacencyList, visitedEdges, vertexDegree, pc, resumed>>

Less(f, x, y) == [f EXCEPT ![x] = @ - 1, ![y] = @ - 1]

Usable(v, w) == visitedEdges[<<v, w>>] > 0 /\ visitedEdges[<<w, v>>] > 0 /\ vertexDegree[w] > 0

LoopTurn ==
  /\ stack # <<>> /\ Last(stack).i <= Len(adjacencyList[Last(stack).vertex])
  /\ LET v == Last(stack).vertex
         i == Last(stack).i
         w == adjacencyList[v][i]
         rest == Append(Front(stack), [vertex |-> v, i |-> i + 1])
     IN  IF Usable(v, w)
         THEN /\ vertexDegree' = Less(vertexDegree, v, w)
              /\ visitedEdges' = Less(visitedEdges, <<v, w>>, <<w, v>>)
              /\ IF w = startVertex /\ vertexDegree'[w] < 1
                 THEN stack' = rest /\ UNCHANGED printed
                 ELSE /\ stack' = Append(rest, [vertex |-> w, i |-> 1])
                      /\ printed' = Append(printed, w)
              /\ resumed' = (resumed \/ Last(printed) # v)
         ELSE stack' = rest /\ UNCHANGED <<vertexDegree, visitedEdges, printed, resumed>>
  /\ UNCHANGED <<edges, adjacencyList, pc, startVertex>>

Return ==
  /\ stack # <<>> /\ Last(stack).i > Len(adjacencyList[Last(stack).vertex])
  /\ stack' = Front(stack)
  /\ UNCHANGED <<edges, adjacencyList, visitedEdges, vertexDegree, pc, startVertex, printed, resumed>>

Next == checkIfEulerianCycleExists \/ StartWalk \/ LoopTurn \/ Return

-------------------------------------------------------------------------------

Ended == pc = "none" \/ (pc = "walk" /\ stack = <<>> /\ startVertex = N)

Norm(v, w) == IF v <= w THEN <<v, w>> ELSE <<w, v>>

\* The closed walk through the vertices of s takes every edge of the input once.
TakesAll(s) ==
  LET taken == [k \in DOMAIN s |-> Norm(s[k], s[IF k = Len(s) THEN 1 ELSE k + 1])]
  IN  Len(s) = Len(edges) /\ \A e \in Range(edges) : Times(e, taken) = Times(e, edges)

HasCycle == \E s \in [DOMAIN edges -> Vertex] : TakesAll(s)

\* NONE is printed when no closed walk takes every edge once, or some vertex has no edge.
\* Otherwise every edge is used up and as many vertices are printed; they are such a walk
\* unless an edge was taken after a call had returned to a vertex that was not printed last.
EulerRight ==
  Ended =>
    IF pc = "none"
    THEN ~HasCycle \/ (N > 1 /\ \E v \in Vertex : adjacencyList[v] = <<>>)
    ELSE /\ \A e \in Vertex \X Vertex : visitedEdges[e] = 0
         /\ Len(printed) = Len(edges)
         /\ ~resumed => TakesAll(printed)
===============================================================================
