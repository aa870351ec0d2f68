------------------------------- MODULE ListNodes -------------------------------
(***************************************************************************)
(* What the programs of src/pthreads-problems/problem-3 have in common: a  *)
(* doubly linked list of lines, and the bubble sort of it by relinking     *)
(* neighbours.  They differ in how they lock it.                           *)
(***************************************************************************)
EXTENDS Naturals

CONSTANTS
  MaxNodes,  \* lines that main can add
  MaxLine    \* lines are compared by strcmp: 1 .. MaxLine stand for their order

ASSUME ListAssumption == MaxNodes \in Nat \ {0} /\ MaxLine \in Nat \ {0}

NULL == 0
Node == 1 .. MaxNodes
Ptr  == Node \union {NULL}

VARIABLES
  n,                  \* nodes allocated so far
  freed,              \* nodes given back
  list,               \* main's head pointer
  next, prev, line,   \* the nodes; a line is NULL when cpy_str found no memory
  sortpc, current, end, is_swapped  \* bubble_sort_mt and its locals

listVars == <<n, list, next, prev, line>>
sortVars == <<current, end, is_swapped>>

NodesInit ==
  /\ n = 0 /\ freed = {} /\ list = NULL
  /\ next = [a \in Node |-> NULL] /\ prev = [a \in Node |-> NULL] /\ line = [a \in Node |-> 0]
  /\ current = NULL /\ end = NULL /\ is_swapped = FALSE

\* new_node for a line v, which is NULL when cpy_str finds no memory.
new_node(v) == n < MaxNodes /\ n' = n + 1 /\ line' = [line EXCEPT ![n + 1] = v]

-------------------------------------------------------------------------------
\* The sort.

GotoSort(from, to) == sortpc = from /\ sortpc' = to

StartPass ==
  /\ GotoSort("pass", "compare") /\ is_swapped' = FALSE /\ current' = list
  /\ UNCHANGED <<freed, listVars, end>>

\* Mutant: the node after the two keeps its prev.
MutantSwap(l, r) ==
  /\ next' = [a \in Node |-> IF a = r THEN l ELSE IF a = prev[l] THEN r
                             ELSE IF a = l THEN next[r] ELSE next[a]]
  /\ prev' = [prev EXCEPT ![l] = r, ![r] = prev[l]]

\* Mutant: the node before the two still leads to l.
MutantSwapLoses(l, r) ==
  /\ next' = [next EXCEPT ![l] = next[r], ![r] = l]
  /\ prev' = [a \in Node |-> IF a = l THEN r ELSE IF a = r THEN prev[l]
                             ELSE IF a = next[r] THEN l ELSE prev[a]]

\* r follows l and changes places with it.
swap(l, r) ==
  /\ next' = [a \in Node |-> IF a = r THEN l ELSE IF a = prev[l] THEN r
                             ELSE IF a = l THEN next[r] ELSE next[a]]
  /\ prev' = [a \in Node |-> IF a = l THEN r ELSE IF a = r THEN prev[l]
                             ELSE IF a = next[r] THEN l ELSE prev[a]]

\* strcmp of a line that is NULL.
NullLine ==
  /\ sortpc = "compare" /\ next[current] # end
  /\ line[current] = 0 \/ line[next[current]] = 0

\* After the swap current is the node it was, one place further on.
CompareLines ==
  /\ sortpc = "compare" /\ next[current] # end /\ ~NullLine
  /\ \/ /\ line[current] > line[next[current]]
        /\ list' = IF current = list THEN next[current] ELSE list
        /\ swap(current, next[current])
        /\ is_swapped' = TRUE /\ UNCHANGED current
     \/ /\ line[current] <= line[next[current]]
        /\ current' = next[current] /\ UNCHANGED <<list, next, prev, is_swapped>>
  /\ UNCHANGED <<sortpc, freed, n, line, end>>

\* Mutant: no second pass.
MutantEndPass(then) ==
  /\ sortpc = "compare" /\ next[current] = end /\ end' = current /\ sortpc' = then
  /\ UNCHANGED <<freed, listVars, current, is_swapped>>

\* Mutant: is_swapped is taken for TRUE.
MutantEndPassForever(then) ==
  /\ sortpc = "compare" /\ next[current] = end /\ end' = end /\ sortpc' = "pass"
  /\ UNCHANGED <<freed, listVars, current, is_swapped>>

\* end = current; while (is_swapped)
EndPass(then) ==
  /\ sortpc = "compare" /\ next[current] = end
  /\ end' = current /\ sortpc' = IF is_swapped THEN "pass" ELSE then
  /\ UNCHANGED <<freed, listVars, current, is_swapped>>

-------------------------------------------------------------------------------

Allocated == 1 .. n

\* s lists all nodes in the order of next, and prev is its inverse.
IsChain(s) ==
  /\ n > 0 => list = s[1] /\ prev[s[1]] = NULL /\ next[s[n]] = NULL
  /\ \A k \in 1 .. n - 1 : next[s[k]] = s[k + 1] /\ prev[s[k + 1]] = s[k]
  /\ {s[k] : k \in 1 .. n} = Allocated

\* The list is one chain of all the nodes in both directions: no line is lost, none
\* is reached twice.
OneChain ==
  (n = 0 /\ list = NULL) \/ (n > 0 /\ \E s \in [Allocated -> Allocated] : IsChain(s))

\* The inner loop of the sort stays inside the list: there is a next node to compare
\* with until `end' is met, and no node it reads has been given back.
InnerLoopInside ==
  sortpc = "compare" =>
    /\ current # NULL /\ current \notin freed
    /\ next[current] # end => next[current] # NULL /\ next[current] \notin freed

\* Neighbours are in order.
Sorted == \A a \in Allocated : next[a] # NULL => line[a] <= line[next[a]]
===============================================================================
