------------------------------- MODULE SortedList -------------------------------
(***************************************************************************)
(* src/pthreads-problems/problem-3/solution_only_mutex.c: main reads lines *)
(* and adds each at the head of a doubly linked list, which the thread     *)
(* bubble_sort_mt sorts in place.  A mutex guards the list, but the thread *)
(* looks for two nodes without it.                                         *)
(***************************************************************************)
EXTENDS ListNodes

VARIABLES
  mainpc,             \* where main is
  m,                  \* owner of the mutex, or "free"
  stop_sort_thread

vars == <<mainpc, sortpc, m, stop_sort_thread, freed, listVars, sortVars>>

TypeOK ==
  /\ mainpc \in {"read", "lock", "work", "unlock", "stop", "join", "free", "exit", "crash"}
  /\ sortpc \in {"test", "check", "lock", "pass", "compare", "unlock", "done"}
  /\ m \in {"free", "main", "sort"} /\ stop_sort_thread \in BOOLEAN
  /\ n \in 0 .. MaxNodes /\ freed \in SUBSET Node /\ list \in Ptr
  /\ next \in [Node -> Ptr] /\ prev \in [Node -> Ptr] /\ line \in [Node -> 0 .. MaxLine]
  /\ current \in Ptr /\ end \in Ptr /\ is_swapped \in BOOLEAN

Init ==
  /\ NodesInit
  /\ mainpc = "read" /\ sortpc = "test" /\ m = "free" /\ stop_sort_thread = FALSE

Alive == mainpc \notin {"exit", "crash"}

-------------------------------------------------------------------------------
\* main and read_lines.

GotoMain(from, to) == mainpc = from /\ mainpc' = to

\* A line to add, an empty one (print), or the end of the input.
ReadLine ==
  /\ GotoMain("read", "lock") \/ GotoMain("read", "stop")
  /\ UNCHANGED <<sortpc, m, stop_sort_thread, freed, listVars, sortVars>>

Lock ==
  /\ GotoMain("lock", "work") /\ m = "free" /\ m' = "main"
  /\ UNCHANGED <<sortpc, stop_sort_thread, freed, listVars, sortVars>>

\* Also add_to_head when new_node finds no memory.
print_list ==
  /\ GotoMain("work", "unlock")
  /\ UNCHANGED <<sortpc, m, stop_sort_thread, freed, listVars, sortVars>>

add_to_head ==
  /\ GotoMain("work", "unlock") /\ \E v \in 0 .. MaxLine : new_node(v)
  /\ list' = n + 1 /\ next' = [next EXCEPT ![n + 1] = list]
  /\ prev' = IF list = NULL THEN prev ELSE [prev EXCEPT ![list] = n + 1]
  /\ UNCHANGED <<sortpc, m, stop_sort_thread, freed, sortVars>>

Unlock ==
  /\ GotoMain("unlock", "read") /\ m' = "free"
  /\ UNCHANGED <<sortpc, stop_sort_thread, freed, listVars, sortVars>>

SetStop ==
  /\ GotoMain("stop", "join") /\ stop_sort_thread' = TRUE
  /\ UNCHANGED <<sortpc, m, freed, listVars, sortVars>>

Join ==
  /\ GotoMain("join", "free") /\ sortpc = "done"
  /\ UNCHANGED <<sortpc, m, stop_sort_thread, freed, listVars, sortVars>>

\* Main walks along next; list stands for its own copy of the pointer.
list_free ==
  /\ mainpc = "free"
  /\ IF list = NULL
       THEN mainpc' = "exit" /\ UNCHANGED <<freed, list>>
       ELSE freed' = freed \union {list} /\ list' = next[list] /\ UNCHANGED mainpc
  /\ UNCHANGED <<sortpc, m, stop_sort_thread, n, next, prev, line, sortVars>>

main == \/ ReadLine \/ Lock \/ print_list \/ add_to_head \/ Unlock
        \/ SetStop \/ Join \/ list_free

-------------------------------------------------------------------------------
\* bubble_sort_mt.

\* while (!stop_sort_thread)
SortTest ==
  /\ GotoSort("test", IF stop_sort_thread THEN "done" ELSE "check")
  /\ UNCHANGED <<mainpc, m, stop_sort_thread, freed, listVars, sortVars>>

\* The loop that sleeps until the list has two nodes; it tests no flag.
SortCheck ==
  /\ GotoSort("check", "lock") /\ list # NULL /\ next[list] # NULL
  /\ UNCHANGED <<mainpc, m, stop_sort_thread, freed, listVars, sortVars>>

SortLock ==
  /\ GotoSort("lock", "pass") /\ m = "free" /\ m' = "sort" /\ end' = NULL
  /\ UNCHANGED <<mainpc, stop_sort_thread, freed, listVars, current, is_swapped>>

SortPass == StartPass /\ UNCHANGED <<mainpc, m, stop_sort_thread>>

Crash ==
  /\ NullLine /\ mainpc' = "crash"
  /\ UNCHANGED <<sortpc, m, stop_sort_thread, freed, listVars, sortVars>>

Compare == CompareLines /\ UNCHANGED <<mainpc, m, stop_sort_thread>>

PassEnd == EndPass("unlock") /\ UNCHANGED <<mainpc, m, stop_sort_thread>>

SortUnlock ==
  /\ GotoSort("unlock", "test") /\ m' = "free"
  /\ UNCHANGED <<mainpc, stop_sort_thread, freed, listVars, sortVars>>

bubble_sort_mt ==
  \/ SortTest \/ SortCheck \/ SortLock \/ SortPass \/ Crash \/ Compare \/ PassEnd
  \/ SortUnlock

Next == Alive /\ (main \/ bubble_sort_mt)

Spec == Init /\ [][Next]_vars

\* Both threads are scheduled; the sorter sleeps between two sorts, so main gets the
\* mutex, and main waits for input, so the sorter gets it.
Fairness ==
  /\ WF_vars(Alive /\ main /\ mainpc # "read") /\ WF_vars(Alive /\ bubble_sort_mt)
  /\ SF_vars(Alive /\ Lock) /\ SF_vars(Alive /\ SortLock)

FairSpec == Spec /\ Fairness

-------------------------------------------------------------------------------

\* Whatever add_to_head and swap do to it, the list is one chain of all the nodes,
\* also in the middle of a sort, whose inner loop stays inside it.
ListInv == (mainpc \notin {"free", "exit"} => OneChain) /\ InnerLoopInside

\* When bubble_sort_mt gives the mutex back the lines are in order.
SortedOnUnlock == sortpc = "unlock" => Sorted

\* list_free gives back every node, in whatever order the sort has left them.
AllFreed == mainpc = "exit" => freed = Allocated

\* Every sort ends and gives the mutex back, or has met a line that cpy_str could
\* not copy.
SortEnds == sortpc = "pass" ~> m # "sort" \/ mainpc = "crash"

\* What the end of the input leads to: the process ends, or the sorter sleeps for
\* ever in the loop of line 185 because the list has fewer than two nodes.
ExitOutcome ==
  stop_sort_thread ~> []( \/ ~Alive
                          \/ mainpc = "join" /\ sortpc = "check" /\ n < 2)
===============================================================================
