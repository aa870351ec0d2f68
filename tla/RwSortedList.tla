------------------------------ MODULE RwSortedList ------------------------------
(***************************************************************************)
(* src/pthreads-problems/problem-3/solution_rw.c: the list of SortedList   *)
(* under a read-write lock that the sorter takes for each swap only.  It   *)
(* reads the list, and moves the head pointer, without it.                 *)
(***************************************************************************)
EXTENDS ListNodes

VARIABLES
  mainpc,      \* where main is
  lock,        \* owner of the lock, or "free"; main is the only reader
  stop_sort_thread,
  next_node,   \* local of bubble_sort_mt
  raced        \* history: an add_to_head overlapped a move of the head

vars == <<mainpc, sortpc, lock, stop_sort_thread, freed, next_node, raced, listVars, sortVars>>

Init ==
  /\ NodesInit /\ next_node = NULL /\ raced = FALSE
  /\ mainpc = "read" /\ sortpc = "test" /\ lock = "free" /\ stop_sort_thread = FALSE

Alive == mainpc \notin {"exit", "crash"}

\* Main is between the read of *list and its last write; the sorter is between its
\* test of the head and the swap that goes with it.
Adding == mainpc \in {"prev", "head"}
MovingHead == sortpc \in {"sethead", "swaphead"}

-------------------------------------------------------------------------------
\* main and read_lines.

GotoMain(from, to) == mainpc = from /\ mainpc' = to

ReadLine ==
  /\ GotoMain("read", "lock") \/ GotoMain("read", "stop")
  /\ UNCHANGED <<sortpc, lock, stop_sort_thread, freed, next_node, raced, listVars, sortVars>>

Lock ==
  /\ GotoMain("lock", "work") /\ lock = "free" /\ lock' = "main"
  /\ UNCHANGED <<sortpc, stop_sort_thread, freed, next_node, raced, listVars, sortVars>>

\* Also add_to_head when new_node finds no memory.
print_list ==
  /\ GotoMain("work", "unlock")
  /\ UNCHANGED <<sortpc, lock, stop_sort_thread, freed, next_node, raced, listVars, sortVars>>

\* add_to_head: the new node, node->next = *list ...
AddNext ==
  /\ GotoMain("work", IF list = NULL THEN "head" ELSE "prev")
  /\ \E v \in 0 .. MaxLine : new_node(v)
  /\ next' = [next EXCEPT ![n + 1] = list]
  /\ raced' = (raced \/ MovingHead)
  /\ UNCHANGED <<sortpc, lock, stop_sort_thread, freed, next_node, list, prev, sortVars>>

\* ... (*list)->prev = node, of a *list that is read again ...
AddPrev ==
  /\ GotoMain("prev", "head") /\ prev' = [prev EXCEPT ![list] = n]
  /\ UNCHANGED <<sortpc, lock, stop_sort_thread, freed, next_node, raced, n, list, next, line,
                 sortVars>>

\* ... and *list = node.
AddHead ==
  /\ GotoMain("head", "unlock") /\ list' = n
  /\ UNCHANGED <<sortpc, lock, stop_sort_thread, freed, next_node, raced, n, next, prev, line,
                 sortVars>>

Unlock ==
  /\ GotoMain("unlock", "read") /\ lock' = "free"
  /\ UNCHANGED <<sortpc, stop_sort_thread, freed, next_node, raced, listVars, sortVars>>

SetStop ==
  /\ GotoMain("stop", "join") /\ stop_sort_thread' = TRUE
  /\ UNCHANGED <<sortpc, lock, freed, next_node, raced, listVars, sortVars>>

Join ==
  /\ GotoMain("join", "free") /\ sortpc = "done"
  /\ UNCHANGED <<sortpc, lock, stop_sort_thread, freed, next_node, raced, listVars, sortVars>>

list_free ==
  /\ mainpc = "free"
  /\ IF list = NULL
       THEN mainpc' = "exit" /\ UNCHANGED <<freed, list>>
       ELSE freed' = freed \union {list} /\ list' = next[list] /\ UNCHANGED mainpc
  /\ UNCHANGED <<sortpc, lock, stop_sort_thread, next_node, raced, n, next, prev, line, sortVars>>

main == \/ ReadLine \/ Lock \/ print_list \/ AddNext \/ AddPrev \/ AddHead \/ Unlock
        \/ SetStop \/ Join \/ list_free

-------------------------------------------------------------------------------
\* bubble_sort_mt.

SortTest ==
  /\ GotoSort("test", IF stop_sort_thread THEN "done" ELSE "check")
  /\ UNCHANGED <<mainpc, lock, stop_sort_thread, freed, next_node, raced, listVars, sortVars>>

SortCheck ==
  /\ GotoSort("check", "pass") /\ list # NULL /\ next[list] # NULL /\ end' = NULL
  /\ UNCHANGED <<mainpc, lock, stop_sort_thread, freed, next_node, raced, listVars, current,
                 is_swapped>>

Pass ==
  /\ StartPass \/ EndPass("test")
  /\ UNCHANGED <<mainpc, lock, stop_sort_thread, next_node, raced>>

Crash ==
  /\ NullLine /\ mainpc' = "crash"
  /\ UNCHANGED <<sortpc, lock, stop_sort_thread, freed, next_node, raced, listVars, sortVars>>

\* Two lines out of order: next_node is set and the head looked at.
Compare ==
  /\ sortpc = "compare" /\ next[current] # end /\ ~NullLine
  /\ \/ /\ line[current] > line[next[current]] /\ next_node' = next[current]
        /\ sortpc' = (IF current = list THEN "sethead" ELSE "swap")
        /\ raced' = (raced \/ (current = list /\ Adding)) /\ UNCHANGED current
     \/ /\ line[current] <= line[next[current]] /\ current' = next[current]
        /\ UNCHANGED <<sortpc, next_node, raced>>
  /\ UNCHANGED <<mainpc, lock, stop_sort_thread, freed, listVars, end, is_swapped>>

\* *list = next_node, whatever *list is by now.
SetHead ==
  /\ GotoSort("sethead", "swaphead") /\ list' = next_node
  /\ UNCHANGED <<mainpc, lock, stop_sort_thread, freed, next_node, raced, n, next, prev, line,
                 sortVars>>

\* The swap under the lock.
SwapLocked ==
  /\ sortpc \in {"swap", "swaphead"} /\ lock = "free"
  /\ IF next[current] = next_node THEN swap(current, next_node) ELSE UNCHANGED <<next, prev>>
  /\ is_swapped' = TRUE /\ current' = next'[next_node] /\ sortpc' = "compare"
  /\ UNCHANGED <<mainpc, lock, stop_sort_thread, freed, next_node, raced, n, list, line, end>>

bubble_sort_mt ==
  SortTest \/ SortCheck \/ Pass \/ Crash \/ Compare \/ SetHead \/ SwapLocked

Next == Alive /\ (main \/ bubble_sort_mt)

Spec == Init /\ [][Next]_vars

\* Both threads are scheduled and get the lock: main waits for input between two uses
\* of it, the sorter holds it for one swap.
Fairness ==
  /\ WF_vars(Alive /\ main /\ mainpc # "read") /\ WF_vars(Alive /\ bubble_sort_mt)
  /\ SF_vars(Alive /\ Lock) /\ SF_vars(Alive /\ SwapLocked)

FairSpec == Spec /\ Fairness

-------------------------------------------------------------------------------

\* Reading outside the lock does no harm by itself: the list is one chain of all lines
\* between two changes of it, unless an add_to_head has overlapped a move of the
\* head.  That overlap is the only way to lose a line, and even then the sort stays
\* inside what is left.
ListInv ==
  /\ ~raced /\ ~Adding /\ ~MovingHead /\ mainpc \notin {"free", "exit", "crash"} => OneChain
  /\ InnerLoopInside

\* list_free gives back every node that was not lost.
AllFreed == mainpc = "exit" /\ ~raced => freed = Allocated

\* Every sort ends, though lines are added while it runs and some may be lost.
SortEnds == sortpc = "pass" ~> sortpc = "test" \/ mainpc = "crash"

\* What the end of the input leads to: as in SortedList.
ExitOutcome ==
  stop_sort_thread ~> [](~Alive \/ (mainpc = "join" /\ sortpc = "check" /\ n < 2))
===============================================================================
