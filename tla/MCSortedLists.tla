----------------------------- MODULE MCSortedLists -----------------------------
(***************************************************************************)
(* The four programs of problem 3 side by side: a behaviour is one of the  *)
(* program it starts with, and the variables they share mean the same.     *)
(***************************************************************************)
EXTENDS SortedList

VARIABLES
  program,
  cond_predicate, rest,             \* CondSortedList
  lock, next_node, raced,           \* RwSortedList
  owner, cur, target, prev_locked   \* NodeLockedList

condVars == <<cond_predicate, rest>>
rwVars == <<lock, next_node, raced>>
nodeVars == <<owner, cur, target, prev_locked>>

Cond == INSTANCE CondSortedList
Rw == INSTANCE RwSortedList
Nodes == INSTANCE NodeLockedList

IdleCond == cond_predicate = 0 /\ rest = NULL
IdleRw == lock = "free" /\ next_node = NULL /\ raced = FALSE
IdleNodes == owner = [a \in Node |-> "free"] /\ cur = NULL /\ target = NULL /\ prev_locked = NULL

MCInit ==
  \/ program = "mutex" /\ Init /\ IdleCond /\ IdleRw /\ IdleNodes
  \/ program = "cond" /\ Cond!Init /\ stop_sort_thread = FALSE /\ IdleRw /\ IdleNodes
  \/ program = "rw" /\ Rw!Init /\ m = "free" /\ IdleCond /\ IdleNodes
  \/ program = "nodes" /\ Nodes!Init /\ m = "free" /\ IdleCond /\ IdleRw

MCNext ==
  \/ program = "mutex" /\ Next /\ UNCHANGED <<program, condVars, rwVars, nodeVars>>
  \/ program = "cond" /\ Cond!Next /\ UNCHANGED <<program, stop_sort_thread, rwVars, nodeVars>>
  \/ program = "rw" /\ Rw!Next /\ UNCHANGED <<program, m, condVars, nodeVars>>
  \/ program = "nodes" /\ Nodes!Next /\ UNCHANGED <<program, m, condVars, rwVars>>

MCVars == <<vars, program, condVars, rwVars, nodeVars>>

MCSpec ==
  /\ MCInit /\ [][MCNext]_MCVars
  /\ \/ program = "mutex" /\ Fairness
     \/ program = "cond" /\ Cond!Fairness
     \/ program = "rw" /\ Rw!Fairness
     \/ program = "nodes" /\ Nodes!Fairness

-------------------------------------------------------------------------------

\* However they lock it, bubble_sort_mt and the functions that add a line keep the list
\* one chain of all lines in both directions, and the sort inside it; with a read-write
\* lock only until an add_to_head overlaps a move of the head.  With a mutex in every node,
\* of which swap locks two that its caller holds, no line is ever moved.
ChainKept ==
  /\ program = "mutex" => ListInv
  /\ program = "cond" => Cond!ListInv
  /\ program = "rw" => Rw!ListInv
  /\ program = "nodes" => Nodes!NeverSwaps

\* When bubble_sort_mt gives the mutex back the lines are in order.
SortedAtUnlock == program \in {"mutex", "cond"} => SortedOnUnlock

\* list_free gives back every node, except those that the race of the read-write lock
\* has lost; the program without a join is left out, it frees under the sorter.
AllFreedAtExit ==
  /\ program = "mutex" => AllFreed
  /\ program = "rw" => Rw!AllFreed
  /\ program = "nodes" => Nodes!AllFreed

\* Every sort ends, or has met a line that cpy_str could not copy.  The end of the input
\* leads to the end of the process, or main waits for ever for a sorter that waits for two
\* nodes or for a mutex of its own.
Outcome ==
  /\ program = "mutex" => SortEnds /\ ExitOutcome
  /\ program = "cond" => Cond!ExitOutcome
  /\ program = "rw" => Rw!SortEnds /\ Rw!ExitOutcome
  /\ program = "nodes" => Nodes!ExitOutcome
===============================================================================
