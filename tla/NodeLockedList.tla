----------------------------- MODULE NodeLockedList -----------------------------
(***************************************************************************)
(* src/pthreads-problems/problem-3/solution_only_mutex++.c: the list of    *)
(* SortedList with a mutex in every node.  todolist.txt beside it says     *)
(* that its sort is to be rewritten; this is what it does as it stands.    *)
(***************************************************************************)
EXTENDS ListNodes

VARIABLES
  mainpc,       \* where main is
  owner,        \* the mutex of each node: "main", "sort" or "free"
  stop_sort_thread,
  cur,          \* print_list's node
  target,       \* the node whose mutex the sorter asks for
  prev_locked   \* local of bubble_sort_mt

mainVars == <<mainpc, stop_sort_thread, cur>>
lockVars == <<target, prev_locked>>
vars == <<mainVars, sortpc, owner, freed, lockVars, listVars, sortVars>>

Init ==
  /\ NodesInit /\ cur = NULL /\ target = NULL /\ prev_locked = NULL
  /\ owner = [a \in Node |-> "free"]
  /\ mainpc = "read" /\ sortpc = "test" /\ stop_sort_thread = FALSE

Alive == mainpc \notin {"exit", "crash"}

\* A default mutex: a second lock by its owner waits for ever, and unlock does not look
\* who the owner is.
LockNode(a, t) == owner[a] = "free" /\ owner' = [owner EXCEPT ![a] = t]
UnlockNodes(S) == owner' = [a \in Node |-> IF a \in S THEN "free" ELSE owner[a]]

-------------------------------------------------------------------------------
\* main and read_lines.

GotoMain(from, to) == mainpc = from /\ mainpc' = to

\* A line to add, an empty one with a list to print, or the end of the input.
ReadLine ==
  /\ \/ GotoMain("read", "add") /\ n < MaxNodes /\ UNCHANGED cur
     \/ GotoMain("read", "print") /\ list # NULL /\ cur' = list
     \/ GotoMain("read", "stop") /\ UNCHANGED cur
  /\ UNCHANGED <<stop_sort_thread, sortpc, owner, freed, lockVars, listVars, sortVars>>

\* add_to_head takes the mutex of the head, if there is one.
AddLock ==
  /\ GotoMain("add", "link")
  /\ IF list = NULL THEN UNCHANGED owner ELSE LockNode(list, "main")
  /\ UNCHANGED <<stop_sort_thread, cur, sortpc, freed, lockVars, listVars, sortVars>>

add_to_head ==
  /\ GotoMain("link", "linked") /\ \E v \in 0 .. MaxLine : new_node(v)
  /\ list' = n + 1 /\ next' = [next EXCEPT ![n + 1] = list]
  /\ prev' = IF list = NULL THEN prev ELSE [prev EXCEPT ![list] = n + 1]
  /\ UNCHANGED <<stop_sort_thread, cur, sortpc, owner, freed, lockVars, sortVars>>

AddUnlock ==
  /\ GotoMain("linked", "read") /\ UnlockNodes({next[list]})
  /\ UNCHANGED <<stop_sort_thread, cur, sortpc, freed, lockVars, listVars, sortVars>>

PrintLock ==
  /\ GotoMain("print", "walk") /\ LockNode(cur, "main")
  /\ UNCHANGED <<stop_sort_thread, cur, sortpc, freed, lockVars, listVars, sortVars>>

\* The next node is locked before this one is given back.
PrintNext ==
  /\ mainpc = "walk"
  /\ IF next[cur] = NULL
       THEN mainpc' = "read" /\ UnlockNodes({cur})
       ELSE /\ owner[next[cur]] = "free" /\ UNCHANGED mainpc
            /\ owner' = [owner EXCEPT ![next[cur]] = "main", ![cur] = "free"]
  /\ cur' = next[cur]
  /\ UNCHANGED <<stop_sort_thread, sortpc, freed, lockVars, listVars, sortVars>>

SetStop ==
  /\ GotoMain("stop", "join") /\ stop_sort_thread' = TRUE
  /\ UNCHANGED <<cur, sortpc, owner, freed, lockVars, listVars, sortVars>>

Join ==
  /\ GotoMain("join", "free") /\ sortpc = "done"
  /\ UNCHANGED <<stop_sort_thread, cur, sortpc, owner, freed, lockVars, listVars, sortVars>>

list_free ==
  /\ mainpc = "free"
  /\ IF list = NULL
       THEN mainpc' = "exit" /\ UNCHANGED <<freed, list>>
       ELSE freed' = freed \union {list} /\ list' = next[list] /\ UNCHANGED mainpc
  /\ UNCHANGED <<stop_sort_thread, cur, sortpc, owner, lockVars, n, next, prev, line, sortVars>>

main == \/ ReadLine \/ AddLock \/ add_to_head \/ AddUnlock \/ PrintLock \/ PrintNext
        \/ SetStop \/ Join \/ list_free

-------------------------------------------------------------------------------
\* bubble_sort_mt.

SortTest ==
  /\ GotoSort("test", IF stop_sort_thread THEN "done" ELSE "peek")
  /\ UNCHANGED <<mainVars, owner, freed, lockVars, listVars, sortVars>>

\* if (*list_head) lock the head: which node that is is settled here ...
Peek ==
  /\ GotoSort("peek", IF list = NULL THEN "check" ELSE "headlock") /\ target' = list
  /\ UNCHANGED <<mainVars, owner, freed, prev_locked, listVars, sortVars>>

\* ... and its mutex may be had only later.
HeadLock ==
  /\ GotoSort("headlock", "check") /\ LockNode(target, "sort")
  /\ UNCHANGED <<mainVars, freed, lockVars, listVars, sortVars>>

\* Two nodes are needed, of the list as it is now; the mutex stays locked.
Check ==
  /\ IF list = NULL \/ next[list] = NULL
       THEN GotoSort("check", "headunlock") /\ UNCHANGED end
       ELSE GotoSort("check", "pass") /\ end' = NULL
  /\ UNCHANGED <<mainVars, owner, freed, lockVars, listVars, current, is_swapped>>

\* The mutex of the head given back is that of the head as it is now.
HeadUnlock ==
  /\ GotoSort("headunlock", "peek") /\ UnlockNodes({list})
  /\ UNCHANGED <<mainVars, freed, lockVars, listVars, sortVars>>

Pass ==
  /\ GotoSort("pass", "first")
  /\ is_swapped' = FALSE /\ current' = list /\ prev_locked' = NULL
  /\ UNCHANGED <<mainVars, owner, freed, target, listVars, end>>

LockFirst ==
  /\ GotoSort("first", "compare") /\ LockNode(current, "sort")
  /\ UNCHANGED <<mainVars, freed, lockVars, listVars, sortVars>>

LockNext ==
  /\ GotoSort("compare", "strcmp") /\ next[current] # end /\ LockNode(next[current], "sort")
  /\ UNCHANGED <<mainVars, freed, lockVars, listVars, sortVars>>

Crash ==
  /\ sortpc = "strcmp" /\ 0 \in {line[current], line[next[current]]}
  /\ mainpc' = "crash"
  /\ UNCHANGED <<stop_sort_thread, cur, sortpc, owner, freed, lockVars, listVars, sortVars>>

\* In order: one node further.  Out of order: swap is called.
Strcmp ==
  /\ sortpc = "strcmp" /\ line[current] # 0 /\ line[next[current]] # 0
  /\ UnlockNodes({prev_locked})
  /\ IF line[current] > line[next[current]]
       THEN sortpc' = "swapa" /\ UNCHANGED <<prev_locked, current>>
       ELSE sortpc' = "compare" /\ prev_locked' = current /\ current' = next[current]
  /\ UNCHANGED <<mainVars, freed, target, listVars, end, is_swapped>>

\* swap locks the node before the two, and then the first of the two, which its caller
\* has locked (see NeverSwaps): what follows in swap is not reached.
SwapLockPrev ==
  /\ GotoSort("swapa", "swapb")
  /\ IF prev[current] = NULL THEN UNCHANGED owner ELSE LockNode(prev[current], "sort")
  /\ UNCHANGED <<mainVars, freed, lockVars, listVars, sortVars>>

\* No pass that comes here has swapped, so there is no second one.
PassEnd ==
  /\ GotoSort("compare", "test") /\ next[current] = end
  /\ UnlockNodes({current, prev_locked}) /\ end' = current
  /\ UNCHANGED <<mainVars, freed, lockVars, listVars, current, is_swapped>>

bubble_sort_mt ==
  \/ SortTest \/ Peek \/ HeadLock \/ Check \/ HeadUnlock \/ Pass \/ LockFirst \/ LockNext
  \/ Crash \/ Strcmp \/ SwapLockPrev \/ PassEnd

Next == Alive /\ (main \/ bubble_sort_mt)

Spec == Init /\ [][Next]_vars

\* A thread that can run does; nothing is assumed of the input or of who gets a mutex.
Fairness == WF_vars(Alive /\ main /\ mainpc # "read") /\ WF_vars(Alive /\ bubble_sort_mt)
FairSpec == Spec /\ Fairness

-------------------------------------------------------------------------------

\* The sorter waits for a mutex that it holds itself.
SelfDeadlock ==
  \/ sortpc = "headlock" /\ owner[target] = "sort"
  \/ sortpc \in {"first", "swapb"} /\ owner[current] = "sort"
  \/ sortpc = "compare" /\ next[current] # end /\ owner[next[current]] = "sort"

\* swap is called with its two nodes locked and starts by locking them, so no swap is
\* ever carried out: until it is freed the list is one chain in the order of the input.
NeverSwaps ==
  /\ sortpc \in {"swapa", "swapb"} => owner[current] = "sort" /\ owner[next[current]] = "sort"
  /\ mainpc \notin {"free", "exit"} => OneChain /\ \A a \in Allocated : next[a] = a - 1

AllFreed == mainpc = "exit" => freed = Allocated

\* What the end of the input leads to: the program ends, or main waits for ever for a
\* sorter that waits for two nodes or for itself.
ExitOutcome ==
  stop_sort_thread ~> [](~Alive \/ (mainpc = "join" /\ (n < 2 \/ SelfDeadlock)))
===============================================================================
