----------------------------- MODULE CondSortedList -----------------------------
(***************************************************************************)
(* src/pthreads-problems/problem-3/solution.c: the list of SortedList with *)
(* lines added at the tail, a mutex and a condition variable around the    *)
(* flag cond_predicate, and a sorting thread that is never told to stop:   *)
(* main destroys the mutex and frees the list while it runs.               *)
(***************************************************************************)
EXTENDS ListNodes

VARIABLES
  mainpc,         \* where main is
  m,              \* owner of the mutex, "free" or "destroyed"
  cond_predicate,
  rest            \* list_free's parameter: the nodes still to free

vars == <<mainpc, sortpc, m, cond_predicate, freed, rest, listVars, sortVars>>

Init ==
  /\ NodesInit /\ rest = NULL
  /\ mainpc = "read" /\ sortpc = "check" /\ m = "free" /\ cond_predicate = 0

Alive == mainpc \notin {"exit", "crash", "undefined"}

-------------------------------------------------------------------------------
\* main and read_lines.

GotoMain(from, to) == mainpc = from /\ mainpc' = to

\* A line to add, c_print, or c_exit; at the end of the input fgets is not looked at
\* and the last line comes again.
ReadLine ==
  /\ GotoMain("read", "lock") \/ GotoMain("read", "destroy")
  /\ UNCHANGED <<sortpc, m, cond_predicate, freed, rest, listVars, sortVars>>

\* The mutex, then the wait for cond_predicate = 0, then cond_predicate = 1.
Lock ==
  /\ GotoMain("lock", "work") /\ m = "free" /\ cond_predicate = 0
  /\ m' = "main" /\ cond_predicate' = 1
  /\ UNCHANGED <<sortpc, freed, rest, listVars, sortVars>>

\* Also add_to_tail when new_node finds no memory.
print_list ==
  /\ GotoMain("work", "unlock")
  /\ UNCHANGED <<sortpc, m, cond_predicate, freed, rest, listVars, sortVars>>

\* A new node, whose line is NULL when cpy_str finds no memory for it.
NewLine == \E v \in 0 .. MaxLine : new_node(v)

\* The node the walk along next ends with.
Tail == CHOOSE a \in Allocated : next[a] = NULL

add_to_tail ==
  /\ GotoMain("work", "unlock") /\ NewLine
  /\ IF list = NULL
       THEN list' = n + 1 /\ UNCHANGED <<next, prev>>
       ELSE /\ next' = [next EXCEPT ![Tail] = n + 1] /\ prev' = [prev EXCEPT ![n + 1] = Tail]
            /\ UNCHANGED list
  /\ UNCHANGED <<sortpc, m, cond_predicate, freed, rest, sortVars>>

Unlock ==
  /\ GotoMain("unlock", "read") /\ m' = "free" /\ cond_predicate' = 0
  /\ UNCHANGED <<sortpc, freed, rest, listVars, sortVars>>

\* pthread_mutex_destroy leaves a mutex that is held as it is.
Destroy ==
  /\ GotoMain("destroy", "free")
  /\ m' = (IF m = "free" THEN "destroyed" ELSE m) /\ rest' = list
  /\ UNCHANGED <<sortpc, cond_predicate, freed, listVars, sortVars>>

list_free ==
  /\ mainpc = "free"
  /\ IF rest = NULL
       THEN mainpc' = "exit" /\ UNCHANGED <<freed, rest>>
       ELSE freed' = freed \union {rest} /\ rest' = next[rest] /\ UNCHANGED mainpc
  /\ UNCHANGED <<sortpc, m, cond_predicate, listVars, sortVars>>

main == ReadLine \/ Lock \/ print_list \/ add_to_tail \/ Unlock \/ Destroy \/ list_free

-------------------------------------------------------------------------------
\* bubble_sort_mt, with the steps it shares with SortedList.

\* The nodes that the next step of the sorter reads or relinks.
Touched ==
  CASE sortpc = "check" -> {list}
    [] sortpc = "compare" /\ next[current] = end -> {current}
    [] sortpc = "compare" /\ next[current] # end ->
         {current, next[current]} \union
           IF line[current] > line[next[current]]
             THEN {prev[current], next[next[current]]} ELSE {}
    [] OTHER -> {}

\* The step meets a node that list_free has given back.
UseAfterFree ==
  /\ mainpc' = "undefined"
  /\ UNCHANGED <<sortpc, m, cond_predicate, freed, rest, listVars, sortVars>>

SortCheck ==
  /\ GotoSort("check", "lock") /\ list # NULL /\ next[list] # NULL
  /\ UNCHANGED <<mainpc, m, cond_predicate, freed, rest, listVars, sortVars>>

\* Locking a destroyed mutex fails, which nobody looks at.
SortLock ==
  /\ GotoSort("lock", "pass") /\ m \in {"free", "destroyed"} /\ cond_predicate = 0
  /\ m' = (IF m = "free" THEN "sort" ELSE m) /\ cond_predicate' = 1 /\ end' = NULL
  /\ UNCHANGED <<mainpc, freed, rest, listVars, current, is_swapped>>

Compare == CompareLines /\ UNCHANGED <<mainpc, m, cond_predicate, rest>>

Crash ==
  /\ NullLine /\ mainpc' = "crash"
  /\ UNCHANGED <<sortpc, m, cond_predicate, freed, rest, listVars, sortVars>>

Pass ==
  /\ StartPass \/ EndPass("unlock")
  /\ UNCHANGED <<mainpc, m, cond_predicate, rest>>

SortUnlock ==
  /\ GotoSort("unlock", "check")
  /\ m' = (IF m = "sort" THEN "free" ELSE m) /\ cond_predicate' = 0
  /\ UNCHANGED <<mainpc, freed, rest, listVars, sortVars>>

bubble_sort_mt ==
  IF Touched \intersect freed # {} THEN UseAfterFree
  ELSE SortCheck \/ SortLock \/ Pass \/ Crash \/ Compare \/ SortUnlock

Next == Alive /\ (main \/ bubble_sort_mt)

Spec == Init /\ [][Next]_vars

\* Main is scheduled; nothing is asked of the sorter, which is never joined.
Fairness == WF_vars(Alive /\ main /\ mainpc # "read") /\ SF_vars(Alive /\ Lock)

FairSpec == Spec /\ Fairness

-------------------------------------------------------------------------------

\* While main is in read_lines the list is one chain of all lines, the sort stays
\* inside it and leaves it sorted, and the condition variable is never waited on:
\* the flag is set and reset under one lock of the mutex.
ListInv ==
  /\ OneChain /\ (freed = {} => InnerLoopInside /\ (sortpc = "unlock" => Sorted))
  /\ m = "free" => cond_predicate = 0

\* c_exit ends the process whatever the sorter is doing: main asks for no lock and
\* joins no thread on the way.
ExitOutcome == mainpc = "destroy" ~> ~Alive
===============================================================================
